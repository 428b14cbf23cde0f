------------------------- MODULE ControlPlaneProofs -------------------------
(***************************************************************************)
(* Proofs about the control plane: the retained log of a tenant, the two   *)
(* that work from it, the cursor of a client and the outbox, and the       *)
(* stores of documents, effects and backups.                               *)
(*                                                                         *)
(* Of the log, for every retention: the retained window is preserved by    *)
(* every publication, and what it implies of the answers of the two        *)
(* adapters.  Of the cursor, for any number of overlapping polls, any      *)
(* message limit, either adapter, and services that leave messages out: it *)
(* skips nothing and implements GaplessReader.                             *)
(*                                                                         *)
(* Of the outbox, for any set of workers, retention, lease term, clock lag *)
(* and command limit: LeaseExclusive and AttemptsFence are not inductive   *)
(* alone: that a live lease is not taken over, and that a stale attempt    *)
(* never equals the latest, rest on HeldRows, which relates what a worker  *)
(* holds to the row at any time, expired or not.                           *)
(*                                                                         *)
(* Of the stores, for either adapter and for any tenants, objects, keys,   *)
(* requests, clients and bounds.                                           *)
(***************************************************************************)
EXTENDS RealtimeCursor, ControlPlaneOutbox, ControlPlaneStore, FiniteSetTheorems, TLAPS

(***************************************************************************)
(* The log.                                                                *)
(***************************************************************************)

LogInv ==
  /\ nextSequence \in 1..(MaxSequence + 1)
  /\ messages \in Seq(Nat)
  /\ RetainedWindow

\* How many messages are retained.
Count == IF Retention <= latestSequence THEN Retention ELSE latestSequence

(* The smaller of two numbers.                                             *)
LEMMA MinOfTwo ==
  ASSUME NEW a \in Nat, NEW b \in Nat
  PROVE  Min({a, b}) = IF a <= b THEN a ELSE b
<1> DEFINE m == IF a <= b THEN a ELSE b
<1>1. m \in {a, b} /\ \A y \in {a, b} : m <= y
  OBVIOUS
<1>2. \A x \in {a, b} : (\A y \in {a, b} : x <= y) => x = m
  OBVIOUS
<1> QED
  BY <1>1, <1>2 DEF Min

(* The ends of a nonempty interval.                                        *)
LEMMA IntervalEnds ==
  ASSUME NEW a \in Int, NEW b \in Int, a <= b
  PROVE  Min(a..b) = a /\ Max(a..b) = b
<1>1. /\ a \in a..b /\ \A y \in a..b : a <= y
      /\ \A x \in a..b : (\A y \in a..b : x <= y) => x = a
  OBVIOUS
<1>2. /\ b \in a..b /\ \A y \in a..b : b >= y
      /\ \A x \in a..b : (\A y \in a..b : x >= y) => x = b
  OBVIOUS
<1>3. Min(a..b) = a
  BY <1>1 DEF Min
<1>4. Max(a..b) = b
  BY <1>2 DEF Max
<1> QED
  BY <1>3, <1>4

(* The window, without the minimum.                                        *)
LEMMA Window ==
  ASSUME nextSequence \in 1..(MaxSequence + 1)
  PROVE  /\ Count \in Nat /\ latestSequence \in Nat /\ Count <= latestSequence
         /\ RetainedWindow <=>
              /\ Len(messages) = Count
              /\ \A i \in 1..Count : messages[i] = latestSequence - Count + i
              /\ realtimeRows = (latestSequence - Count + 1)..latestSequence
<1>1. latestSequence \in Nat
  BY SequenceBoundAssumption DEF latestSequence
<1>2. Min({Retention, latestSequence}) = Count
  BY <1>1, RetentionAssumption, MinOfTwo DEF Count
<1>3. RetainedWindow <=>
        /\ Len(messages) = Count
        /\ \A i \in 1..Count : messages[i] = latestSequence - Count + i
        /\ realtimeRows = (latestSequence - Count + 1)..latestSequence
  BY <1>2 DEF RetainedWindow
<1>4. Count \in Nat /\ Count <= latestSequence
  BY <1>1, RetentionAssumption DEF Count
<1> QED
  BY <1>1, <1>3, <1>4

LEMMA LogInitWindow == LogInit => LogInv
<1> SUFFICES ASSUME LogInit PROVE LogInv
  OBVIOUS
<1>1. nextSequence \in 1..(MaxSequence + 1) /\ latestSequence = 0
  BY SequenceBoundAssumption DEF LogInit, latestSequence
<1>2. Count = 0
  BY <1>1, RetentionAssumption DEF Count
<1>3. Len(messages) = 0 /\ messages \in Seq(Nat) /\ realtimeRows = 1..0
  BY DEF LogInit
<1> QED
  BY <1>1, <1>2, <1>3, Window DEF LogInv

(* The window after a publication: the array has been pushed and shifted,  *)
(* the rows have been inserted and trimmed (publish of                     *)
(* reference-outbox.ts, insertRealtime of sqlite-outbox.ts).               *)
LEMMA AppendWindow == LogInv /\ AppendMessage => LogInv'
<1> SUFFICES ASSUME LogInv, AppendMessage PROVE LogInv'
  OBVIOUS
<1> DEFINE n == latestSequence
           c == Count
           d == IF Retention <= n + 1 THEN Retention ELSE n + 1
           pushed == Append(messages, n + 1)
<1>1. /\ c \in Nat /\ n \in Nat /\ c <= n
      /\ messages \in Seq(Nat) /\ Len(messages) = c
      /\ \A i \in 1..c : messages[i] = n - c + i
      /\ realtimeRows = (n - c + 1)..n
  BY Window DEF LogInv
<1>2. /\ nextSequence = n + 1
      /\ nextSequence' \in 1..(MaxSequence + 1)
      /\ latestSequence' = n + 1
  BY SequenceBoundAssumption DEF LogInv, AppendMessage, latestSequence
<1>shift. messages' = IF Len(pushed) > Retention THEN Tail(pushed) ELSE pushed
  BY <1>2 DEF AppendMessage, PushAndShift
<1>trim. realtimeRows' = {s \in realtimeRows \cup {nextSequence} :
                            s > nextSequence - Retention}
  BY DEF AppendMessage, InsertAndTrim
<1>3. c = IF Retention <= n THEN Retention ELSE n
  BY DEF Count
<1> HIDE DEF n, c, d
<1>4. /\ pushed \in Seq(Nat) /\ Len(pushed) = c + 1
      /\ \A i \in 1..(c + 1) : pushed[i] = n - c + i
  BY <1>1
<1> HIDE DEF pushed
<1>6. messages' \in Seq(Nat) /\ Len(messages') = d /\ \A i \in 1..d : messages'[i] = n + 1 - d + i
  <2>1. CASE Retention <= n
    <3>1. c = Retention /\ d = Retention
      BY <1>1, <1>3, <2>1, RetentionAssumption DEF d
    <3>2. messages' = Tail(pushed)
      BY <1>1, <1>shift, <1>4, <3>1, RetentionAssumption
    <3>3. /\ Tail(pushed) \in Seq(Nat) /\ Len(Tail(pushed)) = c
          /\ \A i \in 1..c : Tail(pushed)[i] = pushed[i + 1]
      BY <1>1, <1>4
    <3> QED
      BY <1>1, <1>4, <3>1, <3>2, <3>3
  <2>2. CASE Retention > n
    <3>1. c = n /\ d = n + 1
      BY <1>1, <1>3, <2>2, RetentionAssumption DEF d
    <3>2. messages' = pushed
      BY <1>1, <1>shift, <1>4, <2>2, <3>1, RetentionAssumption
    <3> QED
      BY <1>1, <1>4, <3>1, <3>2
  <2> QED
    BY <1>1, <2>1, <2>2, RetentionAssumption
<1>7. realtimeRows' = (n + 1 - d + 1)..(n + 1)
  <2>1. CASE Retention <= n
    BY <1>1, <1>2, <1>trim, <1>3, <2>1, RetentionAssumption DEF d
  <2>2. CASE Retention > n
    BY <1>1, <1>2, <1>trim, <1>3, <2>2, RetentionAssumption DEF d
  <2> QED
    BY <1>1, <2>1, <2>2, RetentionAssumption
<1>8. Min({Retention, latestSequence'}) = d
  BY <1>1, <1>2, MinOfTwo, RetentionAssumption DEF d
<1>9. /\ Len(messages') = d
      /\ \A i \in 1..d : messages'[i] = latestSequence' - d + i
      /\ realtimeRows' = (latestSequence' - d + 1)..latestSequence'
  <2>0. d \in Nat /\ n \in Nat /\ latestSequence' = n + 1
    BY <1>1, <1>2, RetentionAssumption DEF d
  <2>1. Len(messages') = d
    BY <1>6
  <2>2. \A i \in 1..d : messages'[i] = latestSequence' - d + i
    BY <1>6, <2>0
  <2>3. realtimeRows' = (latestSequence' - d + 1)..latestSequence'
    BY <1>7, <2>0
  <2> QED
    BY <2>1, <2>2, <2>3
<1>10. RetainedWindow'
  BY <1>8, <1>9, Zenon DEF RetainedWindow
<1> QED
  BY <1>2, <1>6, <1>10 DEF LogInv

-----------------------------------------------------------------------------
(* The answers of the adapters under the invariant.                        *)

\* The cursor has been overtaken: the window starts after the next message.
Overtaken(after) == Count > 0 /\ after < latestSequence - Count

\* The retained messages after a cursor.
After(after) == {s \in (latestSequence - Count + 1)..latestSequence : s > after}

(* The answer of the reference adapter (resume, reference-outbox.ts).      *)
LEMMA ReferenceAnswer ==
  ASSUME LogInv, NEW after \in Nat
  PROVE  IF Overtaken(after)
         THEN ResumeReference(after) = Gap
         ELSE /\ ResumeReference(after) =
                   [status |-> "succeeded", latest |-> latestSequence,
                    messages |-> After(after), oldest |-> ResumeReference(after).oldest]
              /\ ResumeReference(after).status = "succeeded"
              /\ ResumeReference(after).latest = latestSequence
              /\ ResumeReference(after).messages = After(after)
              /\ ResumeReference(after).oldest \in 1..nextSequence
<1> DEFINE n == latestSequence
           c == Count
           oldest == IF messages = << >> THEN nextSequence ELSE messages[1]
<1>1. /\ c \in Nat /\ n \in Nat /\ c <= n /\ nextSequence = n + 1
      /\ messages \in Seq(Nat) /\ Len(messages) = c
      /\ \A i \in 1..c : messages[i] = n - c + i
  BY Window DEF LogInv, latestSequence
<1>2. Range(messages) = (n - c + 1)..n
  <2>1. Range(messages) = {messages[i] : i \in 1..c}
    <3>1. DOMAIN messages = 1..c
      BY <1>1
    <3> QED
      BY <3>1, Zenon DEF Range
  <2>2. \A i \in 1..c : messages[i] \in (n - c + 1)..n
    BY <1>1
  <2>3. \A s \in (n - c + 1)..n : s - (n - c) \in 1..c /\ messages[s - (n - c)] = s
    BY <1>1
  <2>4. \A s \in (n - c + 1)..n : \E i \in 1..c : messages[i] = s
    BY <2>3
  <2> QED
    BY <2>1, <2>2, <2>4
<1>3. /\ c = 0 => messages = << >> /\ oldest = n + 1
      /\ c > 0 => messages # << >> /\ oldest = n - c + 1
  BY <1>1
<1>4. RealtimeGap(Len(messages), after, oldest) <=> Overtaken(after)
  BY <1>1, <1>3 DEF RealtimeGap, Overtaken
<1>5. Batch(after, Range(messages), oldest) =
        [status |-> "succeeded", latest |-> latestSequence,
         messages |-> After(after), oldest |-> oldest]
  BY <1>2 DEF Batch, After
<1>6. ResumeReference(after) =
        IF Overtaken(after) THEN Gap ELSE Batch(after, Range(messages), oldest)
  BY <1>4 DEF ResumeReference
<1>7. oldest \in 1..nextSequence
  BY <1>1, <1>3
<1> HIDE DEF oldest
<1> QED
  BY <1>5, <1>6, <1>7

(* The answer of the SQLite adapter (resumeSqliteRealtime).                *)
LEMMA SqliteAnswer ==
  ASSUME LogInv, NEW after \in Nat
  PROVE  IF Overtaken(after)
         THEN ResumeSqlite(after) = Gap
         ELSE /\ ResumeSqlite(after) =
                   [status |-> "succeeded", latest |-> latestSequence,
                    messages |-> After(after), oldest |-> ResumeSqlite(after).oldest]
              /\ ResumeSqlite(after).status = "succeeded"
              /\ ResumeSqlite(after).latest = latestSequence
              /\ ResumeSqlite(after).messages = After(after)
              /\ ResumeSqlite(after).oldest \in 1..nextSequence
<1> DEFINE n == latestSequence
           c == Count
           rows == {s \in realtimeRows : s > after}
           oldest == IF rows = {} THEN nextSequence ELSE Min(rows)
           first == IF after < n - c THEN n - c + 1 ELSE after + 1
<1>1. /\ c \in Nat /\ n \in Nat /\ c <= n /\ nextSequence = n + 1
      /\ realtimeRows = (n - c + 1)..n
  BY Window DEF LogInv, latestSequence
<1>2. rows = After(after) /\ first \in Nat \ {0} /\ rows = first..n
  BY <1>1 DEF After
<1>order. Overtaken(after) <=> c > 0 /\ after < n - c
  BY DEF Overtaken
<1>choice. first = IF after < n - c THEN n - c + 1 ELSE after + 1
  OBVIOUS
<1>minimum. oldest = IF rows = {} THEN n + 1 ELSE Min(rows)
  BY <1>1
<1> HIDE DEF n, c, first, oldest, rows
<1>3. Cardinality(rows) \in Nat /\ (Cardinality(rows) > 0 <=> first <= n)
  <2>1. first \in Int /\ n \in Int
    BY <1>1, <1>2
  <2>2. Cardinality(first..n) = IF first > n THEN 0 ELSE n - first + 1
    BY <2>1, FS_Interval
  <2> QED
    BY <1>2, <2>1, <2>2
<1>4. oldest = IF first <= n THEN first ELSE n + 1
  <2>1. CASE first <= n
    <3>1. first \in rows /\ first \in Int /\ n \in Int
      BY <1>1, <1>2, <2>1
    <3>2. Min(first..n) = first
      BY <2>1, <3>1, IntervalEnds
    <3> QED
      BY <1>2, <1>minimum, <2>1, <3>1, <3>2
  <2>2. CASE ~ (first <= n)
    <3>1. rows = {}
      BY <1>1, <1>2, <2>2
    <3> QED
      BY <1>minimum, <2>2, <3>1
  <2> QED
    BY <2>1, <2>2
<1>5. RealtimeGap(Cardinality(rows), after, oldest) <=> Overtaken(after)
  BY <1>1, <1>2, <1>3, <1>4, <1>order, <1>choice DEF RealtimeGap
<1>6. Batch(after, rows, oldest) =
        [status |-> "succeeded", latest |-> latestSequence,
         messages |-> After(after), oldest |-> oldest]
  BY <1>2 DEF Batch, After
<1>7. ResumeSqlite(after) =
        IF Overtaken(after) THEN Gap ELSE Batch(after, rows, oldest)
  BY <1>5 DEF ResumeSqlite, rows, oldest
<1>8. oldest \in 1..nextSequence
  BY <1>1, <1>2, <1>4
<1> QED
  BY <1>6, <1>7, <1>8

(* The two adapters agree in every reachable state of the log.             *)
LEMMA Agreement == LogInv => AdaptersAgree
<1> SUFFICES ASSUME LogInv, NEW after \in 0..(MaxSequence + 1)
             PROVE  /\ ResumeReference(after).status = ResumeSqlite(after).status
                    /\ ResumeReference(after).messages = ResumeSqlite(after).messages
                    /\ ResumeReference(after).latest = ResumeSqlite(after).latest
  BY DEF AdaptersAgree
<1>1. after \in Nat
  BY SequenceBoundAssumption
<1> QED
  BY <1>1, ReferenceAnswer, SqliteAnswer

(* A resume is complete or reports a gap, if something is retained at all: *)
(* with retention 0 no adapter ever reports a gap.                         *)
LEMMA Completeness ==
  ASSUME LogInv, Retention > 0
  PROVE  ResumeComplete
<1> SUFFICES ASSUME NEW after \in 0..latestSequence
             PROVE  Complete(ResumeReference(after), after) /\ Complete(ResumeSqlite(after), after)
  BY DEF ResumeComplete
<1>1. /\ Count \in Nat /\ latestSequence \in Nat /\ Count <= latestSequence
      /\ Count = 0 => latestSequence = 0
  BY Window, RetentionAssumption DEF LogInv, Count
<1>2. after \in Nat /\ after <= latestSequence
  BY <1>1
<1>3. CASE Overtaken(after)
  <2>1. Gap.messages # (after + 1)..latestSequence /\ Gap.status = "gap"
    BY <1>1, <1>2, <1>3 DEF Overtaken, Gap
  <2> QED
    BY <1>2, <1>3, <2>1, ReferenceAnswer, SqliteAnswer DEF Complete
<1>4. CASE ~ Overtaken(after)
  <2>1. After(after) = (after + 1)..latestSequence
    BY <1>1, <1>2, <1>4 DEF Overtaken, After
  <2> QED
    BY <1>2, <1>4, <2>1, ReferenceAnswer, SqliteAnswer DEF Complete
<1> QED
  BY <1>3, <1>4

(***************************************************************************)
(* The cursor.                                                             *)
(***************************************************************************)

CursorInv == CursorTypeOK /\ LogInv /\ NoSkippedMessage

(* The service's answer has the type of an answer.                         *)
LEMMA ResumeAnswers ==
  ASSUME LogInv, NEW after \in Nat
  PROVE  Resume(after) \in Answers
<1>1. /\ latestSequence \in Nat /\ Count \in Nat /\ Count <= latestSequence
      /\ nextSequence = latestSequence + 1
  BY Window DEF LogInv, latestSequence
<1>2. Gap \in Answers
  BY <1>1 DEF Gap, Answers
<1>3. After(after) \in SUBSET (1..latestSequence)
  BY <1>1 DEF After
<1>4. ASSUME NEW oldest \in 1..nextSequence
      PROVE  [status |-> "succeeded", latest |-> latestSequence,
              messages |-> After(after), oldest |-> oldest] \in Answers
  BY <1>1, <1>3 DEF Answers
<1>5. ResumeReference(after) \in Answers
  BY <1>2, <1>4, ReferenceAnswer
<1>6. ResumeSqlite(after) \in Answers
  BY <1>2, <1>4, SqliteAnswer
<1> QED
  BY <1>5, <1>6 DEF Resume

(* An accepted batch holds exactly the messages between the cursor and the *)
(* sequence it ends at: requireBatch compares it with the cursor as it is  *)
(* now, so an answer to an older cursor cannot leave a hole.               *)
LEMMA AcceptedBatch ==
  ASSUME NEW answer \in Answers, NEW position \in Nat, latestSequence \in Nat,
         RequireBatch(answer, position)
  PROVE  answer.latest >= position /\ answer.messages = (position + 1)..answer.latest
<1> DEFINE k == Cardinality(answer.messages)
<1>1. /\ answer.latest \in Nat /\ answer.latest >= position
      /\ answer.messages \subseteq 1..latestSequence
  BY DEF Answers, RequireBatch, ValidBatchSequence
<1>2. CASE answer.messages = {}
  <2>1. answer.latest = position
    BY <1>2 DEF RequireBatch, ValidBatchSequence
  <2> QED
    BY <1>1, <1>2, <2>1
<1>3. CASE answer.messages # {}
  <2>1. answer.messages = (position + 1)..(position + k) /\ Max(answer.messages) = answer.latest
    BY <1>3 DEF RequireBatch, ValidBatchSequence, ValidMessageSequence
  <2>2. IsFiniteSet(answer.messages)
    <3>1. IsFiniteSet(1..latestSequence)
      BY FS_Interval
    <3> QED
      BY <1>1, <3>1, FS_Subset
  <2>3. k \in Nat
    BY <2>2, FS_CardinalityType
  <2> HIDE DEF k
  <2>4. position + 1 <= position + k
    BY <1>3, <2>1, <2>3
  <2>5. Max((position + 1)..(position + k)) = position + k
    BY <2>3, <2>4, IntervalEnds
  <2> QED
    BY <1>1, <2>1, <2>5
<1> QED
  BY <1>2, <1>3

-----------------------------------------------------------------------------
LEMMA CursorInitInvariant == CursorInit => CursorInv
<1> SUFFICES ASSUME CursorInit PROVE CursorInv
  OBVIOUS
<1>1. LogInv /\ latestSequence = 0 /\ nextSequence = 1
  BY LogInitWindow DEF CursorInit, LogInit, latestSequence
<1>2. CursorTypeOK
  BY <1>1, SequenceBoundAssumption DEF CursorInit, CursorTypeOK, LogInv
<1>3. NoSkippedMessage
  BY DEF CursorInit, NoSkippedMessage
<1> QED
  BY <1>1, <1>2, <1>3 DEF CursorInv

\* What a poll may be, given the latest sequence.
PollOK(poll) ==
  \/ poll = Idle
  \/ \E after \in 0..latestSequence : poll = Requested(after)
  \/ poll.stage = "answered" /\ poll.answer \in Answers

(* A step of one poll keeps the invariant if it leaves a well-formed poll  *)
(* and moves the cursor only over messages that become accounted for.      *)
LEMMA PollStep ==
  ASSUME CursorInv, NEW p \in Polls, NEW poll, UNCHANGED logVars,
         polls' = [polls EXCEPT ![p] = poll], PollOK(poll),
         cursor' \in 0..latestSequence,
         accounted' \subseteq 1..latestSequence,
         1..cursor' \subseteq accounted',
         recovery' \in {Calm, Needed} \cup {Rereading(s) : s \in 0..latestSequence}
  PROVE  CursorInv'
<1>1. /\ latestSequence' = latestSequence /\ Answers' = Answers
      /\ nextSequence' = nextSequence
  BY DEF logVars, latestSequence, Answers
<1>2. DOMAIN polls' = Polls /\ \A q \in Polls : PollOK(polls'[q])
  BY DEF CursorInv, CursorTypeOK, PollOK
<1>3. CursorTypeOK'
  BY <1>1, <1>2 DEF CursorInv, CursorTypeOK, PollOK
<1>4. LogInv'
  BY DEF CursorInv, LogInv, logVars, RetainedWindow, latestSequence
<1>5. NoSkippedMessage'
  BY DEF NoSkippedMessage
<1> QED
  BY <1>3, <1>4, <1>5 DEF CursorInv

LEMMA CursorPublishInvariant == CursorInv /\ CursorPublish => CursorInv'
<1> SUFFICES ASSUME CursorInv, CursorPublish PROVE CursorInv'
  OBVIOUS
<1>1. LogInv'
  BY AppendWindow DEF CursorInv, CursorPublish
<1>2. /\ UNCHANGED clientVars /\ nextSequence' \in 1..(MaxSequence + 1)
      /\ latestSequence \in Nat /\ latestSequence' = latestSequence + 1
      /\ nextSequence' = nextSequence + 1 /\ nextSequence \in Nat
  BY <1>1, SequenceBoundAssumption
     DEF CursorInv, CursorTypeOK, LogInv, CursorPublish, AppendMessage, latestSequence
<1>3. /\ 0..latestSequence \subseteq 0..latestSequence'
      /\ 1..latestSequence \subseteq 1..latestSequence'
      /\ 0..nextSequence \subseteq 0..nextSequence'
  BY <1>2
<1>4. Answers \subseteq Answers'
  BY <1>3 DEF Answers
<1>5. CursorTypeOK'
  <2>1. /\ cursor' \in 0..latestSequence'
        /\ accounted' \subseteq 1..latestSequence'
        /\ recovery' \in {Calm, Needed} \cup {Rereading(s) : s \in 0..latestSequence'}
    BY <1>2, <1>3 DEF CursorInv, CursorTypeOK, clientVars
  <2>2. /\ DOMAIN polls' = Polls
        /\ \A p \in Polls :
             \/ polls'[p] = Idle
             \/ \E after \in 0..latestSequence' : polls'[p] = Requested(after)
             \/ polls'[p].stage = "answered" /\ polls'[p].answer \in Answers'
    BY <1>2, <1>3, <1>4 DEF CursorInv, CursorTypeOK, clientVars
  <2> QED
    BY <1>2, <2>1, <2>2 DEF CursorTypeOK
<1>6. NoSkippedMessage'
  BY <1>2 DEF CursorInv, NoSkippedMessage, clientVars
<1> QED
  BY <1>1, <1>5, <1>6 DEF CursorInv

(* An accepted answer moves the cursor over what it hands to the host.     *)
LEMMA AcceptInvariant ==
  ASSUME CursorInv, NEW p \in Polls, AcceptBatch(p)
  PROVE  CursorInv'
<1> DEFINE answer == polls[p].answer
<1>1. answer \in Answers /\ cursor \in Nat /\ latestSequence \in Nat
  BY SequenceBoundAssumption
     DEF CursorInv, CursorTypeOK, LogInv, AcceptBatch, Idle, Requested, latestSequence
<1>2. answer.latest >= cursor /\ answer.messages = (cursor + 1)..answer.latest
  BY <1>1, AcceptedBatch DEF AcceptBatch
<1>3. /\ cursor' = answer.latest /\ accounted' = accounted \cup answer.messages
      /\ answer.latest \in 0..latestSequence
      /\ answer.messages \subseteq 1..latestSequence
  BY <1>1 DEF AcceptBatch, Answers
<1>4. 1..cursor' \subseteq accounted'
  BY <1>1, <1>2, <1>3 DEF CursorInv, NoSkippedMessage
<1>5. accounted' \subseteq 1..latestSequence
  BY <1>3 DEF CursorInv, CursorTypeOK
<1>6. PollOK(Idle)
  BY DEF PollOK
<1> QED
  BY <1>3, <1>4, <1>5, <1>6, PollStep DEF AcceptBatch, CursorInv, CursorTypeOK

LEMMA CursorStepInvariant == CursorInv /\ [CursorNext]_cursorVars => CursorInv'
<1> SUFFICES ASSUME CursorInv, [CursorNext]_cursorVars PROVE CursorInv'
  OBVIOUS
<1>typed. /\ cursor \in 0..latestSequence /\ accounted \subseteq 1..latestSequence
          /\ 1..cursor \subseteq accounted
          /\ recovery \in {Calm, Needed} \cup {Rereading(s) : s \in 0..latestSequence}
          /\ DOMAIN polls = Polls /\ \A p \in Polls : PollOK(polls[p])
  BY DEF CursorInv, CursorTypeOK, NoSkippedMessage, PollOK
<1>idle. PollOK(Idle) /\ \A after \in 0..latestSequence : PollOK(Requested(after))
  BY DEF PollOK
<1>answered. \A answer \in Answers : PollOK(Answered(answer))
  BY DEF PollOK, Answered
<1>1. CASE CursorPublish
  BY <1>1, CursorPublishInvariant
<1>2. CASE StartReread
  <2>1. UNCHANGED <<logVars, cursor, polls, accounted>> /\ recovery' = Rereading(latestSequence)
    BY <1>2 DEF StartReread
  <2>2. latestSequence \in 0..latestSequence
    BY SequenceBoundAssumption DEF CursorInv, LogInv, latestSequence
  <2> QED
    BY <1>typed, <2>1, <2>2
       DEF CursorInv, CursorTypeOK, LogInv, NoSkippedMessage, RetainedWindow, logVars, latestSequence, Answers
<1>3. CASE ResetAfterAuthoritativeRead
  <2>1. /\ UNCHANGED <<logVars, polls>> /\ recovery' = Calm
        /\ cursor' = recovery.sequence /\ accounted' = accounted \cup 1..recovery.sequence
    BY <1>3 DEF ResetAfterAuthoritativeRead
  <2>2. recovery.sequence \in 0..latestSequence
    BY <1>typed, <1>3 DEF ResetAfterAuthoritativeRead, Calm, Needed, Rereading
  <2>3. /\ latestSequence' = latestSequence /\ Answers' = Answers
        /\ nextSequence' = nextSequence
    BY <2>1 DEF logVars, latestSequence, Answers
  <2>4. CursorTypeOK'
    <3>1. latestSequence \in Nat
      BY SequenceBoundAssumption DEF CursorInv, LogInv, latestSequence
    <3>2. accounted' \subseteq 1..latestSequence
      <4>1. 1..recovery.sequence \subseteq 1..latestSequence
        BY <2>2, <3>1
      <4> QED
        BY <1>typed, <2>1, <4>1
    <3>3. polls' = polls
      BY <2>1
    <3> QED
      BY <2>1, <2>2, <2>3, <3>2, <3>3 DEF CursorInv, CursorTypeOK
  <2>5. LogInv'
    BY <2>1 DEF CursorInv, LogInv, RetainedWindow, logVars, latestSequence
  <2>6. NoSkippedMessage'
    BY <2>1 DEF NoSkippedMessage
  <2> QED
    BY <2>4, <2>5, <2>6 DEF CursorInv
<1>4. ASSUME NEW p \in Polls, StartPoll(p) PROVE CursorInv'
  BY <1>typed, <1>idle, <1>4, PollStep DEF StartPoll
<1>5. ASSUME NEW p \in Polls, polls[p].stage = "requested"
      PROVE  polls[p].after \in Nat
  <2>1. latestSequence \in Int
    BY DEF CursorInv, CursorTypeOK, latestSequence
  <2>2. \E after \in 0..latestSequence : polls[p] = Requested(after)
    BY <1>typed, <1>5 DEF PollOK, Idle
  <2> QED
    BY <2>1, <2>2 DEF Requested
<1>6. ASSUME NEW p \in Polls, Serve(p) PROVE CursorInv'
  <2>1. PollOK(Answered(Resume(polls[p].after)))
    BY <1>5, <1>6, <1>answered, ResumeAnswers DEF Serve, CursorInv
  <2> QED
    BY <1>typed, <1>6, <2>1, PollStep DEF Serve
<1>7. ASSUME NEW p \in Polls, ServeIncomplete(p) PROVE CursorInv'
  <2>1. PICK left \in SUBSET Resume(polls[p].after).messages :
          polls' = [polls EXCEPT ![p] =
                      Answered([Resume(polls[p].after) EXCEPT !.messages = left])]
    BY <1>7 DEF ServeIncomplete
  <2>2. Resume(polls[p].after) \in Answers
    BY <1>5, <1>7, ResumeAnswers DEF ServeIncomplete, CursorInv
  <2>3. [Resume(polls[p].after) EXCEPT !.messages = left] \in Answers
    BY <2>2 DEF Answers
  <2>4. PollOK(Answered([Resume(polls[p].after) EXCEPT !.messages = left]))
    BY <1>answered, <2>3
  <2> QED
    BY <1>typed, <1>7, <2>1, <2>4, PollStep DEF ServeIncomplete
<1>8. ASSUME NEW p \in Polls, Fail(p) PROVE CursorInv'
  BY <1>typed, <1>idle, <1>8, PollStep DEF Fail
<1>9. ASSUME NEW p \in Polls, DeliverGap(p) PROVE CursorInv'
  <2>1. recovery' \in {Calm, Needed} \cup {Rereading(s) : s \in 0..latestSequence}
    BY <1>typed, <1>9 DEF DeliverGap
  <2> QED
    BY <1>typed, <1>idle, <1>9, <2>1, PollStep DEF DeliverGap
<1>10. ASSUME NEW p \in Polls, RejectBatch(p) PROVE CursorInv'
  BY <1>typed, <1>idle, <1>10, PollStep DEF RejectBatch
<1>11. ASSUME NEW p \in Polls, AcceptBatch(p) PROVE CursorInv'
  BY <1>11, AcceptInvariant
<1>12. CASE UNCHANGED cursorVars
  BY <1>12 DEF CursorInv, CursorTypeOK, LogInv, NoSkippedMessage, RetainedWindow,
               latestSequence, Answers, cursorVars
<1> QED
  BY <1>1, <1>2, <1>3, <1>4, <1>6, <1>7, <1>8, <1>9, <1>10, <1>11, <1>12 DEF CursorNext

LEMMA CursorInvariance == CursorSpec => []CursorInv
<1> QED
  BY CursorInitInvariant, CursorStepInvariant, PTL DEF CursorSpec

-----------------------------------------------------------------------------
(* The cursor's state and every answer in flight stay well formed.         *)
THEOREM CursorTypeCorrect == CursorSpec => []CursorTypeOK
<1>1. CursorInv => CursorTypeOK
  BY DEF CursorInv
<1> QED
  BY <1>1, CursorInvariance, PTL

(* The two adapters retain the same last Retention messages (publish of    *)
(* reference-outbox.ts and insertRealtime of sqlite-outbox.ts).            *)
THEOREM WindowRetained == CursorSpec => []RetainedWindow
<1>1. CursorInv => RetainedWindow
  BY DEF CursorInv, LogInv
<1> QED
  BY <1>1, CursorInvariance, PTL

(* The two adapters answer every resume alike, for every retention, 0      *)
(* included (resume, resumeSqliteRealtime).                                *)
THEOREM AdaptersEquivalent == CursorSpec => []AdaptersAgree
<1>1. CursorInv => AdaptersAgree
  BY Agreement DEF CursorInv
<1> QED
  BY <1>1, CursorInvariance, PTL

(* With a retention of at least one message a resume never loses messages  *)
(* silently (realtimeGap).                                                 *)
THEOREM ResumesComplete ==
  ASSUME Retention > 0
  PROVE  CursorSpec => []ResumeComplete
<1>1. CursorInv => ResumeComplete
  BY Completeness DEF CursorInv
<1> QED
  BY <1>1, CursorInvariance, PTL

(* However polls overlap, and whatever the service leaves out, the cursor  *)
(* never passes a message the host has not been handed (requireBatch).     *)
THEOREM NothingSkipped == CursorSpec => []NoSkippedMessage
<1>1. CursorInv => NoSkippedMessage
  BY DEF CursorInv
<1> QED
  BY <1>1, CursorInvariance, PTL

-----------------------------------------------------------------------------
(* The refinement.                                                         *)

LEMMA InitRefines == CursorInit => Reader!Init
<1> SUFFICES ASSUME CursorInit PROVE Reader!Init
  OBVIOUS
<1>1. latestSequence = 0
  BY DEF CursorInit, LogInit, latestSequence
<1>2. recovery.stage # "rereading"
  BY DEF CursorInit, Calm
<1> QED
  BY <1>1, <1>2 DEF CursorInit, Reader!Init, Reader!NoSnapshot

LEMMA StepRefines == CursorInv /\ [CursorNext]_cursorVars => [Reader!Next]_(Reader!readerVars)
<1> SUFFICES ASSUME CursorInv, [CursorNext]_cursorVars
             PROVE  Reader!Next \/ UNCHANGED Reader!readerVars
  OBVIOUS
<1>typed. /\ latestSequence \in Nat /\ cursor \in 0..latestSequence
          /\ recovery \in {Calm, Needed} \cup {Rereading(s) : s \in 0..latestSequence}
  BY SequenceBoundAssumption DEF CursorInv, CursorTypeOK, LogInv, latestSequence
<1>stutter. UNCHANGED logVars => latestSequence' = latestSequence
  BY DEF logVars, latestSequence
<1>1. CASE CursorPublish
  <2>1. /\ latestSequence' = latestSequence + 1 /\ UNCHANGED clientVars
    BY <1>1 DEF CursorPublish, AppendMessage, latestSequence, CursorInv, LogInv
  <2> QED
    BY <2>1 DEF Reader!Next, Reader!Publish, clientVars
<1>2. CASE StartReread
  <2>1. recovery = Needed /\ recovery' = Rereading(latestSequence)
        /\ UNCHANGED <<cursor, accounted>> /\ latestSequence' = latestSequence
    BY <1>2, <1>stutter DEF StartReread
  <2>2. Reader!BeginReread
    BY <1>typed, <2>1 DEF Reader!BeginReread, Reader!NoSnapshot, Needed, Rereading
  <2> QED
    BY <2>2 DEF Reader!Next
<1>3. CASE ResetAfterAuthoritativeRead
  <2>1. /\ recovery.stage = "rereading" /\ cursor' = recovery.sequence
        /\ accounted' = accounted \cup 1..recovery.sequence /\ recovery' = Calm
        /\ latestSequence' = latestSequence
    BY <1>3, <1>stutter DEF ResetAfterAuthoritativeRead
  <2>2. recovery.sequence \in Nat
    BY <1>typed, <2>1 DEF Calm, Needed, Rereading
  <2>3. Reader!EndReread
    BY <2>1, <2>2 DEF Reader!EndReread, Reader!NoSnapshot, Calm
  <2> QED
    BY <2>3 DEF Reader!Next
<1>4. ASSUME NEW p \in Polls, AcceptBatch(p)
      PROVE  Reader!Next \/ UNCHANGED Reader!readerVars
  <2> DEFINE answer == polls[p].answer
  <2>1. answer \in Answers
    BY <1>4 DEF CursorInv, CursorTypeOK, AcceptBatch, Idle, Requested
  <2>2. answer.latest >= cursor /\ answer.messages = (cursor + 1)..answer.latest
    BY <1>4, <1>typed, <2>1, AcceptedBatch DEF AcceptBatch
  <2>3. /\ cursor' = answer.latest /\ accounted' = accounted \cup (cursor + 1)..answer.latest
        /\ recovery' = recovery /\ latestSequence' = latestSequence
    BY <1>4, <1>stutter, <2>2 DEF AcceptBatch
  <2>4. answer.latest \in 0..latestSequence
    BY <2>1 DEF Answers
  <2>5. CASE answer.latest = cursor
    <3>1. accounted' = accounted /\ cursor' = cursor
      BY <1>typed, <2>3, <2>5
    <3> QED
      BY <2>3, <3>1 DEF Reader!readerVars
  <2>6. CASE answer.latest > cursor
    <3>1. answer.latest \in (cursor + 1)..latestSequence
      BY <1>typed, <2>4, <2>6
    <3>2. Reader!Advance
      BY <2>3, <3>1 DEF Reader!Advance
    <3> QED
      BY <3>2 DEF Reader!Next
  <2> QED
    BY <1>typed, <2>2, <2>4, <2>5, <2>6
<1>5. ASSUME NEW p \in Polls, DeliverGap(p) PROVE UNCHANGED Reader!readerVars
  BY <1>5, <1>stutter DEF DeliverGap, Reader!readerVars, Calm, Needed
<1>6. ASSUME NEW p \in Polls,
             StartPoll(p) \/ Serve(p) \/ ServeIncomplete(p) \/ Fail(p) \/ RejectBatch(p)
      PROVE  UNCHANGED Reader!readerVars
  BY <1>6, <1>stutter
     DEF StartPoll, Serve, ServeIncomplete, Fail, RejectBatch, Reader!readerVars
<1>7. CASE UNCHANGED cursorVars
  BY <1>7 DEF cursorVars, Reader!readerVars, latestSequence
<1> QED
  BY <1>1, <1>2, <1>3, <1>4, <1>5, <1>6, <1>7 DEF CursorNext

(* The cursor implements the gapless reader: it advances only by handing   *)
(* over what lies between, and goes back only to the sequence of an        *)
(* authoritative reread (poll, resetAfterAuthoritativeRead).               *)
THEOREM CursorRefinesReader == CursorSpec => ReaderSpec
<1> QED
  BY InitRefines, StepRefines, CursorInvariance, PTL DEF CursorSpec, ReaderSpec, Reader!Spec

(***************************************************************************)
(* The outbox.                                                             *)
(***************************************************************************)

IInv == TypeOK /\ HeldRows /\ LeaseExclusive /\ AttemptsFence

-----------------------------------------------------------------------------
(* The rows after each operation on a row.                                 *)

(* A lease (acquire, reference-outbox.ts) yields a row reserved for the    *)
(* worker under the next attempt.                                          *)
LEMMA AcquireRow ==
  ASSUME NEW row \in Row, NEW w \in Workers, NEW t \in Nat
  PROVE  /\ Acquire(row, w, t) \in Row
         /\ Acquire(row, w, t).attempts = row.attempts + 1
         /\ Acquire(row, w, t).leaseOwner = w
         /\ Acquire(row, w, t).leaseUntil = t + LeaseTerm
<1>1. t + LeaseTerm \in Nat /\ row.attempts + 1 \in Nat
  BY LeaseTermAssumption DEF Row
<1> QED
  BY <1>1 DEF Acquire, Row

(* A release (releaseOne, reference-outbox.ts) clears both lease fields    *)
(* and keeps the attempts.                                                 *)
LEMMA ReleasedRow ==
  ASSUME NEW row \in Row, NEW t \in Nat
  PROVE  /\ ReleaseRow(row, t) \in Row
         /\ ReleaseRow(row, t).attempts = row.attempts
         /\ ReleaseRow(row, t).leaseOwner = NoWorker
         /\ ReleaseRow(row, t).leaseUntil = NoInstant
BY DEF ReleaseRow, Row

(* A published message (publishSqliteOutbox) starts unleased.              *)
LEMMA PublishedRow ==
  ASSUME NEW t \in Nat
  PROVE  /\ NewRow(t) \in Row
         /\ NewRow(t).leaseOwner = NoWorker
         /\ NewRow(t).leaseUntil = NoInstant
BY DEF NewRow, Row

(* The instants of a command are naturals up to the present.               *)
LEMMA Instants ==
  ASSUME TypeOK, NEW t \in CommandInstants
  PROVE  t \in Nat /\ t <= now
BY ClockAssumption DEF TypeOK, CommandInstants

(* What forgetting a set of sequences leaves of what a worker holds.       *)
LEMMA Forgotten ==
  ASSUME TypeOK, NEW w \in Workers, NEW S, Forget(w, S)
  PROVE  /\ DOMAIN holding' = Workers
         /\ \A v \in Workers :
              /\ DOMAIN holding'[v] = IF v = w THEN DOMAIN holding[v] \ S
                                               ELSE DOMAIN holding[v]
              /\ \A s \in DOMAIN holding'[v] : holding'[v][s] = holding[v][s]
BY DEF Forget, TypeOK, Restrict

-----------------------------------------------------------------------------
(* The invariant.                                                          *)

LEMMA InitInvariant == Init => IInv
<1> SUFFICES ASSUME Init PROVE IInv
  OBVIOUS
<1>1. DOMAIN deliveries = {} /\ \A w \in Workers : DOMAIN holding[w] = {}
  BY DEF Init
<1>2. TypeOK
  BY <1>1, SequenceBoundAssumption, ClockAssumption
     DEF Init, TypeOK, LogInit, latestSequence
<1> QED
  BY <1>1, <1>2 DEF IInv, HeldRows, LeaseExclusive, AttemptsFence

(* Publish adds a row under a sequence that no worker can hold yet.        *)
LEMMA PublishInvariant == IInv /\ Publish => IInv'
<1> SUFFICES ASSUME IInv, Publish PROVE IInv'
  OBVIOUS
<1> USE DEF IInv
<1>1. PICK t \in CommandInstants :
        deliveries' = [s \in DOMAIN deliveries \cup {nextSequence} |->
                         IF s = nextSequence THEN NewRow(t) ELSE deliveries[s]]
  BY DEF Publish
<1>2. /\ nextSequence \in 1..MaxSequence /\ nextSequence' = nextSequence + 1
      /\ now' = now /\ holding' = holding
  BY DEF Publish, AppendMessage, TypeOK
<1>3. /\ nextSequence \notin DOMAIN deliveries
      /\ \A w \in Workers : nextSequence \notin DOMAIN holding[w]
  BY <1>2 DEF TypeOK, latestSequence
<1>4. /\ NewRow(t) \in Row
      /\ NewRow(t).leaseOwner = NoWorker /\ NewRow(t).leaseUntil = NoInstant
  BY PublishedRow, Instants
<1>5. \A s \in DOMAIN deliveries : s \in DOMAIN deliveries' /\ deliveries'[s] = deliveries[s]
  BY <1>1, <1>3
<1>6. DOMAIN deliveries' = DOMAIN deliveries \cup {nextSequence}
      /\ deliveries'[nextSequence] = NewRow(t)
  BY <1>1
<1>7. TypeOK'
  <2>1. nextSequence' \in 1..(MaxSequence + 1) /\ now' \in 0..MaxTime
    BY <1>2, SequenceBoundAssumption DEF TypeOK
  <2>2. 1..latestSequence' = 1..latestSequence \cup {nextSequence}
    BY <1>2 DEF latestSequence
  <2>3. DOMAIN deliveries' \subseteq 1..latestSequence'
    BY <1>6, <2>2 DEF TypeOK
  <2>4. \A s \in DOMAIN deliveries' :
          /\ deliveries'[s] \in Row
          /\ deliveries'[s].leaseOwner = NoWorker <=> deliveries'[s].leaseUntil = NoInstant
    BY <1>4, <1>5, <1>6 DEF TypeOK
  <2> QED
    BY <1>2, <2>1, <2>2, <2>3, <2>4 DEF TypeOK
<1>8. HeldRows'
  BY <1>2, <1>3, <1>5, <1>6 DEF HeldRows
<1>9. LeaseExclusive'
  BY <1>2, <1>5 DEF LeaseExclusive, Live
<1>10. AttemptsFence'
  BY <1>2, <1>3, <1>5, <1>6 DEF AttemptsFence
<1> QED
  BY <1>7, <1>8, <1>9, <1>10

(* A lease takes only rows that no worker holds within its term, and every *)
(* row it takes gets an attempt above all that are held.                   *)
LEMMA LeaseInvariant ==
  ASSUME IInv, NEW w \in Workers, Lease(w)
  PROVE  IInv'
<1> USE DEF IInv
<1>1. PICK t \in CommandInstants, limit \in 1..CommandLimit :
        LeaseRows(w, t, FirstAvailable({s \in DOMAIN deliveries : CanLease(deliveries[s], t)}, limit))
  BY DEF Lease
<1> DEFINE reserved ==
      FirstAvailable({s \in DOMAIN deliveries : CanLease(deliveries[s], t)}, limit)
<1>2. reserved \subseteq DOMAIN deliveries
      /\ \A s \in reserved : CanLease(deliveries[s], t)
  BY DEF FirstAvailable
<1> HIDE DEF reserved
<1>3. LeaseRows(w, t, reserved)
  BY <1>1 DEF reserved
<1>4. t \in Nat /\ t <= now /\ now \in Nat
  BY Instants, ClockAssumption DEF TypeOK
<1>5. nextSequence' = nextSequence /\ now' = now /\ latestSequence' = latestSequence
  BY DEF Lease, logVars, latestSequence
<1>6. /\ DOMAIN deliveries' = DOMAIN deliveries
      /\ \A s \in DOMAIN deliveries \ reserved : deliveries'[s] = deliveries[s]
      /\ \A s \in reserved : deliveries'[s] = Acquire(deliveries[s], w, t)
  BY <1>2, <1>3 DEF LeaseRows
<1>7. \A s \in reserved :
        /\ deliveries'[s] \in Row
        /\ deliveries'[s].attempts = deliveries[s].attempts + 1
        /\ deliveries'[s].leaseOwner = w
        /\ deliveries'[s].leaseUntil = t + LeaseTerm
  <2> SUFFICES ASSUME NEW s \in reserved
               PROVE  /\ deliveries'[s] \in Row
                      /\ deliveries'[s].attempts = deliveries[s].attempts + 1
                      /\ deliveries'[s].leaseOwner = w
                      /\ deliveries'[s].leaseUntil = t + LeaseTerm
    OBVIOUS
  <2>1. deliveries[s] \in Row
    BY <1>2 DEF TypeOK
  <2>2. deliveries'[s] = Acquire(deliveries[s], w, t)
    BY <1>6
  <2> QED
    BY <1>4, <2>1, <2>2, AcquireRow
<1>8. /\ DOMAIN holding' = Workers
      /\ DOMAIN holding'[w] = DOMAIN holding[w] \cup reserved
      /\ \A s \in DOMAIN holding[w] \ reserved : holding'[w][s] = holding[w][s]
      /\ \A s \in reserved :
           holding'[w][s] = [attempts |-> deliveries'[s].attempts,
                             leaseUntil |-> deliveries'[s].leaseUntil,
                             handled |-> FALSE]
      /\ \A v \in Workers \ {w} : holding'[v] = holding[v]
  BY <1>3 DEF LeaseRows, TypeOK
<1>9. /\ \A s \in DOMAIN deliveries : deliveries[s].attempts \in Nat
      /\ \A v \in Workers : \A s \in DOMAIN holding[v] :
           holding[v][s].attempts \in Nat /\ holding[v][s].leaseUntil \in Nat
  BY DEF TypeOK, Row
<1>10. t + LeaseTerm \in Nat /\ t + LeaseTerm # NoInstant
  BY <1>4, LeaseTermAssumption DEF NoInstant
<1>held. \A s \in reserved :
           /\ s \in DOMAIN deliveries'
           /\ s \in DOMAIN holding'[w]
           /\ holding'[w][s].attempts = deliveries[s].attempts + 1
           /\ deliveries'[s].attempts = deliveries[s].attempts + 1
           /\ holding'[w][s].leaseUntil = t + LeaseTerm
           /\ holding'[w][s].handled = FALSE
           /\ holding'[w][s] \in [attempts : Nat \ {0}, leaseUntil : Nat, handled : BOOLEAN]
  <2> SUFFICES ASSUME NEW s \in reserved
               PROVE  /\ s \in DOMAIN deliveries'
                      /\ s \in DOMAIN holding'[w]
                      /\ holding'[w][s].attempts = deliveries[s].attempts + 1
                      /\ deliveries'[s].attempts = deliveries[s].attempts + 1
                      /\ holding'[w][s].leaseUntil = t + LeaseTerm
                      /\ holding'[w][s].handled = FALSE
                      /\ holding'[w][s] \in
                           [attempts : Nat \ {0}, leaseUntil : Nat, handled : BOOLEAN]
    OBVIOUS
  <2>1. holding'[w][s] = [attempts |-> deliveries[s].attempts + 1,
                          leaseUntil |-> t + LeaseTerm, handled |-> FALSE]
    BY <1>7, <1>8
  <2>2. deliveries[s].attempts + 1 \in Nat \ {0}
    BY <1>2, <1>9
  <2> QED
    BY <1>2, <1>6, <1>7, <1>8, <1>10, <2>1, <2>2
<1>11. TypeOK'
  <2>1. \A s \in DOMAIN deliveries' :
          /\ deliveries'[s] \in Row
          /\ deliveries'[s].leaseOwner = NoWorker <=> deliveries'[s].leaseUntil = NoInstant
    BY <1>6, <1>7, <1>10, NoWorkerAssumption DEF TypeOK
  <2>2. \A v \in Workers :
          /\ DOMAIN holding'[v] \subseteq 1..latestSequence'
          /\ \A s \in DOMAIN holding'[v] :
               holding'[v][s] \in [attempts : Nat \ {0}, leaseUntil : Nat, handled : BOOLEAN]
    BY <1>2, <1>5, <1>8, <1>held DEF TypeOK
  <2> QED
    BY <1>5, <1>6, <1>8, <2>1, <2>2 DEF TypeOK
<1>12. \A v \in Workers : \A s \in DOMAIN holding[v] \cap reserved :
         /\ ~ Live(v, s)
         /\ holding[v][s].attempts < deliveries'[s].attempts
  <2> SUFFICES ASSUME NEW v \in Workers, NEW s \in DOMAIN holding[v] \cap reserved
               PROVE  /\ ~ Live(v, s)
                      /\ holding[v][s].attempts < deliveries'[s].attempts
    OBVIOUS
  <2>1. holding[v][s].attempts <= deliveries[s].attempts
    BY <1>2 DEF HeldRows
  <2>2. ~ Live(v, s)
    <3> SUFFICES ASSUME Live(v, s) PROVE FALSE
      OBVIOUS
    <3>1. deliveries[s].leaseUntil = holding[v][s].leaseUntil
      BY DEF LeaseExclusive
    <3>2. deliveries[s].leaseUntil \in Nat /\ deliveries[s].leaseUntil <= t
      BY <1>2, <1>9, <3>1 DEF CanLease, NoInstant
    <3> QED
      BY <1>4, <3>1, <3>2 DEF Live
  <2> QED
    BY <1>2, <1>7, <1>9, <2>1, <2>2
<1>13. HeldRows'
  <2> SUFFICES ASSUME NEW v \in Workers, NEW s \in DOMAIN holding'[v] \cap DOMAIN deliveries'
               PROVE  /\ holding'[v][s].attempts <= deliveries'[s].attempts
                      /\ holding'[v][s].attempts = deliveries'[s].attempts
                           <=> deliveries'[s].leaseOwner = v
                      /\ deliveries'[s].leaseOwner = v
                           => deliveries'[s].leaseUntil = holding'[v][s].leaseUntil
    BY DEF HeldRows
  <2>1. CASE s \notin reserved
    BY <1>6, <1>8, <2>1 DEF HeldRows
  <2>2. CASE s \in reserved /\ v = w
    BY <1>7, <1>9, <1>held, <2>2
  <2>3. CASE s \in reserved /\ v # w
    BY <1>2, <1>7, <1>8, <1>9, <1>12, <2>3
  <2> QED
    BY <2>1, <2>2, <2>3
<1>14. LeaseExclusive'
  <2> SUFFICES ASSUME NEW v \in Workers, NEW s \in DOMAIN holding'[v], Live(v, s)'
               PROVE  /\ s \in DOMAIN deliveries'
                      /\ deliveries'[s].leaseOwner = v
                      /\ deliveries'[s].leaseUntil = holding'[v][s].leaseUntil
                      /\ deliveries'[s].attempts = holding'[v][s].attempts
    BY DEF LeaseExclusive
  <2>1. CASE s \notin reserved
    <3>1. s \in DOMAIN holding[v] /\ holding'[v][s] = holding[v][s] /\ Live(v, s)
      BY <1>5, <1>8, <2>1 DEF Live
    <3> QED
      BY <1>6, <2>1, <3>1 DEF LeaseExclusive
  <2>2. CASE s \in reserved /\ v = w
    BY <1>6, <1>7, <1>held, <2>2
  <2>3. CASE s \in reserved /\ v # w
    BY <1>5, <1>8, <1>12, <2>3 DEF Live
  <2> QED
    BY <2>1, <2>2, <2>3
<1>15. AttemptsFence'
  <2> SUFFICES ASSUME NEW v \in Workers, NEW s \in DOMAIN holding'[v]
               PROVE  /\ s \in DOMAIN deliveries'
                           => holding'[v][s].attempts <= deliveries'[s].attempts
                      /\ \A u \in Workers \ {v} :
                           s \in DOMAIN holding'[u]
                             => holding'[u][s].attempts # holding'[v][s].attempts
    BY DEF AttemptsFence
  <2>1. s \in DOMAIN deliveries' => holding'[v][s].attempts <= deliveries'[s].attempts
    BY <1>13 DEF HeldRows
  <2>2. ASSUME NEW u \in Workers \ {v}, s \in DOMAIN holding'[u]
        PROVE  holding'[u][s].attempts # holding'[v][s].attempts
    <3>1. CASE s \notin reserved
      BY <1>8, <2>2, <3>1 DEF AttemptsFence
    <3>2. CASE s \in reserved /\ v = w
      BY <1>8, <1>9, <1>12, <1>held, <2>2, <3>2
    <3>3. CASE s \in reserved /\ u = w
      BY <1>8, <1>9, <1>12, <1>held, <2>2, <3>3
    <3>4. CASE s \in reserved /\ v # w /\ u # w
      BY <1>8, <2>2, <3>4 DEF AttemptsFence
    <3> QED
      BY <3>1, <3>2, <3>3, <3>4
  <2> QED
    BY <2>1, <2>2
<1> QED
  BY <1>11, <1>13, <1>14, <1>15

(* Handle only marks a held message.                                       *)
LEMMA HandleInvariant ==
  ASSUME IInv, NEW w \in Workers, Handle(w)
  PROVE  IInv'
<1> USE DEF IInv
<1>1. PICK s \in DOMAIN holding[w] :
        holding' = [holding EXCEPT ![w][s].handled = TRUE]
  BY DEF Handle
<1>2. /\ nextSequence' = nextSequence /\ now' = now /\ deliveries' = deliveries
      /\ latestSequence' = latestSequence
  BY DEF Handle, logVars, latestSequence
<1>3. /\ DOMAIN holding' = Workers
      /\ \A v \in Workers : DOMAIN holding'[v] = DOMAIN holding[v]
  BY <1>1 DEF TypeOK
<1>4. \A v \in Workers : \A r \in DOMAIN holding[v] :
        /\ holding'[v][r].attempts = holding[v][r].attempts
        /\ holding'[v][r].leaseUntil = holding[v][r].leaseUntil
        /\ holding'[v][r] \in [attempts : Nat \ {0}, leaseUntil : Nat, handled : BOOLEAN]
  <2> SUFFICES ASSUME NEW v \in Workers, NEW r \in DOMAIN holding[v]
               PROVE  /\ holding'[v][r].attempts = holding[v][r].attempts
                      /\ holding'[v][r].leaseUntil = holding[v][r].leaseUntil
                      /\ holding'[v][r] \in
                           [attempts : Nat \ {0}, leaseUntil : Nat, handled : BOOLEAN]
    OBVIOUS
  <2>1. holding[v][r] \in [attempts : Nat \ {0}, leaseUntil : Nat, handled : BOOLEAN]
    BY DEF TypeOK
  <2>2. holding'[v][r] = IF v = w /\ r = s THEN [holding[v][r] EXCEPT !.handled = TRUE]
                                          ELSE holding[v][r]
    BY <1>1 DEF TypeOK
  <2> QED
    BY <2>1, <2>2
<1>5. TypeOK'
  BY <1>2, <1>3, <1>4 DEF TypeOK
<1>6. HeldRows'
  BY <1>2, <1>3, <1>4 DEF HeldRows
<1>7. LeaseExclusive'
  BY <1>2, <1>3, <1>4 DEF LeaseExclusive, Live
<1>8. AttemptsFence'
  BY <1>2, <1>3, <1>4 DEF AttemptsFence
<1> QED
  BY <1>5, <1>6, <1>7, <1>8

(* An acknowledgement removes only rows reserved for its worker, which     *)
(* forgets them.                                                           *)
LEMMA AcknowledgeInvariant ==
  ASSUME IInv, NEW w \in Workers, Acknowledge(w)
  PROVE  IInv'
<1> USE DEF IInv
<1>1. PICK t \in CommandInstants,
           S \in Commands({s \in DOMAIN holding[w] : holding[w][s].handled}) :
        /\ deliveries' = Restrict(deliveries, DOMAIN deliveries \
              {s \in S \cap DOMAIN deliveries : OwnsCurrentLease(deliveries[s], w, t)})
        /\ Forget(w, S)
  BY DEF Acknowledge
<1>2. /\ nextSequence' = nextSequence /\ now' = now /\ latestSequence' = latestSequence
  BY DEF Acknowledge, logVars, latestSequence
<1>3. /\ DOMAIN deliveries' \subseteq DOMAIN deliveries
      /\ \A s \in DOMAIN deliveries' : deliveries'[s] = deliveries[s]
      /\ \A s \in DOMAIN deliveries \ DOMAIN deliveries' :
           s \in S /\ deliveries[s].leaseOwner = w
  BY <1>1 DEF Restrict, OwnsCurrentLease
<1>4. /\ DOMAIN holding' = Workers
      /\ \A v \in Workers :
           /\ DOMAIN holding'[v] \subseteq DOMAIN holding[v]
           /\ v = w => DOMAIN holding'[v] \cap S = {}
           /\ \A s \in DOMAIN holding'[v] : holding'[v][s] = holding[v][s]
  <2>1. TypeOK /\ Forget(w, S)
    BY <1>1
  <2>2. /\ DOMAIN holding' = Workers
        /\ \A v \in Workers :
             /\ DOMAIN holding'[v] = IF v = w THEN DOMAIN holding[v] \ S
                                              ELSE DOMAIN holding[v]
             /\ \A s \in DOMAIN holding'[v] : holding'[v][s] = holding[v][s]
    BY <2>1, Forgotten
  <2> QED
    BY <2>2
<1>5. TypeOK'
  BY <1>2, <1>3, <1>4 DEF TypeOK
<1>6. HeldRows'
  BY <1>2, <1>3, <1>4 DEF HeldRows
<1>7. LeaseExclusive'
  <2> SUFFICES ASSUME NEW v \in Workers, NEW s \in DOMAIN holding'[v], Live(v, s)'
               PROVE  /\ s \in DOMAIN deliveries'
                      /\ deliveries'[s].leaseOwner = v
                      /\ deliveries'[s].leaseUntil = holding'[v][s].leaseUntil
                      /\ deliveries'[s].attempts = holding'[v][s].attempts
    BY DEF LeaseExclusive
  <2>1. Live(v, s) /\ s \in DOMAIN holding[v] /\ holding'[v][s] = holding[v][s]
    BY <1>2, <1>4 DEF Live
  <2>2. s \in DOMAIN deliveries /\ deliveries[s].leaseOwner = v
    BY <2>1 DEF LeaseExclusive
  <2>3. s \in DOMAIN deliveries'
    BY <1>3, <1>4, <2>2
  <2> QED
    BY <1>3, <2>1, <2>3 DEF LeaseExclusive
<1>8. AttemptsFence'
  BY <1>3, <1>4 DEF AttemptsFence
<1> QED
  BY <1>5, <1>6, <1>7, <1>8

(* A release returns the rows of its worker, which forgets them.           *)
LEMMA ReleaseInvariant ==
  ASSUME IInv, NEW w \in Workers, Release(w)
  PROVE  IInv'
<1> USE DEF IInv
<1>1. PICK t \in {i \in now..(now + RetryDelay) : i <= MaxTime},
           S \in Commands({s \in DOMAIN holding[w] : holding[w][s].attempts < MaxAttempts}) :
        /\ deliveries' = [s \in DOMAIN deliveries |->
                            IF s \in S /\ deliveries[s].leaseOwner = w
                            THEN ReleaseRow(deliveries[s], t)
                            ELSE deliveries[s]]
        /\ Forget(w, S)
  BY DEF Release
<1>2. /\ nextSequence' = nextSequence /\ now' = now /\ latestSequence' = latestSequence
  BY DEF Release, logVars, latestSequence
<1>3. t \in Nat
  BY ClockAssumption DEF TypeOK
<1>4. /\ DOMAIN deliveries' = DOMAIN deliveries
      /\ \A s \in DOMAIN deliveries :
           s \notin S \/ deliveries[s].leaseOwner # w => deliveries'[s] = deliveries[s]
      /\ \A s \in DOMAIN deliveries :
           s \in S /\ deliveries[s].leaseOwner = w =>
             /\ deliveries'[s] \in Row
             /\ deliveries'[s].attempts = deliveries[s].attempts
             /\ deliveries'[s].leaseOwner = NoWorker
             /\ deliveries'[s].leaseUntil = NoInstant
  BY <1>1, <1>3, ReleasedRow DEF TypeOK
<1>5. /\ DOMAIN holding' = Workers
      /\ \A v \in Workers :
           /\ DOMAIN holding'[v] \subseteq DOMAIN holding[v]
           /\ v = w => DOMAIN holding'[v] \cap S = {}
           /\ \A s \in DOMAIN holding'[v] : holding'[v][s] = holding[v][s]
  <2>1. TypeOK /\ Forget(w, S)
    BY <1>1
  <2>2. /\ DOMAIN holding' = Workers
        /\ \A v \in Workers :
             /\ DOMAIN holding'[v] = IF v = w THEN DOMAIN holding[v] \ S
                                              ELSE DOMAIN holding[v]
             /\ \A s \in DOMAIN holding'[v] : holding'[v][s] = holding[v][s]
    BY <2>1, Forgotten
  <2> QED
    BY <2>2
<1>6. TypeOK'
  <2>1. \A s \in DOMAIN deliveries' :
          /\ deliveries'[s] \in Row
          /\ deliveries'[s].leaseOwner = NoWorker <=> deliveries'[s].leaseUntil = NoInstant
    BY <1>4 DEF TypeOK
  <2> QED
    BY <1>2, <1>4, <1>5, <2>1 DEF TypeOK
<1>7. HeldRows'
  <2> SUFFICES ASSUME NEW v \in Workers, NEW s \in DOMAIN holding'[v] \cap DOMAIN deliveries'
               PROVE  /\ holding'[v][s].attempts <= deliveries'[s].attempts
                      /\ holding'[v][s].attempts = deliveries'[s].attempts
                           <=> deliveries'[s].leaseOwner = v
                      /\ deliveries'[s].leaseOwner = v
                           => deliveries'[s].leaseUntil = holding'[v][s].leaseUntil
    BY DEF HeldRows
  <2>1. s \in DOMAIN holding[v] /\ holding'[v][s] = holding[v][s] /\ s \in DOMAIN deliveries
    BY <1>4, <1>5
  <2>2. CASE s \notin S \/ deliveries[s].leaseOwner # w
    BY <1>4, <2>1, <2>2 DEF HeldRows
  <2>3. CASE s \in S /\ deliveries[s].leaseOwner = w
    <3>1. v # w
      BY <1>5, <2>3
    <3>2. v # NoWorker
      BY NoWorkerAssumption
    <3> QED
      BY <1>4, <2>1, <2>3, <3>1, <3>2 DEF HeldRows
  <2> QED
    BY <2>2, <2>3
<1>8. LeaseExclusive'
  <2> SUFFICES ASSUME NEW v \in Workers, NEW s \in DOMAIN holding'[v], Live(v, s)'
               PROVE  /\ s \in DOMAIN deliveries'
                      /\ deliveries'[s].leaseOwner = v
                      /\ deliveries'[s].leaseUntil = holding'[v][s].leaseUntil
                      /\ deliveries'[s].attempts = holding'[v][s].attempts
    BY DEF LeaseExclusive
  <2>1. Live(v, s) /\ s \in DOMAIN holding[v] /\ holding'[v][s] = holding[v][s]
    BY <1>2, <1>5 DEF Live
  <2>2. s \in DOMAIN deliveries /\ deliveries[s].leaseOwner = v
    BY <2>1 DEF LeaseExclusive
  <2>3. deliveries'[s] = deliveries[s]
    BY <1>4, <1>5, <2>2
  <2> QED
    BY <1>4, <2>1, <2>2, <2>3 DEF LeaseExclusive
<1>9. AttemptsFence'
  BY <1>4, <1>5 DEF AttemptsFence
<1> QED
  BY <1>6, <1>7, <1>8, <1>9

(* A crash forgets what the worker holds and leaves the rows alone.        *)
LEMMA CrashInvariant ==
  ASSUME IInv, NEW w \in Workers, Crash(w)
  PROVE  IInv'
<1> USE DEF IInv
<1>1. /\ nextSequence' = nextSequence /\ now' = now /\ deliveries' = deliveries
      /\ latestSequence' = latestSequence
  BY DEF Crash, logVars, latestSequence
<1>2. /\ DOMAIN holding' = Workers
      /\ \A v \in Workers :
           /\ DOMAIN holding'[v] \subseteq DOMAIN holding[v]
           /\ \A s \in DOMAIN holding'[v] : holding'[v][s] = holding[v][s]
  <2>1. TypeOK /\ Forget(w, DOMAIN holding[w])
    BY DEF Crash
  <2>2. /\ DOMAIN holding' = Workers
        /\ \A v \in Workers :
             /\ DOMAIN holding'[v] = IF v = w THEN DOMAIN holding[v] \ DOMAIN holding[w]
                                              ELSE DOMAIN holding[v]
             /\ \A s \in DOMAIN holding'[v] : holding'[v][s] = holding[v][s]
    BY <2>1, Forgotten
  <2> QED
    BY <2>2
<1>3. TypeOK'
  BY <1>1, <1>2 DEF TypeOK
<1>4. HeldRows'
  BY <1>1, <1>2 DEF HeldRows
<1>5. LeaseExclusive'
  BY <1>1, <1>2 DEF LeaseExclusive, Live
<1>6. AttemptsFence'
  BY <1>1, <1>2 DEF AttemptsFence
<1> QED
  BY <1>3, <1>4, <1>5, <1>6

(* The passing of time only ends leases.                                   *)
LEMMA TickInvariant == IInv /\ Tick => IInv'
<1> SUFFICES ASSUME IInv, Tick PROVE IInv'
  OBVIOUS
<1> USE DEF IInv
<1>1. /\ nextSequence' = nextSequence /\ deliveries' = deliveries /\ holding' = holding
      /\ latestSequence' = latestSequence
      /\ now' = now + 1 /\ now' \in 0..MaxTime
  BY ClockAssumption DEF Tick, logVars, latestSequence, TypeOK
<1>2. TypeOK'
  BY <1>1 DEF TypeOK
<1>3. HeldRows'
  BY <1>1 DEF HeldRows
<1>4. LeaseExclusive'
  <2> SUFFICES ASSUME NEW v \in Workers, NEW s \in DOMAIN holding[v], Live(v, s)'
               PROVE  Live(v, s)
    BY <1>1 DEF LeaseExclusive
  <2>1. now < holding[v][s].leaseUntil
    BY <1>1 DEF Live, TypeOK
  <2> QED
    BY <2>1 DEF Live
<1>5. AttemptsFence'
  BY <1>1 DEF AttemptsFence
<1> QED
  BY <1>2, <1>3, <1>4, <1>5

LEMMA StepInvariant == IInv /\ [Next]_vars => IInv'
<1> SUFFICES ASSUME IInv, [Next]_vars PROVE IInv'
  OBVIOUS
<1>1. CASE Publish
  BY <1>1, PublishInvariant
<1>2. CASE Tick
  BY <1>2, TickInvariant
<1>3. ASSUME NEW w \in Workers, Lease(w) PROVE IInv'
  BY <1>3, LeaseInvariant
<1>4. ASSUME NEW w \in Workers, Handle(w) PROVE IInv'
  BY <1>4, HandleInvariant
<1>5. ASSUME NEW w \in Workers, Acknowledge(w) PROVE IInv'
  BY <1>5, AcknowledgeInvariant
<1>6. ASSUME NEW w \in Workers, Release(w) PROVE IInv'
  BY <1>6, ReleaseInvariant
<1>7. ASSUME NEW w \in Workers, Crash(w) PROVE IInv'
  BY <1>7, CrashInvariant
<1>8. CASE UNCHANGED vars
  BY <1>8 DEF IInv, TypeOK, HeldRows, LeaseExclusive, AttemptsFence, Live,
              latestSequence, vars
<1> QED
  BY <1>1, <1>2, <1>3, <1>4, <1>5, <1>6, <1>7, <1>8 DEF Next

LEMMA Invariance == Spec => []IInv
<1> QED
  BY InitInvariant, StepInvariant, PTL DEF Spec

-----------------------------------------------------------------------------
(* Every state of the outbox has the shape TypeOK gives it: in particular  *)
(* the two lease fields of a row are set and cleared together.             *)
THEOREM TypeCorrect == Spec => []TypeOK
<1>1. IInv => TypeOK
  BY DEF IInv
<1> QED
  BY <1>1, Invariance, PTL

(* A row is reserved for a worker exactly if the worker's attempt is the   *)
(* latest of the row (canLease and ownsCurrentLease keep it so).           *)
THEOREM HeldRowsCorrect == Spec => []HeldRows
<1>1. IInv => HeldRows
  BY DEF IInv
<1> QED
  BY <1>1, Invariance, PTL

(* A live lease is never taken over, whatever instants late commands       *)
(* carry: canLease compares the expiry with an instant of the past.        *)
THEOREM LeasesExclusive == Spec => []LeaseExclusive
<1>1. IInv => LeaseExclusive
  BY DEF IInv
<1> QED
  BY <1>1, Invariance, PTL

(* Two workers never hold a message under the same attempt (acquire counts *)
(* every reservation).                                                     *)
THEOREM AttemptsFenced == Spec => []AttemptsFence
<1>1. IInv => AttemptsFence
  BY DEF IInv
<1> QED
  BY <1>1, Invariance, PTL

(* Only an acknowledgement of the attempt that reserves a row, made after  *)
(* the broker has the message, removes the row (ownsCurrentLease).         *)
THEOREM RemovalsOwned == Spec => RemovedByCurrentAttempt
<1> DEFINE Owned ==
      \A s \in DOMAIN deliveries :
        s \notin DOMAIN deliveries' =>
          \E w \in Workers :
            /\ s \in DOMAIN holding[w]
            /\ holding[w][s].attempts = deliveries[s].attempts
            /\ holding[w][s].handled
<1>1. ASSUME HeldRows, Next PROVE Owned
  <2>1. CASE Publish
    BY <2>1 DEF Publish
  <2>2. CASE Tick
    BY <2>2 DEF Tick
  <2>3. ASSUME NEW w \in Workers, Lease(w) PROVE Owned
    BY <2>3 DEF Lease, LeaseRows
  <2>4. ASSUME NEW w \in Workers, Handle(w) PROVE Owned
    BY <2>4 DEF Handle
  <2>5. ASSUME NEW w \in Workers, Acknowledge(w) PROVE Owned
    <3> SUFFICES ASSUME NEW s \in DOMAIN deliveries, s \notin DOMAIN deliveries'
                 PROVE  /\ s \in DOMAIN holding[w]
                        /\ holding[w][s].attempts = deliveries[s].attempts
                        /\ holding[w][s].handled
      OBVIOUS
    <3>1. PICK t \in CommandInstants,
               S \in Commands({r \in DOMAIN holding[w] : holding[w][r].handled}) :
            deliveries' = Restrict(deliveries, DOMAIN deliveries \
              {r \in S \cap DOMAIN deliveries : OwnsCurrentLease(deliveries[r], w, t)})
      BY <2>5 DEF Acknowledge
    <3>2. s \in S /\ deliveries[s].leaseOwner = w
      BY <3>1 DEF Restrict, OwnsCurrentLease
    <3>3. s \in DOMAIN holding[w] /\ holding[w][s].handled
      BY <3>2 DEF Commands
    <3> QED
      BY <1>1, <3>2, <3>3 DEF HeldRows
  <2>6. ASSUME NEW w \in Workers, Release(w) PROVE Owned
    BY <2>6 DEF Release
  <2>7. ASSUME NEW w \in Workers, Crash(w) PROVE Owned
    BY <2>7 DEF Crash
  <2> QED
    BY <1>1, <2>1, <2>2, <2>3, <2>4, <2>5, <2>6, <2>7 DEF Next
<1>2. HeldRows /\ [Next]_vars => [Owned]_vars
  BY <1>1
<1> QED
  BY <1>2, HeldRowsCorrect, PTL DEF Spec, RemovedByCurrentAttempt

(***************************************************************************)
(* The stores of documents, effects and backups.                           *)
(*                                                                         *)
(* Types bounds the identifiers of the backups by those under way          *)
(* (Capacity) and types what a client holds between two steps.  Fresh says *)
(* that the identifier a backup takes is not in use.  The other properties *)
(* are strengthened by what is underway: results that a backup carries,    *)
(* records that a snapshot being digested carries, handlers that run.      *)
(***************************************************************************)

Snapshots == [documents : [Objects -> Records], effects : [Keys -> Entries]]

Backups ==
  [tenant : Tenants, digest : [tenant : Tenants, snapshot : Snapshots], content : Snapshots]

Ids == 1..MaxBackups

Messages ==
  [type : {"document-committed"}, object : Objects, revision : 1..MaxRevision]
    \cup [type : {"effect-completed"}, key : Keys, status : Statuses]
    \cup [type : {"tenant-restored"}, backup : Ids]

EditorStates ==
  {IdleEditor} \cup [stage : {"editing"}, tenant : Tenants, object : Objects, base : Records]

CallerAnswers ==
  Statuses \cup {"none", "conflict", "in-progress", "replay", "rejected"}

CallerStates ==
  [stage : {"answered"}, request : Requests \cup {NoRequest}, status : CallerAnswers, result : Results]
    \cup [stage : {"invoking"}, tenant : Tenants, key : Keys, request : Requests]
    \cup [stage : {"finishing"}, tenant : Tenants, key : Keys, request : Requests,
          status : Statuses]

AdminStates ==
  {IdleAdmin}
    \cup [stage : {"digesting"}, tenant : Tenants, id : Ids, snapshot : Snapshots]
    \cup [stage : {"verifying"}, tenant : Tenants, id : Ids, backup : Backups]

\* The backups made and being made are at most MaxBackups.
Capacity ==
  /\ IsFiniteSet(DOMAIN backups) /\ IsFiniteSet(Underway)
  /\ Cardinality(DOMAIN backups) + Cardinality(Underway) <= MaxBackups

Types ==
  /\ adapter \in Adapters
  /\ documents \in [Tenants -> [Objects -> Records]]
  /\ nextRevision \in [Tenants -> 1..(MaxRevision + 1)]
  /\ effects \in [Tenants -> [Keys -> Entries]]
  /\ feed \in [Tenants -> Seq(Messages)]
  /\ DOMAIN backups \subseteq Ids
  /\ \A id \in DOMAIN backups : backups[id] \in Backups
  /\ nextBackup \in 1..(MaxBackups + 1)
  /\ editors \in [Editors -> EditorStates]
  /\ callers \in [Callers -> CallerStates]
  /\ admins \in [Admins -> AdminStates]
  /\ accepted \in [Tenants -> [Objects -> SUBSET Edits]]
  /\ performed \in [Tenants -> [Keys -> Nat]]
  /\ restores \in [Tenants -> 0..MaxRestores]

-----------------------------------------------------------------------------
(* Types.                                                                  *)

(* The invariant holds of the empty store and idle clients.                *)
LEMMA InitialTypes == StoreInit => Types /\ Capacity
<1> SUFFICES ASSUME StoreInit PROVE Types /\ Capacity
  OBVIOUS
<1>1. NoDocument \in Records
  BY BoundAssumption DEF NoDocument, Records, NoRevision
<1>2. NoEffect \in Entries /\ NoResult \in Results
  BY DEF Entries, Results
<1>3. DOMAIN backups = {}
  BY DEF StoreInit
<1>4. Underway = {}
  BY DEF StoreInit, Underway, IdleAdmin
<1>5. Capacity
  BY <1>3, <1>4, FS_EmptySet, BoundAssumption DEF Capacity
<1>6. \A c \in Callers : callers[c] \in CallerStates
  BY <1>2 DEF StoreInit, AnsweredCaller, CallerStates, CallerAnswers
<1> QED
  BY <1>1, <1>2, <1>3, <1>5, <1>6, BoundAssumption
  DEF StoreInit, Types, EditorStates, AdminStates, CallerStates

(* What a caller holds while its effect is in progress.                    *)
LEMMA InProgressCaller ==
  ASSUME Types, NEW c \in Callers
  PROVE  /\ callers[c] \in CallerStates
         /\ callers[c].stage = "invoking" =>
              callers[c] \in [stage : {"invoking"}, tenant : Tenants, key : Keys, request : Requests]
         /\ callers[c].stage = "finishing" =>
              callers[c] \in [stage : {"finishing"}, tenant : Tenants, key : Keys,
                              request : Requests, status : Statuses]
BY DEF Types, CallerStates

(* What an editor holds.                                                   *)
LEMMA EditingEditor ==
  ASSUME Types, NEW e \in Editors, editors[e].stage = "editing"
  PROVE  editors[e] \in [stage : {"editing"}, tenant : Tenants, object : Objects, base : Records]
BY DEF Types, EditorStates, IdleEditor

(* What an administrator's operation holds.                                *)
LEMMA BusyAdmin ==
  ASSUME Types, NEW a \in Admins
  PROVE  /\ admins[a].stage = "digesting" =>
              admins[a] \in [stage : {"digesting"}, tenant : Tenants, id : Ids,
                             snapshot : Snapshots]
         /\ admins[a].stage = "verifying" =>
              admins[a] \in [stage : {"verifying"}, tenant : Tenants, id : Ids, backup : Backups]
BY DEF Types, AdminStates, IdleAdmin


(* A step on documents or effects leaves the recovery operations alone.    *)
LEMMA CapacityKept ==
  ASSUME Capacity, UNCHANGED <<backups, admins>>
  PROVE  Capacity'
BY DEF Capacity, Underway

(* A step of an editor keeps the types.                                    *)
LEMMA EditorTypes ==
  ASSUME Types, NEW e \in Editors,
         ReadDocument(e) \/ CommitRefused(e) \/ CommitAccepted(e)
  PROVE  Types'
<1>1. CASE ReadDocument(e)
  <2>1. PICK t \in Tenants, o \in Objects :
          editors' = [editors EXCEPT ![e] =
                        [stage |-> "editing", tenant |-> t, object |-> o,
                         base |-> documents[t][o]]]
    BY <1>1 DEF ReadDocument
  <2>2. documents[t][o] \in Records
    BY DEF Types
  <2>3. editors' \in [Editors -> EditorStates]
    BY <2>1, <2>2 DEF Types, EditorStates
  <2> QED
    BY <1>1, <2>3 DEF ReadDocument, Types, storeVars, historyVars
<1>2. CASE CommitRefused(e)
  BY <1>2 DEF CommitRefused, Types, EditorStates, storeVars, historyVars
<1>3. CASE CommitAccepted(e)
  <2> DEFINE t == editors[e].tenant
             o == editors[e].object
             record == RevisionRecord(t, o, editors[e].base, nextRevision[t])
  <2>1. /\ t \in Tenants /\ o \in Objects /\ editors[e].base \in Records
        /\ nextRevision[t] \in 1..MaxRevision
    BY <1>3, EditingEditor DEF CommitAccepted, Types
  <2>2. NewEdit(t) \in Edits
    BY <2>1 DEF NewEdit, Edits, Types
  <2>3. record \in Records
    BY SMTT(40), <2>1, <2>2, BoundAssumption DEF RevisionRecord, Records, Types
  <2>4. documents' \in [Tenants -> [Objects -> Records]]
    BY <1>3, <2>1, <2>3 DEF CommitAccepted, Types
  <2>5. nextRevision' \in [Tenants -> 1..(MaxRevision + 1)]
    BY <1>3, <2>1, BoundAssumption DEF CommitAccepted, Types
  <2>6. feed' \in [Tenants -> Seq(Messages)]
    <3>1. DocumentCommitted(o, nextRevision[t]) \in Messages
      BY <2>1 DEF DocumentCommitted, Messages
    <3>2. feed \in [Tenants -> Seq(Messages)]
      BY DEF Types
    <3>3. feed' = [feed EXCEPT ![t] = Append(@, DocumentCommitted(o, nextRevision[t]))]
      BY <1>3 DEF CommitAccepted, Notify
    <3> QED
      BY <2>1, <3>1, <3>2, <3>3
  <2>7. accepted' \in [Tenants -> [Objects -> SUBSET Edits]]
    <3>1. accepted \in [Tenants -> [Objects -> SUBSET Edits]]
      BY DEF Types
    <3>2. accepted' = [accepted EXCEPT ![t][o] = @ \cup {NewEdit(t)}]
      BY <1>3 DEF CommitAccepted
    <3> QED
      BY <2>1, <2>2, <3>1, <3>2
  <2>8. editors' \in [Editors -> EditorStates]
    BY <1>3 DEF CommitAccepted, Types, EditorStates
  <2> QED
    BY <1>3, <2>4, <2>5, <2>6, <2>7, <2>8 DEF CommitAccepted, Types
<1> QED
  BY <1>1, <1>2, <1>3

(* A step of a caller of an effect keeps the types.                        *)
LEMMA CallerTypes ==
  ASSUME Types, NEW c \in Callers,
         \/ InvokeEffect(c) \/ RunEffect(c) \/ FinishEffect(c)
         \/ FinishRejected(c) \/ AbandonEffect(c)
  PROVE  Types'
<1> USE DEF storeVars, historyVars
<1>0. /\ effects \in [Tenants -> [Keys -> Entries]]
      /\ callers \in [Callers -> CallerStates]
  BY DEF Types
<1>1. CASE InvokeEffect(c)
  <2>1. PICK t \in Tenants, k \in Keys, f \in Requests :
          \/ /\ effects' = [effects EXCEPT ![t][k] = PendingEffect(f)]
             /\ callers' = [callers EXCEPT ![c] =
                             [stage |-> "invoking", tenant |-> t, key |-> k, request |-> f]]
          \/ /\ ~KeyIsFree(effects[t][k])
             /\ callers' = [callers EXCEPT ![c] = LeaseAnswer(effects[t][k], f)]
             /\ UNCHANGED effects
    BY <1>1 DEF InvokeEffect
  <2>2. PendingEffect(f) \in Entries
    BY DEF PendingEffect, Entries, Results
  <2>3. ~KeyIsFree(effects[t][k]) => LeaseAnswer(effects[t][k], f) \in CallerStates
    BY <1>0 DEF KeyIsFree, LeaseAnswer, AnsweredCaller, Entries, Results, CallerStates, CallerAnswers
  <2>4. [stage |-> "invoking", tenant |-> t, key |-> k, request |-> f] \in CallerStates
    BY DEF CallerStates
  <2>5. effects' \in [Tenants -> [Keys -> Entries]]
    BY <1>0, <2>1, <2>2
  <2>6. callers' \in [Callers -> CallerStates]
    BY <1>0, <2>1, <2>3, <2>4
  <2> QED
    BY <1>1, <2>5, <2>6 DEF InvokeEffect, Types
<1>2. CASE RunEffect(c)
  <2>1. PICK outcome \in {"succeeded", "failed"}, done \in BOOLEAN :
          /\ performed' = IF done
                          THEN [performed EXCEPT ![callers[c].tenant][callers[c].key] = @ + 1]
                          ELSE performed
          /\ callers' = [callers EXCEPT ![c] =
                           [stage |-> "finishing", tenant |-> @.tenant, key |-> @.key,
                            request |-> @.request, status |-> outcome]]
    BY <1>2 DEF RunEffect
  <2>2. callers' \in [Callers -> CallerStates]
    BY <1>0, <1>2, <2>1, InProgressCaller DEF RunEffect, CallerStates, Statuses
  <2>3. performed' \in [Tenants -> [Keys -> Nat]]
    <3>1. performed \in [Tenants -> [Keys -> Nat]]
      BY DEF Types
    <3>2. callers[c].tenant \in Tenants /\ callers[c].key \in Keys
      BY <1>2, InProgressCaller DEF RunEffect
    <3> QED
      BY <2>1, <3>1, <3>2
  <2> QED
    BY <1>2, <2>2, <2>3 DEF RunEffect, Types
<1>3. CASE FinishEffect(c)
  <2> DEFINE t == callers[c].tenant
             k == callers[c].key
             f == callers[c].request
             result == [status |-> callers[c].status, request |-> f]
  <2>1. t \in Tenants /\ k \in Keys /\ f \in Requests /\ callers[c].status \in Statuses
    BY <1>3, InProgressCaller DEF FinishEffect
  <2>2. result \in Results
    BY <2>1 DEF Results
  <2>3. effects[t][k] # NoEffect
    <3>1. NoEffect.fingerprint = NoRequest
      BY DEF NoEffect
    <3>2. MayFinish(effects[t][k], f)
      BY <1>3 DEF FinishEffect
    <3> QED
      BY <2>1, <3>1, <3>2, NoRequestAssumption DEF MayFinish
  <2>4. effects[t][k] \in [fingerprint : Requests, pending : BOOLEAN, result : Results]
    BY <1>0, <2>1, <2>3 DEF Entries
  <2>5. [effects[t][k] EXCEPT !.pending = FALSE, !.result = result] \in Entries
    BY <2>2, <2>4 DEF Entries
  <2>6. effects' = [effects EXCEPT ![t][k] =
                      [effects[t][k] EXCEPT !.pending = FALSE, !.result = result]]
    BY <1>0, <1>3, <2>1, <2>4 DEF FinishEffect
  <2>7. effects' \in [Tenants -> [Keys -> Entries]]
    BY <1>0, <2>1, <2>5, <2>6
  <2>8. feed' \in [Tenants -> Seq(Messages)]
    <3>1. EffectCompleted(k, result.status) \in Messages
      BY <2>1 DEF EffectCompleted, Messages
    <3>2. feed \in [Tenants -> Seq(Messages)]
      BY DEF Types
    <3>3. feed' = [feed EXCEPT ![t] = Append(@, EffectCompleted(k, result.status))]
      BY <1>3 DEF FinishEffect, Notify
    <3> QED
      BY <2>1, <3>1, <3>2, <3>3
  <2>9. callers' \in [Callers -> CallerStates]
    BY <1>0, <1>3, <2>1, <2>2 DEF FinishEffect, CallerStates, AnsweredCaller, CallerAnswers
  <2> QED
    BY <1>3, <2>7, <2>8, <2>9 DEF FinishEffect, Types
<1>4. CASE FinishRejected(c) \/ AbandonEffect(c)
  <2>1. callers[c].request \in Requests
    BY <1>4, InProgressCaller DEF FinishRejected, AbandonEffect
  <2>2. callers' = [callers EXCEPT ![c] = AnsweredCaller(callers[c].request, "rejected", NoResult)]
    BY <1>4 DEF FinishRejected, AbandonEffect
  <2>3. callers' \in [Callers -> CallerStates]
    BY <1>0, <2>1, <2>2 DEF AnsweredCaller, CallerAnswers, CallerStates, Results
  <2> QED
    BY <1>4, <2>3 DEF FinishRejected, AbandonEffect, Types
<1> QED
  BY <1>1, <1>2, <1>3, <1>4


(* A step of a backup keeps the types and the bound on identifiers.        *)
LEMMA BackupTypes ==
  ASSUME Types, Capacity, NEW a \in Admins,
         \/ StartBackup(a) \/ FinishBackup(a)
  PROVE  Types' /\ Capacity'
<1>0. /\ documents \in [Tenants -> [Objects -> Records]]
      /\ effects \in [Tenants -> [Keys -> Entries]]
      /\ admins \in [Admins -> AdminStates]
  BY DEF Types
<1>1. \A t \in Tenants : Snapshot(t) \in Snapshots
  BY <1>0 DEF Snapshot, Snapshots
<1>2. /\ IsFiniteSet(DOMAIN backups) /\ Cardinality(DOMAIN backups) \in Nat
      /\ IsFiniteSet(Underway) /\ Cardinality(Underway) \in Nat
  BY FS_CardinalityType DEF Capacity
<1>3. CASE StartBackup(a)
  <2>1. PICK t \in Tenants :
          admins' = [admins EXCEPT ![a] =
                       [stage |-> "digesting", tenant |-> t, id |-> nextBackup,
                        snapshot |-> Snapshot(t)]]
    BY <1>3 DEF StartBackup
  <2>2. nextBackup \in Ids /\ nextBackup' \in 1..(MaxBackups + 1)
    BY <1>3, BoundAssumption DEF StartBackup, Types, Ids
  <2>3. admins' \in [Admins -> AdminStates]
    BY <1>0, <1>1, <2>1, <2>2 DEF AdminStates
  <2>4. Underway' = Underway \cup {a} /\ a \notin Underway
    BY <1>0, <1>3, <2>1 DEF StartBackup, Underway, IdleAdmin
  <2>5. IsFiniteSet(Underway') /\ Cardinality(Underway') = Cardinality(Underway) + 1
    BY <1>2, <2>4, FS_AddElement
  <2>6. Capacity'
    BY <1>2, <1>3, <2>5, BoundAssumption DEF Capacity, StartBackup
  <2> QED
    BY <1>3, <2>2, <2>3, <2>6 DEF StartBackup, Types, storeVars, historyVars
<1>4. CASE FinishBackup(a)
  <2>1. admins[a] \in [stage : {"digesting"}, tenant : Tenants, id : Ids, snapshot : Snapshots]
    BY <1>4, BusyAdmin DEF FinishBackup
  <2>2. Underway' = Underway \ {a} /\ a \in Underway
    BY <1>0, <1>4 DEF FinishBackup, Underway, IdleAdmin
  <2>3. IsFiniteSet(Underway') /\ Cardinality(Underway') = Cardinality(Underway) - 1
    BY <1>2, <2>2, FS_RemoveElement
  <2>4. DOMAIN backups' = DOMAIN backups \cup {BackupId(a)}
    BY <1>4 DEF FinishBackup
  <2>5. /\ IsFiniteSet(DOMAIN backups')
        /\ Cardinality(DOMAIN backups') \in Nat
        /\ Cardinality(DOMAIN backups') <= Cardinality(DOMAIN backups) + 1
    <3>1. /\ IsFiniteSet(DOMAIN backups \cup {BackupId(a)})
          /\ Cardinality(DOMAIN backups \cup {BackupId(a)}) =
               IF BackupId(a) \in DOMAIN backups
               THEN Cardinality(DOMAIN backups) ELSE Cardinality(DOMAIN backups) + 1
      BY <1>2, FS_AddElement
    <3> QED
      BY <1>2, <2>4, <3>1
  <2>6. Cardinality(Underway') \in Nat
    BY <2>3, FS_CardinalityType
  <2>7. Capacity'
    BY <1>2, <2>3, <2>5, <2>6, BoundAssumption DEF Capacity
  <2>8. BackupId(a) \in Ids
    <3>1. Cardinality(DOMAIN backups) + 1 <= MaxBackups
      BY <1>2, <2>3, <2>6, BoundAssumption DEF Capacity
    <3> QED
      BY <1>2, <2>1, <3>1, BoundAssumption DEF BackupId, Ids
  <2>9. BackupContent(a) \in Snapshots
    BY <1>1, <2>1 DEF BackupContent
  <2>10. [tenant |-> admins[a].tenant,
          digest |-> Payload(admins[a].tenant, admins[a].snapshot),
          content |-> BackupContent(a)] \in Backups
    BY <2>1, <2>9 DEF Backups, Payload
  <2>11. \A id \in DOMAIN backups' : backups'[id] \in Backups
    BY <1>4, <2>4, <2>10 DEF FinishBackup, Types
  <2>12. DOMAIN backups' \subseteq Ids
    BY <2>4, <2>8 DEF Types
  <2>13. admins' \in [Admins -> AdminStates]
    BY <1>0, <1>4 DEF FinishBackup, AdminStates
  <2> QED
    BY <1>4, <2>7, <2>11, <2>12, <2>13 DEF FinishBackup, Types, storeVars, historyVars
<1> QED
  BY <1>3, <1>4

(* A step of a restore keeps the types and the bound on identifiers.       *)
LEMMA RestoreTypes ==
  ASSUME Types, NEW a \in Admins,
         \/ StartRestore(a) \/ RestoreRefused(a) \/ ApplyRestore(a) \/ AbandonRecovery(a)
  PROVE  Types' /\ Underway' \subseteq Underway
<1>0. admins \in [Admins -> AdminStates]
  BY DEF Types
<1>1. CASE StartRestore(a)
  <2>1. PICK t \in Tenants, id \in DOMAIN backups :
          admins' = [admins EXCEPT ![a] =
                       [stage |-> "verifying", tenant |-> t, id |-> id, backup |-> backups[id]]]
    BY <1>1 DEF StartRestore
  <2>2. id \in Ids /\ backups[id] \in Backups
    BY DEF Types
  <2>3. admins' \in [Admins -> AdminStates]
    BY <1>0, <2>1, <2>2 DEF AdminStates
  <2>4. Underway' \subseteq Underway
    BY <1>0, <2>1 DEF Underway
  <2> QED
    BY <1>1, <2>3, <2>4 DEF StartRestore, Types, storeVars, historyVars
<1>2. CASE RestoreRefused(a) \/ AbandonRecovery(a)
  <2>1. admins' = [admins EXCEPT ![a] = IdleAdmin]
    BY <1>2 DEF RestoreRefused, AbandonRecovery
  <2>2. admins' \in [Admins -> AdminStates]
    BY <1>0, <2>1 DEF AdminStates
  <2>3. Underway' \subseteq Underway
    BY <1>0, <2>1 DEF Underway, IdleAdmin
  <2> QED
    BY <1>2, <2>2, <2>3 DEF RestoreRefused, AbandonRecovery, Types, storeVars, historyVars
<1>3. CASE ApplyRestore(a)
  <2> DEFINE t == admins[a].tenant
             content == admins[a].backup.content
  <2>1. /\ t \in Tenants /\ admins[a].id \in Ids /\ admins[a].backup \in Backups
        /\ restores[t] < MaxRestores
    BY <1>3, BusyAdmin DEF ApplyRestore
  <2>2. /\ content \in Snapshots
        /\ content.documents \in [Objects -> Records]
        /\ content.effects \in [Keys -> Entries]
        /\ \A o \in Objects : content.documents[o].content \in SUBSET Edits
    BY <2>1 DEF Backups, Snapshots, Records
  <2>3. documents' \in [Tenants -> [Objects -> Records]]
    BY <1>3, <2>1, <2>2 DEF ApplyRestore, Types
  <2>4. effects' \in [Tenants -> [Keys -> Entries]]
    BY <1>3, <2>1, <2>2 DEF ApplyRestore, Types
  <2>5. nextRevision' = nextRevision
    BY <1>3, <2>1 DEF ApplyRestore, RevisionAfterRestore, Types
  <2>6. feed' \in [Tenants -> Seq(Messages)]
    BY <1>3, <2>1 DEF ApplyRestore, NotifyRestore, Notify, TenantRestored, Messages, Types
  <2>7. accepted' \in [Tenants -> [Objects -> SUBSET Edits]]
    BY <1>3, <2>1, <2>2 DEF ApplyRestore, Types
  <2>8. restores' \in [Tenants -> 0..MaxRestores]
    BY <1>3, <2>1, BoundAssumption DEF ApplyRestore, Types
  <2>9. admins' \in [Admins -> AdminStates]
    BY <1>0, <1>3 DEF ApplyRestore, AdminStates
  <2>10. Underway' \subseteq Underway
    BY <1>0, <1>3 DEF ApplyRestore, Underway, IdleAdmin
  <2> QED
    BY <1>3, <2>3, <2>4, <2>5, <2>6, <2>7, <2>8, <2>9, <2>10 DEF ApplyRestore, Types
<1> QED
  BY <1>1, <1>2, <1>3


(* Every step keeps the types.                                             *)
LEMMA TypesStep == Types /\ Capacity /\ [StoreNext]_allVars => Types' /\ Capacity'
<1> SUFFICES ASSUME Types, Capacity, [StoreNext]_allVars PROVE Types' /\ Capacity'
  OBVIOUS
<1>1. ASSUME NEW e \in Editors, ReadDocument(e) \/ CommitRefused(e) \/ CommitAccepted(e)
      PROVE  Types' /\ Capacity'
  <2>1. UNCHANGED <<backups, admins>>
    BY <1>1 DEF ReadDocument, CommitRefused, CommitAccepted
  <2> QED
    BY <1>1, <2>1, EditorTypes, CapacityKept
<1>2. ASSUME NEW c \in Callers,
             \/ InvokeEffect(c) \/ RunEffect(c) \/ FinishEffect(c)
             \/ FinishRejected(c) \/ AbandonEffect(c)
      PROVE  Types' /\ Capacity'
  <2>1. UNCHANGED <<backups, admins>>
    BY <1>2 DEF InvokeEffect, RunEffect, FinishEffect, FinishRejected, AbandonEffect
  <2> QED
    BY <1>2, <2>1, CallerTypes, CapacityKept
<1>3. ASSUME NEW a \in Admins, StartBackup(a) \/ FinishBackup(a)
      PROVE  Types' /\ Capacity'
  BY <1>3, BackupTypes
<1>4. ASSUME NEW a \in Admins,
             \/ StartRestore(a) \/ RestoreRefused(a) \/ ApplyRestore(a) \/ AbandonRecovery(a)
      PROVE  Types' /\ Capacity'
  <2>1. Types' /\ Underway' \subseteq Underway
    BY <1>4, RestoreTypes
  <2>2. backups' = backups
    BY <1>4 DEF StartRestore, RestoreRefused, ApplyRestore, AbandonRecovery
  <2>3. /\ IsFiniteSet(Underway') /\ Cardinality(Underway') \in Nat
        /\ Cardinality(Underway) \in Nat /\ Cardinality(DOMAIN backups) \in Nat
        /\ Cardinality(Underway') <= Cardinality(Underway)
    BY <2>1, FS_Subset, FS_CardinalityType DEF Capacity
  <2>4. Capacity'
    BY <2>2, <2>3, BoundAssumption DEF Capacity
  <2> QED
    BY <2>1, <2>4
<1>5. CASE UNCHANGED allVars
  <2>1. Types'
    BY <1>5 DEF allVars, Types
  <2> QED
    BY <1>5, <2>1, CapacityKept DEF allVars
<1> QED
  BY <1>1, <1>2, <1>3, <1>4, <1>5 DEF StoreNext

(* In every reachable state the state of the store and the histories have  *)
(* their types, and at most MaxBackups backups exist: of either store, for *)
(* any number of tenants, objects, keys and clients.                       *)
THEOREM StoreTypeCorrect == StoreSpec => []StoreTypeOK
<1>1. StoreSpec => [](Types /\ Capacity)
  BY InitialTypes, TypesStep, PTL DEF StoreSpec
<1>2. Types => StoreTypeOK
  BY DEF Types, StoreTypeOK, Backups, Snapshots, Ids
<1> QED
  BY <1>1, <1>2, PTL


-----------------------------------------------------------------------------
(* Identifiers of backups.                                                 *)

FreshIds ==
  /\ adapter = "sqlite" => DOMAIN backups = 1..Cardinality(DOMAIN backups)
  /\ adapter = "reference" =>
       /\ \A id \in DOMAIN backups : id < nextBackup
       /\ \A a \in Underway : admins[a].id < nextBackup /\ admins[a].id \notin DOMAIN backups
       /\ \A a, b \in Underway : admins[a].id = admins[b].id => a = b

\* What is verified is a backup of the tenant that restores it.
VerifiedBackups ==
  \A a \in Admins : admins[a].stage = "verifying" =>
    /\ OwnedBackup(admins[a].tenant, admins[a].id)
    /\ admins[a].backup = backups[admins[a].id]

IdInv == Types /\ Capacity /\ FreshIds /\ VerifiedBackups

(* The identifier under which a backup is stored is not in use.            *)
LEMMA FreshId ==
  ASSUME IdInv, NEW a \in Admins, admins[a].stage = "digesting"
  PROVE  BackupId(a) \notin DOMAIN backups
<1>1. adapter \in {"reference", "sqlite"}
  BY StoreAdapterAssumption DEF IdInv, Types
<1>2. CASE adapter = "reference"
  BY <1>2 DEF IdInv, FreshIds, BackupId, Underway
<1>3. CASE adapter = "sqlite"
  <2>1. Cardinality(DOMAIN backups) \in Nat
    BY FS_CardinalityType DEF IdInv, Capacity
  <2> QED
    BY <1>3, <2>1 DEF IdInv, FreshIds, BackupId
<1> QED
  BY <1>1, <1>2, <1>3

(* The steps of editors and callers leave the recovery operations alone.   *)
LEMMA RecoverySteps ==
  ASSUME [StoreNext]_allVars
  PROVE  \/ UNCHANGED <<adapter, backups, nextBackup, admins>>
         \/ \E a \in Admins :
              \/ StartBackup(a) \/ FinishBackup(a)
              \/ StartRestore(a) \/ RestoreRefused(a) \/ ApplyRestore(a)
              \/ AbandonRecovery(a)
BY ZenonT(60) DEF StoreNext, allVars, ReadDocument, CommitRefused, CommitAccepted, InvokeEffect, RunEffect,
       FinishEffect, FinishRejected, AbandonEffect

(* A step adds a backup under a fresh identifier or leaves the backups.    *)
LEMMA BackupsStep ==
  ASSUME IdInv, [StoreNext]_allVars
  PROVE  \/ backups' = backups
         \/ \E a \in Admins :
              /\ FinishBackup(a)
              /\ DOMAIN backups' = DOMAIN backups \cup {BackupId(a)}
              /\ BackupId(a) \notin DOMAIN backups
              /\ \A id \in DOMAIN backups : backups'[id] = backups[id]
<1>1. CASE \E a \in Admins : FinishBackup(a)
  <2>1. PICK a \in Admins : FinishBackup(a)
    BY <1>1
  <2>2. BackupId(a) \notin DOMAIN backups
    BY <2>1, FreshId DEF FinishBackup
  <2> QED
    BY <2>1, <2>2 DEF FinishBackup
<1>2. CASE ~\E a \in Admins : FinishBackup(a)
  BY <1>2, RecoverySteps
  DEF StartBackup, StartRestore, RestoreRefused, ApplyRestore, AbandonRecovery
<1> QED
  BY <1>1, <1>2

(* Every identifier in use stays in use, for the same backup.              *)
LEMMA BackupsKept ==
  ASSUME IdInv, [StoreNext]_allVars, NEW id \in DOMAIN backups
  PROVE  id \in DOMAIN backups' /\ backups'[id] = backups[id]
BY BackupsStep

(* An identifier under way stays unused until its backup is stored.        *)
LEMMA FreshIdsStep ==
  ASSUME IdInv, [StoreNext]_allVars
  PROVE  FreshIds'
<1>0. /\ admins \in [Admins -> AdminStates] /\ nextBackup \in Nat
      /\ adapter \in {"reference", "sqlite"}
      /\ IsFiniteSet(DOMAIN backups) /\ Cardinality(DOMAIN backups) \in Nat
      /\ DOMAIN backups \subseteq Nat
  BY StoreAdapterAssumption, BoundAssumption, FS_CardinalityType
  DEF IdInv, Types, Capacity, Ids
<1>1. CASE UNCHANGED <<adapter, backups, nextBackup, admins>>
  BY <1>1 DEF IdInv, FreshIds, Underway
<1>2. ASSUME NEW a \in Admins, StartBackup(a)
      PROVE  FreshIds'
  <2>1. PICK t \in Tenants :
          admins' = [admins EXCEPT ![a] =
                       [stage |-> "digesting", tenant |-> t, id |-> nextBackup,
                        snapshot |-> Snapshot(t)]]
    BY <1>2 DEF StartBackup
  <2>2. /\ adapter' = adapter /\ backups' = backups
        /\ adapter = "reference" => nextBackup' = nextBackup + 1
    BY <1>2 DEF StartBackup
  <2>3. /\ Underway' = Underway \cup {a} /\ a \notin Underway
        /\ admins'[a].id = nextBackup
        /\ \A b \in Underway : admins'[b] = admins[b] /\ b # a
    BY <1>0, <1>2, <2>1 DEF StartBackup, Underway, IdleAdmin
  <2>4. \A b \in Underway : admins[b].id \in Nat
    BY BusyAdmin DEF IdInv, Underway, Ids
  <2> QED
    BY <1>0, <2>2, <2>3, <2>4 DEF IdInv, FreshIds
<1>3. ASSUME NEW a \in Admins, FinishBackup(a)
      PROVE  FreshIds'
  <2>1. /\ adapter' = adapter /\ nextBackup' = nextBackup
        /\ DOMAIN backups' = DOMAIN backups \cup {BackupId(a)}
        /\ a \in Underway
    BY <1>3 DEF FinishBackup, Underway
  <2>2. BackupId(a) \notin DOMAIN backups
    BY <1>3, FreshId DEF FinishBackup
  <2>3. /\ Underway' = Underway \ {a}
        /\ \A b \in Underway' : admins'[b] = admins[b]
    BY <1>0, <1>3 DEF FinishBackup, Underway, IdleAdmin
  <2>4. CASE adapter = "reference"
    BY <2>1, <2>3, <2>4 DEF IdInv, FreshIds, BackupId
  <2>5. CASE adapter = "sqlite"
    <3>1. Cardinality(DOMAIN backups') = Cardinality(DOMAIN backups) + 1
      BY <1>0, <2>1, <2>2, FS_AddElement
    <3>2. DOMAIN backups' = 1..(Cardinality(DOMAIN backups) + 1)
      BY <1>0, <2>1, <2>5 DEF IdInv, FreshIds, BackupId
    <3> QED
      BY <2>1, <2>5, <3>1, <3>2 DEF FreshIds
  <2> QED
    BY <1>0, <2>4, <2>5
<1>4. ASSUME NEW a \in Admins,
             \/ StartRestore(a) \/ RestoreRefused(a) \/ ApplyRestore(a) \/ AbandonRecovery(a)
      PROVE  FreshIds'
  <2>1. UNCHANGED <<adapter, backups, nextBackup>>
    BY <1>4 DEF StartRestore, RestoreRefused, ApplyRestore, AbandonRecovery
  <2>2. PICK state : admins' = [admins EXCEPT ![a] = state] /\ state.stage # "digesting"
    BY <1>4 DEF StartRestore, RestoreRefused, ApplyRestore, AbandonRecovery, IdleAdmin
  <2>3. Underway' \subseteq Underway /\ \A b \in Underway' : admins'[b] = admins[b]
    BY <1>0, <2>2 DEF Underway
  <2> QED
    BY <2>1, <2>3 DEF IdInv, FreshIds
<1> QED
  BY <1>1, <1>2, <1>3, <1>4, RecoverySteps

(* A backup under verification stays the backup it was.                    *)
LEMMA VerifiedBackupsStep ==
  ASSUME IdInv, [StoreNext]_allVars
  PROVE  VerifiedBackups'
<1> SUFFICES ASSUME NEW a \in Admins, admins'[a].stage = "verifying"
             PROVE  /\ OwnedBackup(admins[a].tenant, admins[a].id)'
                    /\ admins'[a].backup = backups'[admins'[a].id]
  BY DEF VerifiedBackups
<1>0. admins \in [Admins -> AdminStates]
  BY DEF IdInv, Types
<1>1. CASE admins'[a] = admins[a]
  <2>1. /\ admins[a].id \in DOMAIN backups /\ backups[admins[a].id].tenant = admins[a].tenant
        /\ admins[a].backup = backups[admins[a].id]
    BY <1>1 DEF IdInv, VerifiedBackups, OwnedBackup
  <2> QED
    BY <1>1, <2>1, BackupsKept DEF OwnedBackup
<1>2. CASE admins'[a] # admins[a]
  <2>1. PICK b \in Admins :
          \/ StartBackup(b) \/ FinishBackup(b)
          \/ StartRestore(b) \/ RestoreRefused(b) \/ ApplyRestore(b)
          \/ AbandonRecovery(b)
    BY <1>2, RecoverySteps
  <2>2. StartRestore(b) /\ a = b
    BY <1>0, <1>2, <2>1
    DEF StartBackup, FinishBackup, StartRestore, RestoreRefused, ApplyRestore, AbandonRecovery,
        IdleAdmin
  <2> QED
    BY <1>0, <2>2 DEF StartRestore, OwnedBackup
<1> QED
  BY <1>1, <1>2

(* Identifiers under way are fresh in every behavior.                      *)
LEMMA IdInvariant == StoreSpec => []IdInv
<1>1. StoreInit => IdInv
  <2> SUFFICES ASSUME StoreInit PROVE FreshIds /\ VerifiedBackups
    BY InitialTypes DEF IdInv
  <2>1. DOMAIN backups = {} /\ Underway = {}
    BY DEF StoreInit, Underway, IdleAdmin
  <2>2. Cardinality(DOMAIN backups) = 0
    BY <2>1, FS_EmptySet
  <2> QED
    BY <2>1, <2>2 DEF StoreInit, FreshIds, VerifiedBackups, IdleAdmin
<1>2. IdInv /\ [StoreNext]_allVars => IdInv'
  BY TypesStep, FreshIdsStep, VerifiedBackupsStep DEF IdInv
<1> QED
  BY <1>1, <1>2, PTL DEF StoreSpec

(* A backup that was created is never replaced, although both stores       *)
(* compute a digest between taking an identifier and storing the backup.   *)
THEOREM BackupsCorrect == StoreSpec => BackupsImmutable
<1>1. IdInv /\ [StoreNext]_allVars =>
        [\A id \in DOMAIN backups : id \in DOMAIN backups' /\ backups'[id] = backups[id]]_allVars
  BY BackupsKept
<1> QED
  BY <1>1, IdInvariant, PTL DEF StoreSpec, BackupsImmutable


(* Whatever commits and effects run while the digest of a backup is being  *)
(* computed, the SQLite store stores the state that was hashed, so the     *)
(* verification of a restore accepts each of its backups.                  *)
THEOREM BackupsRestorable == StoreSpec => []SqliteBackupRestorable
<1>1. StoreInit => SqliteBackupRestorable
  <2> SUFFICES ASSUME StoreInit PROVE BackupRestorable
    BY DEF SqliteBackupRestorable
  <2>1. DOMAIN backups = {}
    BY DEF StoreInit
  <2> QED
    BY <2>1 DEF BackupRestorable
<1>2. SqliteBackupRestorable /\ IdInv /\ [StoreNext]_allVars => SqliteBackupRestorable'
  <2> SUFFICES ASSUME SqliteBackupRestorable, IdInv, [StoreNext]_allVars, adapter' = "sqlite",
                      NEW id \in DOMAIN backups'
               PROVE  Intact(backups'[id].tenant, backups'[id])
    BY DEF SqliteBackupRestorable, BackupRestorable, Intact, Payload
  <2>1. adapter = "sqlite"
    BY DEF StoreNext, allVars, ReadDocument, CommitRefused, CommitAccepted, InvokeEffect, RunEffect,
           FinishEffect, FinishRejected, AbandonEffect, StartBackup, FinishBackup, StartRestore,
           RestoreRefused, ApplyRestore, AbandonRecovery
  <2>2. CASE id \in DOMAIN backups
    BY <2>1, <2>2, BackupsKept DEF SqliteBackupRestorable, BackupRestorable
  <2>3. CASE id \notin DOMAIN backups
    <3>1. PICK a \in Admins : FinishBackup(a) /\ id = BackupId(a)
      BY <2>3, BackupsStep
    <3>2. backups'[id] = [tenant |-> admins[a].tenant,
                          digest |-> Payload(admins[a].tenant, admins[a].snapshot),
                          content |-> admins[a].snapshot]
      BY <2>1, <3>1 DEF FinishBackup, BackupContent
    <3> QED
      BY <3>2 DEF Intact
  <2> QED
    BY <2>2, <2>3
<1> QED
  BY <1>1, <1>2, IdInvariant, PTL DEF StoreSpec

-----------------------------------------------------------------------------
(* Effects.                                                                *)

\* An entry of the SQLite store: what its result answers is its own request.
GoodEntry(entry) ==
  \/ entry = NoEffect
  \/ /\ entry.fingerprint \in Requests
     /\ entry.pending => entry.result = NoResult
     /\ ~entry.pending => entry.result # NoResult /\ entry.result.request = entry.fingerprint

GoodEffects ==
  /\ \A t \in Tenants, k \in Keys : GoodEntry(effects[t][k])
  /\ \A id \in DOMAIN backups, k \in Keys : GoodEntry(backups[id].content.effects[k])
  /\ \A a \in Admins, k \in Keys :
       admins[a].stage = "digesting" => GoodEntry(admins[a].snapshot.effects[k])

GoodReplays ==
  \A c \in Callers : callers[c].stage = "answered" /\ callers[c].status = "replay" =>
    callers[c].result.request = callers[c].request

EffectInv == adapter = "sqlite" => GoodEffects /\ GoodReplays

(* A completion that the SQLite store accepts makes a good entry final.    *)
LEMMA Completed ==
  ASSUME Types, adapter = "sqlite", NEW c \in Callers, FinishEffect(c)
  PROVE  LET t == callers[c].tenant
             k == callers[c].key
         IN  /\ t \in Tenants /\ k \in Keys
             /\ effects[t][k].pending /\ effects[t][k] # NoEffect
             /\ GoodEntry(effects'[t][k])
             /\ \A u \in Tenants, l \in Keys : u # t \/ l # k => effects'[u][l] = effects[u][l]
<1> DEFINE t == callers[c].tenant
           k == callers[c].key
           f == callers[c].request
           result == [status |-> callers[c].status, request |-> f]
           entry == effects[t][k]
<1>1. t \in Tenants /\ k \in Keys /\ f \in Requests
  BY InProgressCaller DEF FinishEffect
<1>2. entry.fingerprint = f /\ entry.pending
  BY DEF FinishEffect, MayFinish
<1>3. NoEffect.fingerprint = NoRequest /\ NoResult.request = NoRequest
  BY DEF NoEffect, NoResult
<1>4. entry # NoEffect /\ result # NoResult
  BY <1>1, <1>2, <1>3, NoRequestAssumption
<1>5. entry \in [fingerprint : Requests, pending : BOOLEAN, result : Results]
  BY <1>1, <1>4 DEF Types, Entries
<1>6. effects \in [Tenants -> [Keys -> Entries]]
  BY DEF Types
<1>7. effects' = [effects EXCEPT ![t][k] = [entry EXCEPT !.pending = FALSE, !.result = result]]
  BY <1>1, <1>5, <1>6 DEF FinishEffect
<1>8. effects'[t][k] = [entry EXCEPT !.pending = FALSE, !.result = result]
  BY <1>1, <1>6, <1>7
<1>9. GoodEntry(effects'[t][k])
  <2>1. /\ effects'[t][k].fingerprint = f /\ ~effects'[t][k].pending
        /\ effects'[t][k].result = result
    BY <1>2, <1>5, <1>8
  <2> QED
    BY <1>1, <1>4, <2>1 DEF GoodEntry
<1>10. \A u \in Tenants, l \in Keys : u # t \/ l # k => effects'[u][l] = effects[u][l]
  BY <1>1, <1>6, <1>7
<1> QED
  BY <1>1, <1>2, <1>4, <1>9, <1>10

(* The entries of the effect store stay answers to their requests.         *)
LEMMA GoodEntriesStep ==
  ASSUME IdInv, adapter = "sqlite", GoodEffects, [StoreNext]_allVars
  PROVE  \A t \in Tenants, k \in Keys : GoodEntry(effects'[t][k])
<1>0. effects \in [Tenants -> [Keys -> Entries]]
  BY DEF IdInv, Types
<1>1. CASE UNCHANGED effects
  BY <1>1 DEF GoodEffects
<1>2. ASSUME NEW c \in Callers, InvokeEffect(c)
      PROVE  \A t \in Tenants, k \in Keys : GoodEntry(effects'[t][k])
  <2>1. PICK t \in Tenants, k \in Keys, f \in Requests :
          \/ effects' = [effects EXCEPT ![t][k] = PendingEffect(f)]
          \/ UNCHANGED effects
    BY <1>2 DEF InvokeEffect
  <2>2. GoodEntry(PendingEffect(f))
    BY DEF GoodEntry, PendingEffect
  <2> QED
    BY <1>0, <1>1, <2>1, <2>2 DEF GoodEffects
<1>3. ASSUME NEW c \in Callers, FinishEffect(c)
      PROVE  \A t \in Tenants, k \in Keys : GoodEntry(effects'[t][k])
  BY <1>3, Completed DEF IdInv, GoodEffects
<1>4. ASSUME NEW a \in Admins, ApplyRestore(a)
      PROVE  \A t \in Tenants, k \in Keys : GoodEntry(effects'[t][k])
  <2>1. /\ admins[a].id \in DOMAIN backups
        /\ admins[a].backup = backups[admins[a].id]
    BY <1>4 DEF ApplyRestore, IdInv, VerifiedBackups, OwnedBackup
  <2>2. effects' = [effects EXCEPT ![admins[a].tenant] = backups[admins[a].id].content.effects]
    BY <1>4, <2>1 DEF ApplyRestore
  <2> QED
    BY <1>0, <2>1, <2>2 DEF GoodEffects
<1> QED
  BY <1>1, <1>2, <1>3, <1>4
  DEF StoreNext, allVars, storeVars, ReadDocument, CommitRefused, CommitAccepted, RunEffect,
      FinishRejected, AbandonEffect, StartBackup, FinishBackup, StartRestore, RestoreRefused,
      AbandonRecovery

(* The answers that backups and snapshots carry stay good.                 *)
LEMMA GoodEffectsStep ==
  ASSUME IdInv, adapter = "sqlite", GoodEffects, [StoreNext]_allVars
  PROVE  GoodEffects'
<1>0. admins \in [Admins -> AdminStates]
  BY DEF IdInv, Types
<1>1. ASSUME NEW id \in DOMAIN backups', NEW k \in Keys
      PROVE  GoodEntry(backups'[id].content.effects[k])
  <2>1. CASE id \in DOMAIN backups
    BY <2>1, BackupsKept DEF GoodEffects
  <2>2. CASE id \notin DOMAIN backups
    <3>1. PICK a \in Admins : FinishBackup(a) /\ id = BackupId(a)
      BY <2>2, BackupsStep
    <3>2. admins[a].stage = "digesting" /\ backups'[id].content = admins[a].snapshot
      BY <3>1 DEF FinishBackup, BackupContent
    <3> QED
      BY <3>2 DEF GoodEffects
  <2> QED
    BY <2>1, <2>2
<1>2. ASSUME NEW a \in Admins, NEW k \in Keys, admins'[a].stage = "digesting"
      PROVE  GoodEntry(admins'[a].snapshot.effects[k])
  <2>1. CASE admins'[a] = admins[a]
    BY <1>2, <2>1 DEF GoodEffects
  <2>2. CASE admins'[a] # admins[a]
    <3>1. PICK b \in Admins :
            \/ StartBackup(b) \/ FinishBackup(b)
            \/ StartRestore(b) \/ RestoreRefused(b) \/ ApplyRestore(b)
            \/ AbandonRecovery(b)
      BY <2>2, RecoverySteps
    <3>2. StartBackup(b) /\ a = b
      BY <1>0, <1>2, <2>2, <3>1
      DEF StartBackup, FinishBackup, StartRestore, RestoreRefused, ApplyRestore, AbandonRecovery,
          IdleAdmin
    <3>3. PICK t \in Tenants : admins'[a].snapshot.effects = effects[t]
      BY <1>0, <3>2 DEF StartBackup, Snapshot
    <3> QED
      BY <3>3 DEF GoodEffects
  <2> QED
    BY <2>1, <2>2
<1> QED
  BY <1>1, <1>2, GoodEntriesStep DEF GoodEffects


(* What callers were answered stays an answer to their request.            *)
LEMMA GoodReplaysStep ==
  ASSUME IdInv, GoodEffects, GoodReplays, [StoreNext]_allVars
  PROVE  GoodReplays'
<1> SUFFICES ASSUME NEW c \in Callers,
                    callers'[c].stage = "answered", callers'[c].status = "replay"
             PROVE  callers'[c].result.request = callers'[c].request
  BY DEF GoodReplays
<1>0. callers \in [Callers -> CallerStates]
  BY DEF IdInv, Types
<1>1. CASE callers'[c] = callers[c]
  BY <1>1 DEF GoodReplays
<1>2. CASE callers'[c] # callers[c]
  <2>1. PICK d \in Callers :
          \/ InvokeEffect(d) \/ RunEffect(d) \/ FinishEffect(d)
          \/ FinishRejected(d) \/ AbandonEffect(d)
    BY <1>2
    DEF StoreNext, allVars, ReadDocument, CommitRefused, CommitAccepted, StartBackup, FinishBackup,
        StartRestore, RestoreRefused, ApplyRestore, AbandonRecovery
  <2>2. callers[d].status \in Statuses \/ callers[d].stage # "finishing"
    BY <1>0, InProgressCaller DEF IdInv
  <2>3. InvokeEffect(d) /\ c = d
    <3>1. ASSUME NEW answer, callers' = [callers EXCEPT ![d] = answer]
          PROVE  c = d /\ callers'[c] = answer
      BY <1>0, <1>2, <3>1
    <3>2. CASE InvokeEffect(d)
      <4>1. PICK answer : callers' = [callers EXCEPT ![d] = answer]
        BY <3>2 DEF InvokeEffect
      <4> QED
        BY <3>1, <3>2, <4>1
    <3>3. CASE RunEffect(d)
      <4>1. PICK status : callers' = [callers EXCEPT ![d] =
                 [stage |-> "finishing", tenant |-> callers[d].tenant, key |-> callers[d].key,
                  request |-> callers[d].request, status |-> status]]
        BY <1>0, <3>3 DEF RunEffect
      <4> QED
        BY <3>1, <4>1
    <3>4. CASE FinishEffect(d)
      <4>1. PICK result : callers' = [callers EXCEPT ![d] =
                 AnsweredCaller(callers[d].request, callers[d].status, result)]
        BY <3>4 DEF FinishEffect
      <4>2. callers[d].status # "replay"
        BY <2>2, <3>4 DEF FinishEffect, Statuses
      <4> QED
        BY <3>1, <4>1, <4>2 DEF AnsweredCaller
    <3>5. CASE FinishRejected(d) \/ AbandonEffect(d)
      <4>1. callers' = [callers EXCEPT ![d] = AnsweredCaller(callers[d].request, "rejected", NoResult)]
        BY <1>0, <3>5 DEF FinishRejected, AbandonEffect
      <4> QED
        BY <3>1, <4>1 DEF AnsweredCaller
    <3> QED
      BY <2>1, <3>2, <3>3, <3>4, <3>5
  <2>4. PICK t \in Tenants, k \in Keys, f \in Requests :
          \/ callers' = [callers EXCEPT ![c] =
                           [stage |-> "invoking", tenant |-> t, key |-> k, request |-> f]]
          \/ /\ effects[t][k] # NoEffect
             /\ callers' = [callers EXCEPT ![c] = LeaseAnswer(effects[t][k], f)]
    BY <2>3 DEF InvokeEffect, KeyIsFree
  <2>5. /\ effects[t][k] # NoEffect
        /\ callers'[c] = LeaseAnswer(effects[t][k], f)
    BY <1>0, <2>4
  <2>6. /\ effects[t][k].fingerprint = f /\ ~effects[t][k].pending
        /\ callers'[c] = AnsweredCaller(f, "replay", effects[t][k].result)
    BY <2>5 DEF LeaseAnswer, AnsweredCaller
  <2>7. GoodEntry(effects[t][k])
    BY DEF GoodEffects
  <2> QED
    BY <2>5, <2>6, <2>7 DEF GoodEntry, AnsweredCaller
<1> QED
  BY <1>1, <1>2

(* Every recorded and replayed answer belongs to its request.              *)
LEMMA EffectInvariant == StoreSpec => []EffectInv
<1>1. StoreInit => EffectInv
  <2> SUFFICES ASSUME StoreInit PROVE GoodEffects /\ GoodReplays
    BY DEF EffectInv
  <2>1. DOMAIN backups = {}
    BY DEF StoreInit
  <2>2. GoodEffects
    BY <2>1 DEF StoreInit, GoodEffects, GoodEntry, IdleAdmin
  <2>3. GoodReplays
    BY DEF StoreInit, GoodReplays, AnsweredCaller
  <2> QED
    BY <2>2, <2>3
<1>2. EffectInv /\ IdInv /\ [StoreNext]_allVars => EffectInv'
  <2>1. [StoreNext]_allVars => adapter' = adapter
    BY DEF StoreNext, allVars, ReadDocument, CommitRefused, CommitAccepted, InvokeEffect, RunEffect,
           FinishEffect, FinishRejected, AbandonEffect, StartBackup, FinishBackup, StartRestore,
           RestoreRefused, ApplyRestore, AbandonRecovery
  <2> QED
    BY <2>1, GoodEffectsStep, GoodReplaysStep DEF EffectInv
<1> QED
  BY <1>1, <1>2, IdInvariant, PTL DEF StoreSpec

(* A key of the SQLite store answers a request only with a result that the *)
(* same request produced, whatever completes late and whatever a restore   *)
(* puts in its place.                                                      *)
THEOREM ReplaysCorrect == StoreSpec => []SqliteReplayMatchesRequest
<1>1. EffectInv => SqliteReplayMatchesRequest
  <2> SUFFICES ASSUME GoodEffects, GoodReplays PROVE ReplayMatchesRequest
    BY DEF EffectInv, SqliteReplayMatchesRequest
  <2>1. ASSUME NEW t \in Tenants, NEW k \in Keys, effects[t][k].result # NoResult
        PROVE  effects[t][k].result.request = effects[t][k].fingerprint
    <3>1. GoodEntry(effects[t][k])
      BY DEF GoodEffects
    <3>2. NoEffect.result = NoResult
      BY DEF NoEffect
    <3> QED
      BY <2>1, <3>1, <3>2 DEF GoodEntry, Entries
  <2> QED
    BY <2>1 DEF ReplayMatchesRequest, GoodReplays
<1> QED
  BY <1>1, EffectInvariant, PTL

(* A result that the SQLite store has stored stays the result of its key   *)
(* until its tenant is restored: no completion and no new request can      *)
(* replace it.                                                             *)
THEOREM ResultsAreFinal == StoreSpec => ResultsFinal
<1>1. IdInv /\ EffectInv /\ [StoreNext]_allVars =>
        [adapter = "sqlite" =>
           \A t \in Tenants, k \in Keys :
             effects[t][k].result # NoResult /\ restores'[t] = restores[t] =>
               effects'[t][k] = effects[t][k]]_allVars
  <2> SUFFICES ASSUME IdInv, EffectInv, [StoreNext]_allVars, adapter = "sqlite",
                      NEW t \in Tenants, NEW k \in Keys,
                      effects[t][k].result # NoResult, restores'[t] = restores[t]
               PROVE  effects'[t][k] = effects[t][k]
    OBVIOUS
  <2>0. /\ effects \in [Tenants -> [Keys -> Entries]]
        /\ restores \in [Tenants -> 0..MaxRestores]
    BY DEF IdInv, Types
  <2>1. GoodEntry(effects[t][k])
    BY DEF EffectInv, GoodEffects
  <2>2. effects[t][k] # NoEffect /\ ~effects[t][k].pending
    <3>1. NoEffect.result = NoResult
      BY DEF NoEffect
    <3> QED
      BY <2>0, <2>1, <3>1 DEF GoodEntry, Entries
  <2>3. ASSUME NEW c \in Callers, InvokeEffect(c)
        PROVE  effects'[t][k] = effects[t][k]
    BY <2>0, <2>2, <2>3 DEF InvokeEffect, KeyIsFree
  <2>4. ASSUME NEW c \in Callers, FinishEffect(c)
        PROVE  effects'[t][k] = effects[t][k]
    BY <2>2, <2>4, Completed DEF IdInv
  <2>5. ASSUME NEW a \in Admins, ApplyRestore(a)
        PROVE  effects'[t][k] = effects[t][k]
    <3>1. admins[a].tenant \in Tenants
      BY <2>5, BusyAdmin DEF ApplyRestore, IdInv
    <3>2. admins[a].tenant # t
      BY <2>0, <2>5, <3>1, BoundAssumption DEF ApplyRestore
    <3> QED
      BY <2>0, <2>5, <3>1, <3>2 DEF ApplyRestore
  <2> QED
    BY <2>3, <2>4, <2>5
    DEF StoreNext, allVars, storeVars, ReadDocument, CommitRefused, CommitAccepted, RunEffect,
        FinishRejected, AbandonEffect, StartBackup, FinishBackup, StartRestore, RestoreRefused,
        AbandonRecovery
<1> QED
  BY <1>1, IdInvariant, EffectInvariant, PTL DEF StoreSpec, ResultsFinal


-----------------------------------------------------------------------------
(* Side effects.  A key that is free, a handler that runs and a side       *)
(* effect performed share one permission, and each restore gives another.  *)

Invoking(t, k) ==
  {c \in Callers : callers[c].stage = "invoking" /\ callers[c].tenant = t /\ callers[c].key = k}

Free(t, k) == IF effects[t][k] = NoEffect THEN 1 ELSE 0

Permitted(t, k) ==
  /\ IsFiniteSet(Invoking(t, k))
  /\ performed[t][k] + Cardinality(Invoking(t, k)) + Free(t, k) <= 1 + restores[t]

PermittedEffects == \A t \in Tenants, k \in Keys : Permitted(t, k)

(* A step that performs nothing, starts nothing and frees nothing.         *)
LEMMA PermittedKept ==
  ASSUME Types, NEW t \in Tenants, NEW k \in Keys, Permitted(t, k),
         performed'[t][k] = performed[t][k], restores'[t] = restores[t],
         Invoking(t, k)' \subseteq Invoking(t, k),
         effects'[t][k] = NoEffect => effects[t][k] = NoEffect
  PROVE  Permitted(t, k)'
<1>1. /\ IsFiniteSet(Invoking(t, k)') /\ Cardinality(Invoking(t, k)') \in Nat
      /\ Cardinality(Invoking(t, k)) \in Nat
      /\ Cardinality(Invoking(t, k)') <= Cardinality(Invoking(t, k))
  BY FS_Subset, FS_CardinalityType DEF Permitted
<1>2. performed[t][k] \in Nat /\ restores[t] \in Nat
  BY BoundAssumption DEF Types
<1> QED
  BY <1>1, <1>2 DEF Permitted, Free

(* A step runs a handler only if its key permits one more run.             *)
LEMMA PermittedStep ==
  ASSUME Types, PermittedEffects, [StoreNext]_allVars
  PROVE  PermittedEffects'
<1> SUFFICES ASSUME NEW t \in Tenants, NEW k \in Keys PROVE Permitted(t, k)'
  BY DEF PermittedEffects
<1>0. /\ Permitted(t, k) /\ IsFiniteSet(Invoking(t, k))
      /\ Cardinality(Invoking(t, k)) \in Nat
      /\ performed[t][k] \in Nat /\ restores[t] \in Nat
  BY BoundAssumption, FS_CardinalityType DEF PermittedEffects, Permitted, Types
<1>a. /\ callers \in [Callers -> CallerStates] /\ effects \in [Tenants -> [Keys -> Entries]]
      /\ performed \in [Tenants -> [Keys -> Nat]] /\ restores \in [Tenants -> 0..MaxRestores]
  BY DEF Types
<1>1. CASE UNCHANGED <<callers, effects, performed, restores>>
  BY <1>0, <1>1, PermittedKept DEF Invoking
<1>2. ASSUME NEW c \in Callers, InvokeEffect(c)
      PROVE  Permitted(t, k)'
  <2>1. PICK u \in Tenants, l \in Keys, f \in Requests :
          \/ /\ effects[u][l] = NoEffect
             /\ effects' = [effects EXCEPT ![u][l] = PendingEffect(f)]
             /\ callers' = [callers EXCEPT ![c] =
                             [stage |-> "invoking", tenant |-> u, key |-> l, request |-> f]]
          \/ /\ callers' = [callers EXCEPT ![c] = LeaseAnswer(effects[u][l], f)]
             /\ UNCHANGED effects
    BY <1>2 DEF InvokeEffect, KeyIsFree
  <2>2. UNCHANGED <<performed, restores>> /\ callers[c].stage = "answered"
    BY <1>2 DEF InvokeEffect, historyVars
  <2>3. CASE UNCHANGED effects /\ callers' = [callers EXCEPT ![c] = LeaseAnswer(effects[u][l], f)]
    <3>1. LeaseAnswer(effects[u][l], f).stage = "answered"
      BY DEF LeaseAnswer, AnsweredCaller
    <3>2. Invoking(t, k)' \subseteq Invoking(t, k)
      BY <1>a, <2>3, <3>1 DEF Invoking
    <3> QED
      BY <1>0, <2>2, <2>3, <3>2, PermittedKept
  <2>4. CASE /\ effects[u][l] = NoEffect
             /\ effects' = [effects EXCEPT ![u][l] = PendingEffect(f)]
             /\ callers' = [callers EXCEPT ![c] =
                             [stage |-> "invoking", tenant |-> u, key |-> l, request |-> f]]
    <3>1. PendingEffect(f) # NoEffect
      BY NoRequestAssumption DEF PendingEffect, NoEffect
    <3>2. CASE t = u /\ k = l
      <4>1. Invoking(t, k)' = Invoking(t, k) \cup {c} /\ c \notin Invoking(t, k)
        BY <1>a, <2>2, <2>4, <3>2 DEF Invoking
      <4>2. /\ IsFiniteSet(Invoking(t, k)')
            /\ Cardinality(Invoking(t, k)') = Cardinality(Invoking(t, k)) + 1
        BY <1>0, <4>1, FS_AddElement
      <4>3. Free(t, k) = 1 /\ Free(t, k)' = 0
        BY <1>a, <2>4, <3>1, <3>2 DEF Free
      <4> QED
        BY <1>0, <2>2, <4>2, <4>3 DEF Permitted
    <3>3. CASE t # u \/ k # l
      <4>1. Invoking(t, k)' = Invoking(t, k) /\ effects'[t][k] = effects[t][k]
        BY <1>a, <2>2, <2>4, <3>3 DEF Invoking
      <4> QED
        BY <1>0, <2>2, <4>1, PermittedKept
    <3> QED
      BY <3>2, <3>3
  <2> QED
    BY <2>1, <2>3, <2>4
<1>3. ASSUME NEW c \in Callers, RunEffect(c)
      PROVE  Permitted(t, k)'
  <2> DEFINE u == callers[c].tenant
             l == callers[c].key
  <2>1. /\ UNCHANGED <<effects, restores>> /\ callers[c].stage = "invoking"
        /\ u \in Tenants /\ l \in Keys
        /\ \/ performed' = performed
           \/ performed' = [performed EXCEPT ![u][l] = @ + 1]
    BY <1>3, InProgressCaller DEF RunEffect, storeVars
  <2>2. \E state : callers' = [callers EXCEPT ![c] = state] /\ state.stage = "finishing"
    <3>1. PICK outcome \in {"succeeded", "failed"} :
            callers' = [callers EXCEPT ![c] =
                          [stage |-> "finishing", tenant |-> @.tenant, key |-> @.key,
                           request |-> @.request, status |-> outcome]]
      BY <1>3 DEF RunEffect
    <3> DEFINE state == [stage |-> "finishing", tenant |-> u, key |-> l,
                         request |-> callers[c].request, status |-> outcome]
    <3>2. callers' = [callers EXCEPT ![c] = state] /\ state.stage = "finishing"
      BY <3>1
    <3> QED
      BY <3>2
  <2>3. CASE t = u /\ k = l
    <3>1. Invoking(t, k)' = Invoking(t, k) \ {c} /\ c \in Invoking(t, k)
      BY <1>a, <2>1, <2>2, <2>3 DEF Invoking
    <3>2. /\ IsFiniteSet(Invoking(t, k)')
          /\ Cardinality(Invoking(t, k)') = Cardinality(Invoking(t, k)) - 1
      BY <1>0, <3>1, FS_RemoveElement
    <3>3. performed'[t][k] \in {performed[t][k], performed[t][k] + 1}
      BY <1>a, <2>1, <2>3
    <3>4. Free(t, k)' = Free(t, k) /\ Free(t, k) \in Nat
      BY <2>1 DEF Free
    <3> QED
      BY <1>0, <2>1, <3>2, <3>3, <3>4 DEF Permitted
  <2>4. CASE t # u \/ k # l
    <3>1. Invoking(t, k)' \subseteq Invoking(t, k) /\ performed'[t][k] = performed[t][k]
      BY <1>a, <2>1, <2>2, <2>4 DEF Invoking
    <3> QED
      BY <1>0, <2>1, <3>1, PermittedKept
  <2> QED
    BY <2>3, <2>4
<1>4. ASSUME NEW c \in Callers, FinishEffect(c)
      PROVE  Permitted(t, k)'
  <2> DEFINE u == callers[c].tenant
             l == callers[c].key
  <2>1. u \in Tenants /\ l \in Keys /\ callers[c].request \in Requests
    BY <1>4, InProgressCaller DEF FinishEffect
  <2>2. NoEffect.fingerprint = NoRequest
    BY DEF NoEffect
  <2>3. effects[u][l] # NoEffect
    BY <1>4, <2>1, <2>2, NoRequestAssumption DEF FinishEffect, MayFinish
  <2>4. effects'[t][k] = NoEffect => effects[t][k] = NoEffect
    <3>1. effects[u][l] \in [fingerprint : Requests, pending : BOOLEAN, result : Results]
      BY <1>a, <2>1, <2>3 DEF Entries
    <3> DEFINE result == [status |-> callers[c].status, request |-> callers[c].request]
    <3>2. effects' = [effects EXCEPT ![u][l] =
                        [effects[u][l] EXCEPT !.pending = FALSE, !.result = result]]
      BY <1>a, <1>4, <2>1, <3>1 DEF FinishEffect
    <3>3. effects'[u][l].fingerprint \in Requests
      BY <1>a, <2>1, <3>1, <3>2
    <3>4. t # u \/ k # l => effects'[t][k] = effects[t][k]
      BY <1>a, <2>1, <3>2
    <3> QED
      BY <2>2, <3>3, <3>4, NoRequestAssumption
  <2>5. Invoking(t, k)' \subseteq Invoking(t, k)
    BY <1>a, <1>4 DEF FinishEffect, Invoking, AnsweredCaller
  <2> QED
    BY <1>0, <1>4, <2>4, <2>5, PermittedKept DEF FinishEffect, historyVars
<1>5. ASSUME NEW c \in Callers, FinishRejected(c) \/ AbandonEffect(c)
      PROVE  Permitted(t, k)'
  <2>1. Invoking(t, k)' \subseteq Invoking(t, k)
    BY <1>a, <1>5 DEF FinishRejected, AbandonEffect, Invoking, AnsweredCaller
  <2> QED
    BY <1>0, <1>5, <2>1, PermittedKept DEF FinishRejected, AbandonEffect, storeVars, historyVars
<1>6. ASSUME NEW a \in Admins, ApplyRestore(a)
      PROVE  Permitted(t, k)'
  <2>1. /\ admins[a].tenant \in Tenants /\ UNCHANGED <<callers, performed>>
        /\ effects' = [effects EXCEPT ![admins[a].tenant] = admins[a].backup.content.effects]
        /\ restores' = [restores EXCEPT ![admins[a].tenant] = @ + 1]
    BY <1>6, BusyAdmin DEF ApplyRestore
  <2>2. Invoking(t, k)' = Invoking(t, k)
    BY <2>1 DEF Invoking
  <2>3. CASE admins[a].tenant = t
    <3>1. restores'[t] = restores[t] + 1
      BY <1>a, <2>1, <2>3
    <3>2. Free(t, k) \in {0, 1} /\ Free(t, k)' \in {0, 1}
      BY DEF Free
    <3> QED
      BY <1>0, <2>1, <2>2, <3>1, <3>2 DEF Permitted
  <2>4. CASE admins[a].tenant # t
    BY <1>0, <1>a, <2>1, <2>2, <2>4, PermittedKept
  <2> QED
    BY <2>3, <2>4
<1> QED
  BY <1>1, <1>2, <1>3, <1>4, <1>5, <1>6
  DEF StoreNext, allVars, storeVars, historyVars, ReadDocument, CommitRefused, CommitAccepted,
      StartBackup, FinishBackup, StartRestore, RestoreRefused, AbandonRecovery

(* The side effect of a key is performed at most once, and once more for   *)
(* each restore of its tenant, by either store: whatever handlers fail or  *)
(* die, whatever clients retry and however many of them race.              *)
THEOREM EffectsAtMostOnce == StoreSpec => []AtMostOncePerRestore
<1>1. StoreInit => PermittedEffects
  <2> SUFFICES ASSUME StoreInit, NEW t \in Tenants, NEW k \in Keys PROVE Permitted(t, k)
    BY DEF PermittedEffects
  <2>1. Invoking(t, k) = {}
    BY DEF StoreInit, Invoking, AnsweredCaller
  <2> QED
    BY <2>1, FS_EmptySet DEF StoreInit, Permitted, Free
<1>2. Types /\ PermittedEffects /\ [StoreNext]_allVars => PermittedEffects'
  BY PermittedStep
<1>3. Types /\ PermittedEffects => AtMostOncePerRestore
  <2> SUFFICES ASSUME Types, PermittedEffects, NEW t \in Tenants, NEW k \in Keys
               PROVE  performed[t][k] <= 1 + restores[t]
    BY DEF AtMostOncePerRestore
  <2>1. /\ performed[t][k] \in Nat /\ restores[t] \in Nat
        /\ Cardinality(Invoking(t, k)) \in Nat /\ Free(t, k) \in Nat
    BY BoundAssumption, FS_CardinalityType DEF Types, PermittedEffects, Permitted, Free
  <2> QED
    BY <2>1 DEF PermittedEffects, Permitted
<1>4. StoreSpec => []Types
  BY IdInvariant, PTL DEF IdInv
<1> QED
  BY <1>1, <1>2, <1>3, <1>4, PTL DEF StoreSpec


-----------------------------------------------------------------------------
(* Revisions.                                                              *)

\* r is a record of an object that the store, a backup, a client or a backup
\* under way has.
Holds(t, o, r) ==
  \/ r = documents[t][o]
  \/ \E id \in DOMAIN backups : backups[id].tenant = t /\ r = backups[id].content.documents[o]
  \/ \E e \in Editors :
       editors[e].stage = "editing" /\ editors[e].tenant = t /\ editors[e].object = o
       /\ r = editors[e].base
  \/ \E a \in Admins :
       admins[a].stage = "digesting" /\ admins[a].tenant = t /\ r = admins[a].snapshot.documents[o]

PastRevisions ==
  \A t \in Tenants, o \in Objects, r \in Records : Holds(t, o, r) =>
    /\ r.revision < nextRevision[t]
    /\ r.revision = NoRevision => r = NoDocument

OneRecord ==
  \A t \in Tenants, o, p \in Objects, r, s \in Records :
    Holds(t, o, r) /\ Holds(t, p, s) /\ r.revision = s.revision /\ r.revision # NoRevision =>
      o = p /\ r = s

RevisionInv == PastRevisions /\ OneRecord

(* A commit makes one record more.                                         *)
LEMMA CommitHolds ==
  ASSUME Types, NEW e \in Editors, CommitAccepted(e),
         NEW t \in Tenants, NEW o \in Objects, NEW r, Holds(t, o, r)'
  PROVE  \/ Holds(t, o, r)
         \/ /\ t = editors[e].tenant /\ o = editors[e].object
            /\ r = RevisionRecord(t, o, editors[e].base, nextRevision[t])
<1>1. /\ documents \in [Tenants -> [Objects -> Records]]
      /\ editors \in [Editors -> EditorStates]
      /\ editors[e].tenant \in Tenants /\ editors[e].object \in Objects
  BY EditingEditor DEF Types, CommitAccepted
<1>2. CASE r = documents'[t][o]
  <2>1. documents' = [documents EXCEPT ![editors[e].tenant][editors[e].object] =
                        RevisionRecord(editors[e].tenant, editors[e].object, editors[e].base,
                                       nextRevision[editors[e].tenant])]
    BY DEF CommitAccepted
  <2> QED
    BY <1>1, <1>2, <2>1 DEF Holds
<1>3. ASSUME NEW d \in Editors, editors'[d].stage = "editing"
      PROVE  editors'[d] = editors[d]
  BY <1>1, <1>3 DEF CommitAccepted, IdleEditor
<1> QED
  BY <1>2, <1>3 DEF Holds, CommitAccepted

(* Any other step passes records on.                                       *)
LEMMA OtherHolds ==
  ASSUME IdInv, [StoreNext]_allVars, ~\E e \in Editors : CommitAccepted(e),
         NEW t \in Tenants, NEW o \in Objects, NEW r, Holds(t, o, r)'
  PROVE  Holds(t, o, r)
<1>0. /\ documents \in [Tenants -> [Objects -> Records]]
      /\ editors \in [Editors -> EditorStates] /\ admins \in [Admins -> AdminStates]
  BY DEF IdInv, Types
<1>1. CASE r = documents'[t][o]
  <2>1. CASE UNCHANGED documents
    BY <1>1, <2>1 DEF Holds
  <2>2. ASSUME NEW a \in Admins, ApplyRestore(a)
        PROVE  Holds(t, o, r)
    <3>1. /\ admins[a].id \in DOMAIN backups
          /\ backups[admins[a].id].tenant = admins[a].tenant
          /\ admins[a].backup = backups[admins[a].id]
      BY <2>2 DEF ApplyRestore, IdInv, VerifiedBackups, OwnedBackup
    <3>2. documents' = [documents EXCEPT ![admins[a].tenant] =
                          backups[admins[a].id].content.documents]
      BY <2>2, <3>1 DEF ApplyRestore
    <3> QED
      BY <1>0, <1>1, <3>1, <3>2 DEF Holds
  <2> QED
    BY <2>1, <2>2
    DEF StoreNext, allVars, storeVars, ReadDocument, CommitRefused, InvokeEffect, RunEffect,
        FinishEffect, FinishRejected, AbandonEffect, StartBackup, FinishBackup, StartRestore,
        RestoreRefused, AbandonRecovery
<1>2. ASSUME NEW id \in DOMAIN backups', backups'[id].tenant = t,
             r = backups'[id].content.documents[o]
      PROVE  Holds(t, o, r)
  <2>1. CASE id \in DOMAIN backups
    <3>1. backups'[id] = backups[id]
      BY <2>1, BackupsKept
    <3> QED
      BY <1>2, <2>1, <3>1 DEF Holds
  <2>2. CASE id \notin DOMAIN backups
    <3>1. PICK a \in Admins : FinishBackup(a) /\ id = BackupId(a)
      BY <2>2, BackupsStep
    <3>2. /\ admins[a].stage = "digesting"
          /\ backups'[id].tenant = admins[a].tenant
          /\ backups'[id].content = BackupContent(a)
      BY <3>1 DEF FinishBackup
    <3>3. BackupContent(a).documents \in {documents[t], admins[a].snapshot.documents}
      BY <1>2, <3>2 DEF BackupContent, Snapshot
    <3> QED
      BY <1>2, <3>2, <3>3 DEF Holds
  <2> QED
    BY <2>1, <2>2
<1>3. ASSUME NEW e \in Editors, editors'[e].stage = "editing",
             editors'[e].tenant = t, editors'[e].object = o, r = editors'[e].base
      PROVE  Holds(t, o, r)
  <2>1. CASE editors'[e] = editors[e]
    BY <1>3, <2>1 DEF Holds
  <2>2. CASE editors'[e] # editors[e]
    <3>1. PICK d \in Editors : ReadDocument(d) \/ CommitRefused(d)
      BY <2>2
      DEF StoreNext, allVars, InvokeEffect, RunEffect, FinishEffect, FinishRejected, AbandonEffect,
          StartBackup, FinishBackup, StartRestore, RestoreRefused, ApplyRestore, AbandonRecovery
    <3>2. ReadDocument(d) /\ d = e
      BY <1>0, <1>3, <2>2, <3>1 DEF ReadDocument, CommitRefused, IdleEditor
    <3>3. PICK u \in Tenants, p \in Objects :
            editors' = [editors EXCEPT ![e] =
                          [stage |-> "editing", tenant |-> u, object |-> p,
                           base |-> documents[u][p]]]
      BY <3>2 DEF ReadDocument
    <3>4. u = t /\ p = o /\ r = documents[u][p]
      BY <1>0, <1>3, <3>3
    <3> QED
      BY <3>4 DEF Holds
  <2> QED
    BY <2>1, <2>2
<1>4. ASSUME NEW a \in Admins, admins'[a].stage = "digesting", admins'[a].tenant = t,
             r = admins'[a].snapshot.documents[o]
      PROVE  Holds(t, o, r)
  <2>1. CASE admins'[a] = admins[a]
    BY <1>4, <2>1 DEF Holds
  <2>2. CASE admins'[a] # admins[a]
    <3>1. PICK b \in Admins :
            \/ StartBackup(b) \/ FinishBackup(b)
            \/ StartRestore(b) \/ RestoreRefused(b) \/ ApplyRestore(b)
            \/ AbandonRecovery(b)
      BY <2>2, RecoverySteps
    <3>2. StartBackup(b) /\ a = b
      BY <1>0, <1>4, <2>2, <3>1
      DEF StartBackup, FinishBackup, StartRestore, RestoreRefused, ApplyRestore, AbandonRecovery,
          IdleAdmin
    <3>3. admins'[a].snapshot.documents = documents[admins'[a].tenant]
      BY <1>0, <3>2 DEF StartBackup, Snapshot
    <3> QED
      BY <1>4, <3>3 DEF Holds
  <2> QED
    BY <2>1, <2>2
<1> QED
  BY <1>1, <1>2, <1>3, <1>4 DEF Holds

(* Only a commit takes a revision number.                                  *)
LEMMA OtherRevisions ==
  ASSUME Types, [StoreNext]_allVars, ~\E e \in Editors : CommitAccepted(e)
  PROVE  nextRevision' = nextRevision
<1>1. ASSUME NEW a \in Admins, ApplyRestore(a)
      PROVE  nextRevision' = nextRevision
  <2>1. nextRevision' = [nextRevision EXCEPT ![admins[a].tenant] = nextRevision[admins[a].tenant]]
    BY <1>1 DEF ApplyRestore, RevisionAfterRestore
  <2> QED
    BY <2>1 DEF Types
<1> QED
  BY <1>1
  DEF StoreNext, allVars, storeVars, ReadDocument, CommitRefused, InvokeEffect, RunEffect,
      FinishEffect, FinishRejected, AbandonEffect, StartBackup, FinishBackup, StartRestore,
      RestoreRefused, AbandonRecovery

(* Every step keeps records in the past and one to a revision.             *)
LEMMA RevisionStep ==
  ASSUME IdInv, RevisionInv, [StoreNext]_allVars
  PROVE  RevisionInv'
<1>0. nextRevision \in [Tenants -> 1..(MaxRevision + 1)]
  BY DEF IdInv, Types
<1>1. CASE ~\E e \in Editors : CommitAccepted(e)
  <2>1. nextRevision' = nextRevision
    BY <1>1, OtherRevisions DEF IdInv
  <2>2. \A t \in Tenants, o \in Objects, r \in Records : Holds(t, o, r)' => Holds(t, o, r)
    BY <1>1, OtherHolds
  <2> QED
    BY <2>1, <2>2 DEF RevisionInv, PastRevisions, OneRecord
<1>2. CASE \E e \in Editors : CommitAccepted(e)
  <2>1. PICK e \in Editors : CommitAccepted(e)
    BY <1>2
  <2> DEFINE T == editors[e].tenant
             O == editors[e].object
             new == RevisionRecord(T, O, editors[e].base, nextRevision[T])
  <2>2. T \in Tenants /\ O \in Objects
    BY <2>1, EditingEditor DEF IdInv, CommitAccepted
  <2>3. \A t \in Tenants, o \in Objects, r \in Records :
          Holds(t, o, r)' => Holds(t, o, r) \/ (t = T /\ o = O /\ r = new)
    BY <2>1, CommitHolds DEF IdInv
  <2>4. new.revision = nextRevision[T]
    BY DEF RevisionRecord
  <2>5. /\ nextRevision' = [nextRevision EXCEPT ![T] = @ + 1]
        /\ \A t \in Tenants : nextRevision[t] \in Nat \ {0}
    BY <1>0, <2>1, BoundAssumption DEF CommitAccepted
  <2>6. \A r \in Records : r.revision \in Nat
    BY BoundAssumption DEF Records
  <2>7. PastRevisions'
    <3> SUFFICES ASSUME NEW t \in Tenants, NEW o \in Objects, NEW r \in Records, Holds(t, o, r)'
                 PROVE  /\ r.revision < nextRevision'[t]
                        /\ r.revision = NoRevision => r = NoDocument
      BY DEF PastRevisions
    <3>1. CASE Holds(t, o, r)
      BY <1>0, <2>2, <2>5, <2>6, <3>1 DEF RevisionInv, PastRevisions
    <3>2. CASE t = T /\ o = O /\ r = new
      BY <1>0, <2>2, <2>4, <2>5, <3>2 DEF NoRevision
    <3> QED
      BY <2>3, <3>1, <3>2
  <2>8. OneRecord'
    <3> SUFFICES ASSUME NEW t \in Tenants, NEW o \in Objects, NEW p \in Objects,
                        NEW r \in Records, NEW s \in Records,
                        Holds(t, o, r)', Holds(t, p, s)',
                        r.revision = s.revision, r.revision # NoRevision
                 PROVE  o = p /\ r = s
      BY DEF OneRecord
    <3>1. CASE Holds(t, o, r) /\ Holds(t, p, s)
      BY <3>1 DEF RevisionInv, OneRecord
    <3>2. CASE t = T /\ r = new /\ Holds(t, p, s)
      <4>1. s.revision < nextRevision[t]
        BY <3>2 DEF RevisionInv, PastRevisions
      <4> QED
        BY <2>4, <2>5, <2>6, <3>2, <4>1
    <3>3. CASE t = T /\ s = new /\ Holds(t, o, r)
      <4>1. r.revision < nextRevision[t]
        BY <3>3 DEF RevisionInv, PastRevisions
      <4> QED
        BY <2>4, <2>5, <2>6, <3>3, <4>1
    <3> QED
      BY <2>3, <3>1, <3>2, <3>3
  <2> QED
    BY <2>7, <2>8 DEF RevisionInv
<1> QED
  BY <1>1, <1>2

(* One record belongs to a revision in every behavior.                     *)
LEMMA RevisionInvariant == StoreSpec => []RevisionInv
<1>1. StoreInit => RevisionInv
  <2> SUFFICES ASSUME StoreInit, NEW t \in Tenants, NEW o \in Objects, NEW r, Holds(t, o, r)
               PROVE  r = NoDocument /\ r.revision = NoRevision /\ nextRevision[t] = 1
    BY DEF RevisionInv, PastRevisions, OneRecord, NoRevision
  <2>1. DOMAIN backups = {}
    BY DEF StoreInit
  <2> QED
    BY <2>1 DEF StoreInit, Holds, IdleEditor, IdleAdmin, NoDocument
<1>2. RevisionInv /\ IdInv /\ [StoreNext]_allVars => RevisionInv'
  BY RevisionStep
<1> QED
  BY <1>1, <1>2, IdInvariant, PTL DEF StoreSpec

(* A revision number of a tenant names one record of one object in the     *)
(* documents, the backups and what clients have read, over any restores.   *)
THEOREM RevisionsCorrect == StoreSpec => []RevisionNamesOneRecord
<1>1. IdInv /\ RevisionInv => RevisionNamesOneRecord
  <2> SUFFICES ASSUME IdInv, RevisionInv, NEW t \in Tenants,
                      NEW x \in KnownRecords(t), NEW y \in KnownRecords(t),
                      x[2].revision = y[2].revision, x[2].revision # NoRevision
               PROVE  x = y
    BY DEF RevisionNamesOneRecord
  <2>1. ASSUME NEW z \in KnownRecords(t)
        PROVE  \E o \in Objects, r \in Records : z = <<o, r>> /\ Holds(t, o, r)
    <3>1. CASE \E o \in Objects : z = <<o, documents[t][o]>>
      BY <3>1 DEF Holds, IdInv, Types
    <3>2. CASE \E id \in DOMAIN backups, o \in Objects :
                 backups[id].tenant = t /\ z = <<o, backups[id].content.documents[o]>>
      BY <3>2 DEF Holds, IdInv, Types, Backups, Snapshots
    <3>3. CASE \E e \in Editors : /\ editors[e].stage = "editing" /\ editors[e].tenant = t
                                  /\ z = <<editors[e].object, editors[e].base>>
      <4>1. PICK e \in Editors : /\ editors[e].stage = "editing" /\ editors[e].tenant = t
                                 /\ z = <<editors[e].object, editors[e].base>>
        BY <3>3
      <4>2. editors[e].object \in Objects /\ editors[e].base \in Records
        BY <4>1, EditingEditor DEF IdInv
      <4> QED
        BY <4>1, <4>2 DEF Holds
    <3> QED
      BY <3>1, <3>2, <3>3 DEF KnownRecords
  <2> QED
    BY <2>1 DEF RevisionInv, OneRecord
<1> QED
  BY <1>1, IdInvariant, RevisionInvariant, PTL


(* A commit that is accepted edits the record that the store has.          *)
LEMMA CommitsOnCurrent ==
  ASSUME Types, RevisionInv, NEW e \in Editors, CommitAccepted(e)
  PROVE  editors[e].base = documents[editors[e].tenant][editors[e].object]
<1> DEFINE t == editors[e].tenant
           o == editors[e].object
<1>1. /\ editors[e].stage = "editing" /\ t \in Tenants /\ o \in Objects
      /\ editors[e].base \in Records /\ documents[t][o] \in Records
  BY EditingEditor DEF CommitAccepted, Types
<1>2. Holds(t, o, editors[e].base) /\ Holds(t, o, documents[t][o])
  BY <1>1 DEF Holds
<1>3. documents[t][o].revision = editors[e].base.revision
  BY DEF CommitAccepted, MatchesExpectedRevision
<1> QED
  BY <1>1, <1>2, <1>3 DEF RevisionInv, PastRevisions, OneRecord

(* No accepted edit is lost: a document has every edit accepted since its  *)
(* tenant was last restored, however many clients raced on it and whatever *)
(* was restored while they edited.                                         *)
THEOREM UpdatesKept == StoreSpec => []NoLostUpdate
<1>1. StoreInit => NoLostUpdate
  BY DEF StoreInit, NoLostUpdate, NoDocument
<1>2. NoLostUpdate /\ Types /\ RevisionInv /\ [StoreNext]_allVars => NoLostUpdate'
  <2> SUFFICES ASSUME NoLostUpdate, Types, RevisionInv, [StoreNext]_allVars,
                      NEW t \in Tenants, NEW o \in Objects
               PROVE  accepted'[t][o] \subseteq documents'[t][o].content
    BY DEF NoLostUpdate
  <2>0. /\ documents \in [Tenants -> [Objects -> Records]]
        /\ accepted \in [Tenants -> [Objects -> SUBSET Edits]]
        /\ accepted[t][o] \subseteq documents[t][o].content
    BY DEF Types, NoLostUpdate
  <2>1. CASE UNCHANGED <<documents, accepted>>
    BY <2>0, <2>1
  <2>2. ASSUME NEW e \in Editors, CommitAccepted(e)
        PROVE  accepted'[t][o] \subseteq documents'[t][o].content
    <3> DEFINE u == editors[e].tenant
               p == editors[e].object
               new == RevisionRecord(u, p, documents[u][p], nextRevision[u])
    <3>1. /\ u \in Tenants /\ p \in Objects
          /\ editors[e].base = documents[u][p]
      BY <2>2, EditingEditor, CommitsOnCurrent DEF CommitAccepted
    <3>2. /\ documents' = [documents EXCEPT ![u][p] = new]
          /\ accepted' = [accepted EXCEPT ![u][p] = @ \cup {NewEdit(u)}]
      BY <2>2, <3>1 DEF CommitAccepted
    <3>3. new.content = documents[u][p].content \cup {NewEdit(u)}
      BY DEF RevisionRecord
    <3>4. CASE t = u /\ o = p
      <4>1. documents'[t][o] = new /\ accepted'[t][o] = accepted[t][o] \cup {NewEdit(u)}
        BY <2>0, <3>1, <3>2, <3>4
      <4> QED
        BY <2>0, <3>3, <3>4, <4>1
    <3>5. CASE t # u \/ o # p
      BY <2>0, <3>1, <3>2, <3>5
    <3> QED
      BY <3>4, <3>5
  <2>3. ASSUME NEW a \in Admins, ApplyRestore(a)
        PROVE  accepted'[t][o] \subseteq documents'[t][o].content
    <3>1. admins[a].tenant \in Tenants
      BY <2>3, BusyAdmin DEF ApplyRestore
    <3> QED
      BY <2>0, <2>3, <3>1 DEF ApplyRestore
  <2> QED
    BY <2>1, <2>2, <2>3
    DEF StoreNext, allVars, storeVars, historyVars, ReadDocument, CommitRefused, InvokeEffect, RunEffect,
        FinishEffect, FinishRejected, AbandonEffect, StartBackup, FinishBackup, StartRestore,
        RestoreRefused, AbandonRecovery
<1>3. StoreSpec => []Types
  BY IdInvariant, PTL DEF IdInv
<1> QED
  BY <1>1, <1>2, <1>3, RevisionInvariant, PTL DEF StoreSpec

-----------------------------------------------------------------------------
(* Notifications.                                                          *)

\* m is the largest of a set of positions.
LastIn(S, m) == m \in S /\ \A i \in S : i <= m

RestoredAt(s) == {0} \cup {i \in DOMAIN s : s[i].type = "tenant-restored"}

CommittedAfter(s, m, o) ==
  {i \in (m + 1)..Len(s) : s[i].type = "document-committed" /\ s[i].object = o}

\* bs are backups, s notifications and d documents.
Baseline(bs, s, m, o) ==
  IF m = 0 THEN NoDocument ELSE bs[s[m].backup].content.documents[o]

Accounts(bs, s, d, m, o) ==
  \/ CommittedAfter(s, m, o) = {} /\ d[o] = Baseline(bs, s, m, o)
  \/ \E n \in CommittedAfter(s, m, o) :
       LastIn(CommittedAfter(s, m, o), n) /\ d[o].revision = s[n].revision

\* The notifications account for the documents since the restore at m.
Accounted(bs, s, d, m) ==
  /\ m \in RestoredAt(s) /\ LastIn(RestoredAt(s), m)
  /\ m # 0 => s[m].backup \in DOMAIN bs
  /\ \A o \in Objects : Accounts(bs, s, d, m, o)

FeedInv == \A t \in Tenants : \E m : Accounted(backups, feed[t], documents[t], m)

(* The greatest number of a set is what Max chooses.                       *)
LEMMA MaxIs ==
  ASSUME NEW S \in SUBSET Nat, NEW m, LastIn(S, m)
  PROVE  Max(S) = m
<1>1. \A x \in S : (\A y \in S : x >= y) => x = m
  BY DEF LastIn
<1>2. m \in S /\ \A y \in S : m >= y
  BY DEF LastIn
<1> QED
  BY <1>1, <1>2 DEF Max

(* A notification that is no restore leaves the last restore.              *)
LEMMA AppendedOther ==
  ASSUME NEW s \in Seq(Messages), NEW message \in Messages, message.type # "tenant-restored",
         NEW m \in RestoredAt(s)
  PROVE  /\ RestoredAt(Append(s, message)) = RestoredAt(s)
         /\ m \in Nat /\ m <= Len(s)
         /\ \A i \in 1..Len(s) : Append(s, message)[i] = s[i]
         /\ message.type # "document-committed" =>
              \A o \in Objects : CommittedAfter(Append(s, message), m, o) = CommittedAfter(s, m, o)
         /\ message.type = "document-committed" =>
              \A o \in Objects :
                CommittedAfter(Append(s, message), m, o) =
                  CommittedAfter(s, m, o) \cup
                    (IF o = message.object THEN {Len(s) + 1} ELSE {})
<1>1. /\ DOMAIN s = 1..Len(s) /\ Len(s) \in Nat
      /\ Len(Append(s, message)) = Len(s) + 1
      /\ DOMAIN Append(s, message) = 1..(Len(s) + 1)
      /\ Append(s, message)[Len(s) + 1] = message
      /\ \A i \in 1..Len(s) : Append(s, message)[i] = s[i]
  OBVIOUS
<1>2. m \in Nat /\ m <= Len(s)
  BY <1>1 DEF RestoredAt
<1>3. RestoredAt(Append(s, message)) = RestoredAt(s)
  BY <1>1 DEF RestoredAt
<1>4. ASSUME NEW o \in Objects, message.type # "document-committed"
      PROVE  CommittedAfter(Append(s, message), m, o) = CommittedAfter(s, m, o)
  BY <1>1, <1>2, <1>4 DEF CommittedAfter
<1>5. ASSUME NEW o \in Objects, message.type = "document-committed"
      PROVE  CommittedAfter(Append(s, message), m, o) =
               CommittedAfter(s, m, o) \cup (IF o = message.object THEN {Len(s) + 1} ELSE {})
  BY <1>1, <1>2, <1>5 DEF CommittedAfter
<1> QED
  BY <1>1, <1>2, <1>3, <1>4, <1>5


(* A restore starts the account anew.                                      *)
LEMMA AppendedRestore ==
  ASSUME NEW s \in Seq(Messages), NEW id \in Ids
  PROVE  LET r == Append(s, TenantRestored(id))
         IN  /\ LastIn(RestoredAt(r), Len(s) + 1)
             /\ Len(s) + 1 # 0 /\ r[Len(s) + 1].backup = id
             /\ \A o \in Objects : CommittedAfter(r, Len(s) + 1, o) = {}
<1> DEFINE r == Append(s, TenantRestored(id))
<1>1. /\ Len(s) \in Nat /\ Len(r) = Len(s) + 1 /\ DOMAIN r = 1..(Len(s) + 1)
      /\ r[Len(s) + 1] = TenantRestored(id)
  BY DEF TenantRestored, Messages
<1>2. Len(s) + 1 \in RestoredAt(r)
  BY <1>1 DEF RestoredAt, TenantRestored
<1>3. \A i \in RestoredAt(r) : i <= Len(s) + 1
  BY <1>1 DEF RestoredAt
<1>4. \A o \in Objects : CommittedAfter(r, Len(s) + 1, o) = {}
  BY <1>1 DEF CommittedAfter
<1>5. r[Len(s) + 1].backup = id
  BY <1>1 DEF TenantRestored
<1> QED
  BY <1>1, <1>2, <1>3, <1>4, <1>5 DEF LastIn

(* New backups change no account.                                          *)
LEMMA AccountedKept ==
  ASSUME NEW bs, NEW cs, NEW s, NEW d, NEW m, Accounted(bs, s, d, m),
         \A id \in DOMAIN bs : id \in DOMAIN cs /\ cs[id] = bs[id]
  PROVE  Accounted(cs, s, d, m)
<1>1. m # 0 => s[m].backup \in DOMAIN cs /\ cs[s[m].backup] = bs[s[m].backup]
  BY DEF Accounted
<1>2. \A o \in Objects : Baseline(cs, s, m, o) = Baseline(bs, s, m, o)
  BY <1>1 DEF Baseline
<1> QED
  BY <1>1, <1>2 DEF Accounted, Accounts

(* A completion adds a notification that accounts for no document.         *)
LEMMA AccountedCompletion ==
  ASSUME NEW bs, NEW s \in Seq(Messages), NEW d, NEW m, Accounted(bs, s, d, m),
         NEW message \in Messages, message.type = "effect-completed"
  PROVE  Accounted(bs, Append(s, message), d, m)
<1> DEFINE r == Append(s, message)
<1>1. m \in RestoredAt(s)
  BY DEF Accounted
<1>2. /\ RestoredAt(r) = RestoredAt(s)
      /\ m \in Nat /\ m <= Len(s)
      /\ \A i \in 1..Len(s) : r[i] = s[i]
      /\ \A o \in Objects : CommittedAfter(r, m, o) = CommittedAfter(s, m, o)
  <2>1. message.type # "tenant-restored" /\ message.type # "document-committed"
    OBVIOUS
  <2> QED
    BY <1>1, <2>1, AppendedOther
<1>3. m # 0 => r[m] = s[m]
  BY <1>2
<1>4. \A o \in Objects : \A n \in CommittedAfter(s, m, o) : r[n] = s[n]
  BY <1>2 DEF CommittedAfter
<1> HIDE DEF r
<1>5. \A o \in Objects : Baseline(bs, r, m, o) = Baseline(bs, s, m, o)
  BY <1>3 DEF Baseline
<1>6. Accounted(bs, r, d, m)
  BY <1>2, <1>3, <1>4, <1>5 DEF Accounted, Accounts
<1> QED
  BY <1>6 DEF r

(* A commit adds the notification of its revision.                         *)
LEMMA AccountedCommit ==
  ASSUME NEW bs, NEW s \in Seq(Messages), NEW d, NEW m, Accounted(bs, s, d, m),
         NEW p \in Objects, NEW message \in Messages,
         message.type = "document-committed", message.object = p,
         NEW e, e[p].revision = message.revision, \A o \in Objects : o # p => e[o] = d[o]
  PROVE  Accounted(bs, Append(s, message), e, m)
<1> DEFINE r == Append(s, message)
<1>1. m \in RestoredAt(s)
  BY DEF Accounted
<1>2. /\ RestoredAt(r) = RestoredAt(s)
      /\ m \in Nat /\ m <= Len(s) /\ Len(s) \in Nat
      /\ \A i \in 1..Len(s) : r[i] = s[i]
      /\ \A o \in Objects :
           CommittedAfter(r, m, o) =
             CommittedAfter(s, m, o) \cup (IF o = p THEN {Len(s) + 1} ELSE {})
  BY <1>1, AppendedOther
<1>3. m # 0 => r[m] = s[m]
  BY <1>2
<1>4. r[Len(s) + 1] = message
  OBVIOUS
<1> HIDE DEF r
<1>5. ASSUME NEW o \in Objects, o # p
      PROVE  Accounts(bs, r, e, m, o)
  <2>1. CommittedAfter(r, m, o) = CommittedAfter(s, m, o)
    BY <1>2, <1>5
  <2>2. \A n \in CommittedAfter(s, m, o) : r[n] = s[n]
    BY <1>2 DEF CommittedAfter
  <2>3. Baseline(bs, r, m, o) = Baseline(bs, s, m, o)
    BY <1>3 DEF Baseline
  <2>4. Accounts(bs, s, d, m, o)
    BY DEF Accounted
  <2> QED
    BY <1>5, <2>1, <2>2, <2>3, <2>4 DEF Accounts
<1>6. Accounts(bs, r, e, m, p)
  <2>1. CommittedAfter(r, m, p) = CommittedAfter(s, m, p) \cup {Len(s) + 1}
    BY <1>2
  <2>2. \A i \in CommittedAfter(s, m, p) : i <= Len(s) + 1
    BY <1>2 DEF CommittedAfter
  <2>3. LastIn(CommittedAfter(r, m, p), Len(s) + 1)
    BY <1>2, <2>1, <2>2 DEF LastIn
  <2> QED
    BY <1>4, <2>3 DEF Accounts, LastIn
<1>7. Accounted(bs, r, e, m)
  BY <1>2, <1>3, <1>5, <1>6 DEF Accounted
<1> QED
  BY <1>7 DEF r

(* A restore makes its backup the new baseline.                            *)
LEMMA AccountedRestore ==
  ASSUME NEW bs, NEW s \in Seq(Messages), NEW id \in Ids, id \in DOMAIN bs
  PROVE  Accounted(bs, Append(s, TenantRestored(id)), bs[id].content.documents, Len(s) + 1)
<1> DEFINE r == Append(s, TenantRestored(id))
           m == Len(s) + 1
<1>1. /\ LastIn(RestoredAt(r), m)
      /\ m # 0 /\ r[m].backup = id
      /\ \A o \in Objects : CommittedAfter(r, m, o) = {}
  BY AppendedRestore
<1> HIDE DEF r, m
<1>2. \A o \in Objects : Baseline(bs, r, m, o) = bs[id].content.documents[o]
  BY <1>1 DEF Baseline
<1>3. Accounted(bs, r, bs[id].content.documents, m)
  BY <1>1, <1>2 DEF Accounted, Accounts, LastIn
<1> QED
  BY <1>3 DEF r, m

(* Every step keeps the account of the documents.                          *)
LEMMA FeedStep ==
  ASSUME IdInv, FeedInv, [StoreNext]_allVars
  PROVE  FeedInv'
<1> SUFFICES ASSUME NEW t \in Tenants
             PROVE  \E m : Accounted(backups', feed'[t], documents'[t], m)
  BY DEF FeedInv
<1>0. /\ feed \in [Tenants -> Seq(Messages)]
      /\ documents \in [Tenants -> [Objects -> Records]]
  BY DEF IdInv, Types
<1>1. PICK m : Accounted(backups, feed[t], documents[t], m)
  BY DEF FeedInv
<1>2. CASE feed'[t] = feed[t] /\ documents'[t] = documents[t]
  <2>1. \A id \in DOMAIN backups : id \in DOMAIN backups' /\ backups'[id] = backups[id]
    BY BackupsKept
  <2> QED
    BY <1>1, <1>2, <2>1, AccountedKept
<1>3. ASSUME NEW c \in Callers, FinishEffect(c)
      PROVE  \E n : Accounted(backups', feed'[t], documents'[t], n)
  <2> DEFINE u == callers[c].tenant
             message == EffectCompleted(callers[c].key, callers[c].status)
  <2>1. /\ u \in Tenants /\ message \in Messages /\ message.type = "effect-completed"
    BY <1>3, InProgressCaller DEF FinishEffect, IdInv, EffectCompleted, Messages
  <2>2. /\ UNCHANGED <<documents, backups>>
        /\ feed' = [feed EXCEPT ![u] = Append(@, message)]
    BY <1>3 DEF FinishEffect, Notify
  <2> HIDE DEF message
  <2>3. CASE t = u
    <3>1. feed'[t] = Append(feed[t], message)
      BY <1>0, <2>2, <2>3
    <3> QED
      BY <1>0, <1>1, <2>1, <2>2, <3>1, AccountedCompletion
  <2>4. CASE t # u
    BY <1>0, <1>2, <2>2, <2>4
  <2> QED
    BY <2>3, <2>4
<1>4. ASSUME NEW e \in Editors, CommitAccepted(e)
      PROVE  \E n : Accounted(backups', feed'[t], documents'[t], n)
  <2> DEFINE u == editors[e].tenant
             p == editors[e].object
             message == DocumentCommitted(p, nextRevision[u])
             new == RevisionRecord(u, p, editors[e].base, nextRevision[u])
  <2>1. u \in Tenants /\ p \in Objects /\ nextRevision[u] \in 1..MaxRevision
    BY <1>4, EditingEditor DEF CommitAccepted, IdInv, Types
  <2>2. /\ message \in Messages /\ message.type = "document-committed"
        /\ message.object = p /\ message.revision = new.revision
    BY <2>1 DEF DocumentCommitted, Messages, RevisionRecord
  <2>3. /\ UNCHANGED backups
        /\ feed' = [feed EXCEPT ![u] = Append(@, message)]
        /\ documents' = [documents EXCEPT ![u][p] = new]
    BY <1>4 DEF CommitAccepted, Notify
  <2> HIDE DEF message, new
  <2>4. CASE t = u
    <3>1. /\ feed'[t] = Append(feed[t], message)
          /\ documents'[t][p] = new
          /\ \A o \in Objects : o # p => documents'[t][o] = documents[t][o]
      BY <1>0, <2>1, <2>3, <2>4
    <3>2. documents'[t][p].revision = message.revision /\ feed[t] \in Seq(Messages)
      BY <1>0, <2>2, <3>1
    <3>3. Accounted(backups, Append(feed[t], message), documents'[t], m)
      BY <1>1, <2>1, <2>2, <3>1, <3>2, AccountedCommit
    <3> QED
      BY <2>3, <3>1, <3>3
  <2>5. CASE t # u
    BY <1>0, <1>2, <2>3, <2>5
  <2> QED
    BY <2>4, <2>5
<1>5. ASSUME NEW a \in Admins, ApplyRestore(a)
      PROVE  \E n : Accounted(backups', feed'[t], documents'[t], n)
  <2> DEFINE u == admins[a].tenant
  <2>1. /\ u \in Tenants /\ admins[a].id \in DOMAIN backups /\ admins[a].id \in Ids
        /\ admins[a].backup = backups[admins[a].id]
    BY <1>5, BusyAdmin DEF ApplyRestore, IdInv, VerifiedBackups, OwnedBackup
  <2>2. /\ UNCHANGED backups
        /\ feed' = [feed EXCEPT ![u] = Append(@, TenantRestored(admins[a].id))]
        /\ documents' = [documents EXCEPT ![u] = backups[admins[a].id].content.documents]
    BY <1>5, <2>1 DEF ApplyRestore, NotifyRestore, Notify
  <2>3. CASE t = u
    <3>1. /\ feed'[t] = Append(feed[t], TenantRestored(admins[a].id))
          /\ documents'[t] = backups[admins[a].id].content.documents
      BY <1>0, <2>2, <2>3
    <3> QED
      BY <1>0, <2>1, <2>2, <3>1, AccountedRestore
  <2>4. CASE t # u
    BY <1>0, <1>2, <2>2, <2>4
  <2> QED
    BY <2>3, <2>4
<1> QED
  BY <1>2, <1>3, <1>4, <1>5
  DEF StoreNext, allVars, storeVars, ReadDocument, CommitRefused, InvokeEffect, RunEffect,
      FinishRejected, AbandonEffect, StartBackup, FinishBackup, StartRestore,
      RestoreRefused, AbandonRecovery

(* The notifications of a tenant account for its documents: a client that  *)
(* has heard them all knows of every object the revision the store has, or *)
(* the restore that put it there.                                          *)
THEOREM FeedCorrect == StoreSpec => []FeedAccountsForDocuments
<1>1. StoreInit => FeedInv
  <2> SUFFICES ASSUME StoreInit, NEW t \in Tenants
               PROVE  Accounted(backups, feed[t], documents[t], 0)
    BY DEF FeedInv
  <2>1. feed[t] = << >> /\ \A o \in Objects : documents[t][o] = NoDocument
    BY DEF StoreInit
  <2>2. RestoredAt(feed[t]) = {0}
    BY <2>1 DEF RestoredAt
  <2>3. \A o \in Objects : CommittedAfter(feed[t], 0, o) = {}
    BY <2>1 DEF CommittedAfter
  <2> QED
    BY <2>1, <2>2, <2>3 DEF Accounted, Accounts, Baseline, LastIn
<1>2. FeedInv /\ IdInv /\ [StoreNext]_allVars => FeedInv'
  BY FeedStep
<1>3. FeedInv /\ IdInv => FeedAccountsForDocuments
  <2> SUFFICES ASSUME FeedInv, IdInv, NEW t \in Tenants, NEW o \in Objects,
                      NEW commits, commits = CommitsSinceRestore(t, o)
               PROVE  IF commits = {}
                      THEN documents[t][o] = BaselineDocument(t, o)
                      ELSE documents[t][o].revision = feed[t][Max(commits)].revision
    BY DEF FeedAccountsForDocuments
  <2>1. PICK m : Accounted(backups, feed[t], documents[t], m)
    BY DEF FeedInv
  <2>2. feed[t] \in Seq(Messages) /\ Len(feed[t]) \in Nat /\ DOMAIN feed[t] = 1..Len(feed[t])
    BY DEF IdInv, Types
  <2>3. LastRestore(t) = m /\ m \in Nat
    <3>1. RestoredAt(feed[t]) \in SUBSET Nat
      BY <2>2 DEF RestoredAt
    <3>2. LastIn(RestoredAt(feed[t]), m)
      BY <2>1 DEF Accounted
    <3>3. Max(RestoredAt(feed[t])) = m
      BY <3>1, <3>2, MaxIs
    <3> QED
      BY <3>1, <3>2, <3>3 DEF LastRestore, RestoredAt, LastIn
  <2>4. commits = CommittedAfter(feed[t], m, o)
    BY <2>3 DEF CommitsSinceRestore, CommittedAfter
  <2>5. commits \in SUBSET Nat
    BY <2>2, <2>3, <2>4 DEF CommittedAfter
  <2>6. Accounts(backups, feed[t], documents[t], m, o)
    BY <2>1 DEF Accounted
  <2>7. CASE commits = {}
    BY <2>3, <2>4, <2>6, <2>7 DEF Accounts, Baseline, BaselineDocument
  <2>8. CASE commits # {}
    <3>1. PICK n \in commits : LastIn(commits, n) /\ documents[t][o].revision = feed[t][n].revision
      BY <2>4, <2>6, <2>8 DEF Accounts
    <3>2. Max(commits) = n
      BY <2>5, <3>1, MaxIs
    <3> QED
      BY <2>8, <3>1, <3>2
  <2> QED
    BY <2>7, <2>8
<1> QED
  BY <1>1, <1>2, <1>3, IdInvariant, PTL DEF StoreSpec
=============================================================================
