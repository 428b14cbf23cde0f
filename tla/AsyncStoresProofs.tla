-------------------------- MODULE AsyncStoresProofs --------------------------
(***************************************************************************)
(* Proofs about AsyncStores, for any paths, policies and bounds.           *)
(*                                                                         *)
(* What carries them: every snapshot that is anywhere on its way is older  *)
(* than the remote one or equal to it (Known), a commit in flight is the   *)
(* first task of the queue and made from the snapshot the session still    *)
(* holds (InFlight), and the last notification on its way tells the remote *)
(* snapshot (Latest).                                                      *)
(***************************************************************************)
EXTENDS AsyncStores, TLAPS

Types ==
  /\ remote \in Snapshots /\ snapshot \in Snapshots
  /\ notices \in Seq(Snapshots)
  /\ queue \in Seq(Tasks)
  /\ policy \in Policies
  /\ external \in Snapshots \cup {None}
  /\ commit \in Commits
  /\ runtime \in [Paths -> Values]
  /\ disposed \in BOOLEAN /\ reported \in BOOLEAN
  /\ held \in [Paths -> SUBSET Values]
  /\ final \subseteq Snapshots
  /\ edits \in 0..MaxEdits /\ others \in 0..MaxOthers

\* Only the commit of the first write of the queue is in flight, and it was
\* made from the snapshot that the session still holds.
InFlight ==
  /\ ~Committing => external = None
  /\ Committing => queue # << >> /\ Head(queue).task = "write"
  /\ commit.stage = "authorizing" =>
       /\ commit.path = Head(queue).path
       /\ commit.value = Head(queue).value
       /\ commit.expected = snapshot.revision
  /\ commit.stage = "sent" =>
       /\ commit.path = Head(queue).path
       /\ commit.candidate = [snapshot.value EXCEPT ![commit.path] = Head(queue).value]
       /\ commit.expected = snapshot.revision
  /\ commit.stage \in {"answered", "checked"} /\ commit.status = "committed" =>
       /\ commit.snapshot \in Snapshots
       /\ commit.snapshot.value[Head(queue).path] = Head(queue).value

(* The kinds of steps, as seen by the session.                             *)
SessionStays == UNCHANGED <<snapshot, external, held, reported>>

(* A value that an edit or a foreign write takes is one of Values.         *)
LEMMA NextValue ==
  ASSUME Types, edits < MaxEdits \/ others < MaxOthers
  PROVE  edits + others + 1 \in Values
BY BoundsAssumption DEF Types, Values

(* Nothing but a write makes a task's path and value.                      *)
LEMMA HeadTask ==
  ASSUME Types, queue # << >>
  PROVE  /\ Head(queue) \in Tasks
         /\ Tail(queue) \in Seq(Tasks)
         /\ Head(queue).task = "write" => Head(queue).path \in Paths /\ Head(queue).value \in Values
         /\ Head(queue).task = "project" => Head(queue).snapshot \in Snapshots
<1>1. Head(queue) \in Tasks /\ Tail(queue) \in Seq(Tasks)
  BY DEF Types
<1> QED
  BY <1>1 DEF Tasks

(* What a commit in flight carries.                                        *)
LEMMA CommitFields ==
  ASSUME Types
  PROVE  /\ commit.stage \in {"idle", "authorizing", "sent", "answered", "checked"}
         /\ commit.stage = "idle" <=> commit = Idle
         /\ commit.stage = "authorizing" =>
              commit.path \in Paths /\ commit.value \in Values /\ commit.expected \in Nat
         /\ commit.stage = "sent" =>
              /\ commit.path \in Paths /\ commit.expected \in Nat
              /\ commit.candidate \in [Paths -> Values]
         /\ commit.stage \in {"answered", "checked"} =>
              /\ commit.snapshot \in Snapshots \cup {None}
              /\ commit.status \in {"committed", "conflict", "unavailable", "cancelled"}
              /\ commit = [stage |-> commit.stage, status |-> commit.status,
                           snapshot |-> commit.snapshot]
BY DEF Types, Commits, Idle

(* A session that takes a snapshot keeps its types.                        *)
LEMMA ApplyTypes ==
  ASSUME Types, NEW before \in Snapshots, NEW s \in Snapshots, NEW tasks \in Seq(Tasks),
         ApplyExternal(before, s, tasks)
  PROVE  snapshot' \in Snapshots /\ held' \in [Paths -> SUBSET Values] /\ queue' \in Seq(Tasks)
<1>1. Projection(s) \in Tasks
  BY DEF Projection, Tasks
<1>2. queue' \in Seq(Tasks)
  BY <1>1 DEF ApplyExternal
<1>3. \A p \in Paths : before.value[p] \in Values /\ s.value[p] \in Values
  BY DEF Snapshots
<1> QED
  BY <1>2, <1>3 DEF ApplyExternal, Accept, Types

(* So does one that decides on a queued external snapshot.                 *)
LEMMA QueuedTypes ==
  ASSUME Types, NEW before \in Snapshots, NEW tasks \in Seq(Tasks),
         ApplyQueuedExternal(before, tasks)
  PROVE  /\ snapshot' \in Snapshots /\ held' \in [Paths -> SUBSET Values]
         /\ queue' \in Seq(Tasks) /\ external' = None /\ reported' \in BOOLEAN
<1>1. CASE external # None /\ policy = "external-wins"
  <2>1. external \in Snapshots
    BY <1>1 DEF Types
  <2>2. ApplyExternal(before, external, tasks) /\ reported' = FALSE /\ external' = None
    BY <1>1 DEF ApplyQueuedExternal
  <2> QED
    BY <2>1, <2>2, ApplyTypes
<1>2. CASE ~(external # None /\ policy = "external-wins")
  <2>1. \A p \in Paths : before.value[p] \in Values
    BY DEF Snapshots
  <2> QED
    BY ZenonT(60), <1>2, <2>1 DEF ApplyQueuedExternal, Accept, Types
<1> QED
  BY <1>1, <1>2

(* The invariant holds of a session that has just been mounted.            *)
LEMMA InitialTypes == Init => Types /\ InFlight
<1> SUFFICES ASSUME Init PROVE Types /\ InFlight
  OBVIOUS
<1>1. Nothing \in [Paths -> Values] /\ 0 \in Values
  BY BoundsAssumption DEF Nothing, Values
<1>2. remote \in Snapshots /\ snapshot \in Snapshots
  BY <1>1 DEF Init, Snapshots
<1>3. held \in [Paths -> SUBSET Values] /\ runtime \in [Paths -> Values]
  BY <1>1 DEF Init
<1>4. Types
  <2>1. notices \in Seq(Snapshots) /\ queue \in Seq(Tasks)
    BY DEF Init
  <2>2. commit \in Commits /\ external \in Snapshots \cup {None}
    BY DEF Init, Commits
  <2>3. policy \in Policies /\ disposed \in BOOLEAN /\ reported \in BOOLEAN
    BY DEF Init
  <2>4. final \subseteq Snapshots /\ edits \in 0..MaxEdits /\ others \in 0..MaxOthers
    BY BoundsAssumption DEF Init
  <2> QED
    BY <1>2, <1>3, <2>1, <2>2, <2>3, <2>4 DEF Types
<1>5. InFlight
  BY DEF Init, InFlight, Committing, Idle
<1> QED
  BY <1>4, <1>5

(* An edit queues a write behind the others.                               *)
LEMMA EditTypes ==
  ASSUME Types, InFlight, NEW p \in Paths, Edit(p)
  PROVE  Types' /\ InFlight'
<1> DEFINE v == edits + others + 1
<1>1. v \in Values
  BY NextValue DEF Edit
<1>2. Write(p, v) \in Tasks
  BY <1>1 DEF Write, Tasks
<1>3. queue' \in Seq(Tasks) /\ (queue # << >> => Head(queue') = Head(queue)) /\ queue' # << >>
  BY <1>2 DEF Edit, Types
<1>4. Types'
  BY <1>1, <1>3, BoundsAssumption
  DEF Edit, Types, remoteVars, sessionVars
<1>5. InFlight'
  BY <1>3 DEF Edit, InFlight, Committing, Idle, sessionVars
<1> QED
  BY <1>4, <1>5

(* A foreign write changes what is stored and notified.                    *)
LEMMA OtherTypes ==
  ASSUME Types, InFlight, NEW p \in Paths, OtherWrite(p)
  PROVE  Types' /\ InFlight'
<1> DEFINE v == edits + others + 1
           s == [revision |-> remote.revision + 1, value |-> [remote.value EXCEPT ![p] = v]]
<1>1. v \in Values
  BY NextValue DEF OtherWrite
<1>2. s \in Snapshots
  BY <1>1 DEF Types, Snapshots
<1>3. Types'
  BY <1>2, BoundsAssumption DEF OtherWrite, Store, Types, sessionVars
<1>4. InFlight'
  BY DEF OtherWrite, InFlight, Committing, sessionVars
<1> QED
  BY <1>3, <1>4

(* A notification changes the session only while no commit is in flight.   *)
LEMMA NotifyTypes ==
  ASSUME Types, InFlight, Notify
  PROVE  Types' /\ InFlight'
<1>1. Head(notices) \in Snapshots /\ notices' \in Seq(Snapshots)
  BY DEF Notify, Types
<1>2. CASE disposed \/ Committing
  <2>1. UNCHANGED <<snapshot, held, reported, queue>>
    BY <1>2 DEF Notify, External
  <2>2. external' \in Snapshots \cup {None} /\ (~Committing => external' = external)
    BY <1>1, <1>2 DEF Notify, External, Types
  <2>3. Types'
    BY <1>1, <2>1, <2>2 DEF Notify, Types, bounds
  <2>4. InFlight'
    BY <2>1, <2>2 DEF Notify, InFlight, Committing
  <2> QED
    BY <2>3, <2>4
<1>3. CASE ~disposed /\ ~Committing
  <2>1. ApplyExternal(snapshot, Head(notices), queue) /\ external' = external
    BY <1>3 DEF Notify, External
  <2>2. snapshot' \in Snapshots /\ held' \in [Paths -> SUBSET Values] /\ queue' \in Seq(Tasks)
    BY <1>1, <2>1, ApplyTypes DEF Types
  <2>3. reported' \in BOOLEAN
    BY <1>3 DEF Notify, External, Types
  <2>4. Types'
    BY <1>1, <2>1, <2>2, <2>3 DEF Notify, Types, bounds
  <2>5. InFlight'
    BY <1>3, <2>1 DEF Notify, InFlight, Committing, Idle
  <2> QED
    BY <2>4, <2>5
<1> QED
  BY <1>2, <1>3

(* The first task of the queue is run or refused while no commit is in     *)
(* flight, or starts one.                                                  *)
LEMMA QueueTypes ==
  ASSUME Types, InFlight, RunProjection \/ RefuseWrite \/ StartWrite
  PROVE  Types' /\ InFlight'
<1>1. CASE RunProjection
  <2>1. Head(queue).snapshot \in Snapshots /\ Tail(queue) \in Seq(Tasks)
    BY <1>1, HeadTask DEF RunProjection
  <2>2. runtime' \in [Paths -> Values]
    BY <1>1, <2>1 DEF RunProjection, Project, Types, Snapshots
  <2>3. ~Committing
    BY <1>1 DEF RunProjection, InFlight
  <2>4. Types'
    BY <1>1, <2>1, <2>2 DEF RunProjection, Types, remoteVars, sessionVars, bounds
  <2>5. InFlight'
    BY <1>1, <2>3 DEF RunProjection, InFlight, Committing, sessionVars, Idle
  <2> QED
    BY <2>4, <2>5
<1>2. CASE RefuseWrite
  <2>1. Tail(queue) \in Seq(Tasks) /\ ~Committing
    BY <1>2, HeadTask DEF RefuseWrite, WriteIsNext
  <2>2. Types'
    BY <1>2, <2>1 DEF RefuseWrite, Types, remoteVars, sessionVars, bounds
  <2>3. InFlight'
    BY <1>2, <2>1 DEF RefuseWrite, InFlight, Committing, sessionVars, Idle
  <2> QED
    BY <2>2, <2>3
<1>3. CASE StartWrite
  <2>1. Head(queue).path \in Paths /\ Head(queue).value \in Values
    BY <1>3, HeadTask DEF StartWrite, WriteIsNext
  <2>2. snapshot.revision \in Nat
    BY DEF Types, Snapshots
  <2>3. commit' \in Commits
    BY <1>3, <2>1, <2>2 DEF StartWrite, Commits
  <2>4. Types'
    BY <1>3, <2>3 DEF StartWrite, Types, remoteVars, bounds
  <2>5. InFlight'
    BY <1>3 DEF StartWrite, WriteIsNext, InFlight, Committing, Idle
  <2> QED
    BY <2>4, <2>5
<1> QED
  BY <1>1, <1>2, <1>3

(* A refused commit gives the write up.                                    *)
LEMMA FailTypes ==
  ASSUME Types, InFlight, commit.stage \in {"authorizing", "checked"}, FailWrite,
         UNCHANGED <<remoteVars, policy, disposed, final, bounds>>
  PROVE  Types' /\ InFlight'
<1>1. queue # << >> /\ Tail(queue) \in Seq(Tasks)
  BY HeadTask DEF InFlight, Committing, Idle
<1>2. /\ snapshot' \in Snapshots /\ held' \in [Paths -> SUBSET Values]
      /\ queue' \in Seq(Tasks) /\ external' = None /\ reported' \in BOOLEAN
  BY <1>1, QueuedTypes DEF FailWrite, Types
<1>3. runtime' \in [Paths -> Values]
  BY <1>2 DEF FailWrite, Project, Types, Snapshots
<1>4. commit' = Idle /\ Idle \in Commits
  BY DEF FailWrite, Commits
<1>5. Types'
  BY <1>2, <1>3, <1>4 DEF Types, remoteVars, bounds
<1>6. InFlight'
  BY <1>2, <1>4 DEF InFlight, Committing, Idle
<1> QED
  BY <1>5, <1>6

(* A commit that the port accepted ends with its snapshot or a later one.  *)
LEMMA FinishTypes ==
  ASSUME Types, InFlight, FinishWrite
  PROVE  Types' /\ InFlight'
<1>1. CASE Committed
  <2>1. queue # << >> /\ Tail(queue) \in Seq(Tasks)
    BY <1>1, HeadTask DEF Committed, InFlight, Committing, Idle
  <2>2. commit.snapshot \in Snapshots
    BY <1>1 DEF Committed, InFlight
  <2>3. /\ snapshot' \in Snapshots /\ held' \in [Paths -> SUBSET Values]
        /\ queue' \in Seq(Tasks) /\ external' = None /\ reported' \in BOOLEAN
    BY <1>1, <2>1, <2>2, QueuedTypes DEF FinishWrite
  <2>4. commit' = Idle /\ runtime' = runtime
    BY <1>1 DEF FinishWrite
  <2>5. Types'
    BY <2>3, <2>4 DEF FinishWrite, Types, Commits, remoteVars, bounds
  <2>6. InFlight'
    BY <2>3, <2>4 DEF InFlight, Committing, Idle
  <2> QED
    BY <2>5, <2>6
<1>2. CASE ~Committed
  BY <1>2, FailTypes DEF FinishWrite
<1> QED
  BY <1>1, <1>2

(* The candidate is made of the snapshot the session holds.                *)
LEMMA SendTypes ==
  ASSUME Types, InFlight, SendCommit
  PROVE  Types' /\ InFlight'
<1> DEFINE candidate == [snapshot.value EXCEPT ![commit.path] = commit.value]
<1>1. commit.path \in Paths /\ commit.value \in Values /\ commit.expected \in Nat
  BY CommitFields DEF SendCommit
<1>2. candidate \in [Paths -> Values]
  BY <1>1 DEF Types, Snapshots
<1>3. commit' \in Commits
  BY <1>1, <1>2 DEF SendCommit, Commits
<1>4. Types'
  BY <1>3 DEF SendCommit, Types, remoteVars, bounds
<1>5. InFlight'
  BY DEF SendCommit, InFlight, Committing, Idle
<1> QED
  BY <1>4, <1>5

(* The port stores a candidate or none, and says so or not.                *)
LEMMA PortTypes ==
  ASSUME Types, InFlight, CompareAndSet \/ PortFails
  PROVE  Types' /\ InFlight'
<1> DEFINE s == [revision |-> remote.revision + 1, value |-> commit.candidate]
<1>1. commit.stage = "sent" /\ commit.candidate \in [Paths -> Values] /\ commit.path \in Paths
  BY CommitFields DEF CompareAndSet, PortFails
<1>2. s \in Snapshots
  BY <1>1 DEF Types, Snapshots
<1>3. /\ queue # << >> /\ Head(queue).task = "write" /\ Head(queue).path = commit.path
      /\ commit.candidate[commit.path] = Head(queue).value
  <2>1. snapshot.value \in [Paths -> Values]
    BY DEF Types, Snapshots
  <2> QED
    BY <1>1, <2>1 DEF InFlight, Committing, Idle
<1>4. CASE CompareAndSet /\ remote.revision = commit.expected
  <2>1. PICK status \in {"committed", "unavailable"} : commit' = Answered(status, s)
    BY <1>4 DEF CompareAndSet
  <2>2. commit' \in Commits
    BY <1>2, <2>1 DEF Answered, Commits
  <2>3. remote' \in Snapshots /\ notices' \in Seq(Snapshots)
    <3>1. remote' = s /\ notices' = Append(notices, s)
      BY <1>4 DEF CompareAndSet, Store
    <3> HIDE DEF s
    <3> QED
      BY <1>2, <3>1 DEF Types
  <2>4. Types'
    BY <1>4, <2>2, <2>3 DEF CompareAndSet, Types, bounds
  <2>5. InFlight'
    BY <1>2, <1>3, <1>4, <2>1 DEF CompareAndSet, Answered, InFlight, Committing, Idle
  <2> QED
    BY <2>4, <2>5
<1>5. CASE ~(CompareAndSet /\ remote.revision = commit.expected)
  <2>1. /\ UNCHANGED <<remote, notices>>
        /\ commit' \in {Answered("conflict", None), Answered("unavailable", None)}
    BY <1>5 DEF CompareAndSet, PortFails, remoteVars
  <2>2. commit' \in Commits
    BY <2>1 DEF Answered, Commits
  <2>3. Types'
    BY <2>1, <2>2 DEF CompareAndSet, PortFails, Types, bounds
  <2>4. InFlight'
    BY <1>3, <2>1 DEF CompareAndSet, PortFails, Answered, InFlight, Committing, Idle
  <2> QED
    BY <2>3, <2>4
<1> QED
  BY <1>4, <1>5

(* Looking at the signal can only turn an answer into a cancellation.      *)
LEMMA SignalTypes ==
  ASSUME Types, InFlight, CheckSignal
  PROVE  Types' /\ InFlight'
<1>1. /\ commit.stage = "answered"
      /\ commit.snapshot \in Snapshots \cup {None}
      /\ commit.status \in {"committed", "conflict", "unavailable", "cancelled"}
      /\ commit = [stage |-> commit.stage, status |-> commit.status,
                   snapshot |-> commit.snapshot]
  BY CommitFields DEF CheckSignal
<1>2. commit' = [stage |-> "checked", status |-> Verdict(commit.status),
                 snapshot |-> commit.snapshot]
  BY <1>1 DEF CheckSignal
<1>3. Verdict(commit.status) \in {commit.status, "cancelled"}
  BY DEF Verdict
<1>4. commit' \in Commits
  BY <1>1, <1>2, <1>3 DEF Commits
<1>5. Types'
  BY <1>4 DEF CheckSignal, Types, remoteVars, bounds
<1>6. InFlight'
  BY <1>1, <1>2, <1>3 DEF CheckSignal, InFlight, Committing, Idle
<1> QED
  BY <1>5, <1>6

(* Disposal forgets what was queued.                                       *)
LEMMA DisposeTypes ==
  ASSUME Types, InFlight, Dispose
  PROVE  Types' /\ InFlight'
<1>1. final' \subseteq Snapshots
  BY DEF Dispose, Committed, InFlight, Types
<1>2. Types'
  BY <1>1 DEF Dispose, Types, remoteVars, bounds
<1>3. InFlight'
  BY DEF Dispose, InFlight, Committing
<1> QED
  BY <1>2, <1>3

(* Every step keeps the types, and the commit in flight what it is.        *)
LEMMA TypesStep == Types /\ InFlight /\ [Next]_vars => Types' /\ InFlight'
<1> SUFFICES ASSUME Types, InFlight, [Next]_vars PROVE Types' /\ InFlight'
  OBVIOUS
<1>1. CASE \E p \in Paths : Edit(p) \/ OtherWrite(p)
  BY <1>1, EditTypes, OtherTypes
<1>2. CASE Notify
  BY <1>2, NotifyTypes
<1>3. CASE RunProjection \/ RefuseWrite \/ StartWrite
  BY <1>3, QueueTypes
<1>4. CASE RefuseCommit
  BY <1>4, FailTypes DEF RefuseCommit
<1>5. CASE SendCommit
  BY <1>5, SendTypes
<1>6. CASE CompareAndSet \/ PortFails
  BY <1>6, PortTypes
<1>7. CASE CheckSignal
  BY <1>7, SignalTypes
<1>8. CASE FinishWrite
  BY <1>8, FinishTypes
<1>9. CASE Dispose
  BY <1>9, DisposeTypes
<1>10. CASE UNCHANGED vars
  BY <1>10 DEF vars, remoteVars, sessionVars, bounds, Types, InFlight, Committing
<1> QED
  BY <1>1, <1>2, <1>3, <1>4, <1>5, <1>6, <1>7, <1>8, <1>9, <1>10 DEF Next

(* In every reachable state the session, its queue and the port have their *)
(* types, and a commit is the first write of the queue.                    *)
THEOREM TypeCorrect == Spec => []TypeOK
<1>1. Spec => [](Types /\ InFlight)
  BY InitialTypes, TypesStep, PTL DEF Spec
<1>2. Types /\ InFlight => TypeOK
  BY DEF Types, InFlight, TypeOK
<1> QED
  BY <1>1, <1>2, PTL

-----------------------------------------------------------------------------
(* Snapshots on their way.                                                 *)

Known(s) == s.revision <= remote.revision /\ (s.revision = remote.revision => s = remote)

Answer == IF commit.stage \in {"answered", "checked"} THEN {commit.snapshot} \ {None} ELSE {}

\* Every snapshot that the session holds or will be told of.
Around == {snapshot} \cup {notices[i] : i \in 1..Len(notices)} \cup ({external} \ {None}) \cup Answer

KnownInv == \A s \in Around : Known(s)

(* What is around are snapshots.                                           *)
LEMMA AroundTypes == Types => Around \subseteq Snapshots
BY CommitFields DEF Types, Around, Answer

(* Deciding on a queued snapshot makes no new one.                         *)
LEMMA QueuedTakes ==
  ASSUME NEW before, NEW tasks, ApplyQueuedExternal(before, tasks)
  PROVE  snapshot' \in {before} \cup ({external} \ {None}) /\ external' = None
BY DEF ApplyQueuedExternal, ApplyExternal, Accept

(* A step that ends a commit keeps one of the snapshots around.            *)
LEMMA FailAround ==
  ASSUME FailWrite, UNCHANGED remoteVars
  PROVE  remote' = remote /\ Around' \subseteq Around
<1>1. snapshot' \in {snapshot} \cup ({external} \ {None}) /\ external' = None
  BY QueuedTakes DEF FailWrite
<1>2. commit' = Idle
  BY DEF FailWrite
<1> QED
  BY <1>1, <1>2 DEF Around, Answer, Idle, remoteVars

(* A step stores a snapshot of the next revision, or none; nothing else    *)
(* makes a snapshot.                                                       *)
LEMMA AroundStep ==
  ASSUME Types, InFlight, [Next]_vars
  PROVE  \/ remote' = remote /\ Around' \subseteq Around
         \/ remote'.revision = remote.revision + 1 /\ Around' \subseteq Around \cup {remote'}
<1>1. ASSUME NEW s \in Snapshots, Store(s)
      PROVE  /\ remote' = s
             /\ {notices'[i] : i \in 1..Len(notices')}
                  = {notices[i] : i \in 1..Len(notices)} \cup {s}
  BY <1>1 DEF Store, Types
<1>2. ASSUME NEW p \in Paths, OtherWrite(p)
      PROVE  remote'.revision = remote.revision + 1 /\ Around' \subseteq Around \cup {remote'}
  <2> DEFINE s == [revision |-> remote.revision + 1,
                   value |-> [remote.value EXCEPT ![p] = edits + others + 1]]
  <2>1. s \in Snapshots
    BY SMTT(40), <1>2, NextValue DEF OtherWrite, Types, Snapshots
  <2>2. Store(s)
    BY <1>2 DEF OtherWrite
  <2>3. s.revision = remote.revision + 1
    OBVIOUS
  <2> HIDE DEF s
  <2>4. UNCHANGED <<snapshot, external, commit>>
    BY <1>2 DEF OtherWrite, sessionVars
  <2> QED
    BY <2>1, <2>2, <2>3, <2>4, <1>1 DEF Around, Answer
<1>3. ASSUME CompareAndSet, remote.revision = commit.expected
      PROVE  remote'.revision = remote.revision + 1 /\ Around' \subseteq Around \cup {remote'}
  <2> DEFINE s == [revision |-> remote.revision + 1, value |-> commit.candidate]
  <2>1. s \in Snapshots
    BY <1>3, CommitFields DEF CompareAndSet, Types, Snapshots
  <2>2. Store(s) /\ \E status : commit' = Answered(status, s)
    BY <1>3 DEF CompareAndSet
  <2>3. s.revision = remote.revision + 1
    OBVIOUS
  <2> HIDE DEF s
  <2>4. UNCHANGED <<snapshot, external>> /\ Answer' \subseteq {s}
    BY <1>3, <2>2 DEF CompareAndSet, Answer, Answered
  <2>5. /\ remote' = s
        /\ {notices'[i] : i \in 1..Len(notices')}
             = {notices[i] : i \in 1..Len(notices)} \cup {s}
    BY <2>1, <2>2, <1>1
  <2>6. Around' \subseteq Around \cup {s}
    BY <2>4, <2>5 DEF Around
  <2> QED
    BY <2>3, <2>5, <2>6
<1>4. ASSUME \/ CompareAndSet /\ remote.revision # commit.expected
             \/ PortFails
      PROVE  remote' = remote /\ Around' \subseteq Around
  <2>1. UNCHANGED <<remote, notices, snapshot, external>> /\ Answer' = {}
    BY <1>4 DEF CompareAndSet, PortFails, Answer, Answered, remoteVars
  <2> QED
    BY <2>1 DEF Around
<1>5. ASSUME Notify
      PROVE  remote' = remote /\ Around' \subseteq Around
  <2>1. /\ notices # << >> /\ remote' = remote /\ commit' = commit
        /\ notices' = Tail(notices)
    BY <1>5 DEF Notify
  <2>2. /\ Head(notices) \in {notices[i] : i \in 1..Len(notices)}
        /\ {notices'[i] : i \in 1..Len(notices')} \subseteq {notices[i] : i \in 1..Len(notices)}
    BY <2>1 DEF Types
  <2>3. snapshot' \in {snapshot, Head(notices)} /\ external' \in {external, Head(notices)}
    BY <1>5 DEF Notify, External, ApplyExternal, Accept
  <2> QED
    BY <2>1, <2>2, <2>3 DEF Around, Answer
<1>6. ASSUME (\E p \in Paths : Edit(p)) \/ RunProjection \/ RefuseWrite
      PROVE  remote' = remote /\ Around' \subseteq Around
  BY <1>6 DEF Edit, RunProjection, RefuseWrite, Around, Answer, remoteVars, sessionVars
<1>7. ASSUME StartWrite \/ SendCommit
      PROVE  remote' = remote /\ Around' \subseteq Around
  BY <1>7 DEF StartWrite, SendCommit, Around, Answer, remoteVars
<1>8. ASSUME RefuseCommit \/ FinishWrite
      PROVE  remote' = remote /\ Around' \subseteq Around
  <2>1. CASE RefuseCommit \/ ~Committed
    BY <1>8, <2>1, FailAround DEF RefuseCommit, FinishWrite
  <2>2. CASE FinishWrite /\ Committed
    <3>1. snapshot' \in {commit.snapshot} \cup ({external} \ {None}) /\ external' = None
      BY <2>2, QueuedTakes DEF FinishWrite
    <3>2. commit' = Idle /\ UNCHANGED <<remote, notices>>
      BY <2>2 DEF FinishWrite, remoteVars
    <3>3. commit.snapshot \in Answer
      BY <2>2, CommitFields DEF Committed, InFlight, Answer, Snapshots, None
    <3> QED
      BY <3>1, <3>2, <3>3 DEF Around, Answer, Idle
  <2> QED
    BY <1>8, <2>1, <2>2
<1>9. ASSUME CheckSignal
      PROVE  remote' = remote /\ Around' \subseteq Around
  <2>1. UNCHANGED <<remote, notices, snapshot, external>>
    BY <1>9 DEF CheckSignal, remoteVars
  <2>2. Answer' = Answer
    BY <1>9, CommitFields DEF CheckSignal, Answer
  <2> QED
    BY <2>1, <2>2 DEF Around
<1>10. ASSUME Dispose
       PROVE  remote' = remote /\ Around' \subseteq Around
  BY <1>10 DEF Dispose, Around, Answer, remoteVars
<1>11. CASE UNCHANGED vars
  BY <1>11 DEF vars, remoteVars, sessionVars, Around, Answer
<1> QED
  BY <1>2, <1>3, <1>4, <1>5, <1>6, <1>7, <1>8, <1>9, <1>10, <1>11 DEF Next

(* Every step keeps what is around known to the remote store.              *)
LEMMA KnownStep == Types /\ InFlight /\ KnownInv /\ [Next]_vars => KnownInv'
<1> SUFFICES ASSUME Types, InFlight, KnownInv, [Next]_vars, NEW s \in Around' PROVE Known(s)'
  BY DEF KnownInv
<1>1. remote.revision \in Nat /\ \A t \in Around : t.revision \in Nat
  BY AroundTypes DEF Types, Snapshots
<1> QED
  BY <1>1, AroundStep DEF KnownInv, Known

(* A session holds a snapshot that the remote store has had, and the one   *)
(* of the current revision only as it is stored.                           *)
LEMMA KnownInvariant == Spec => [](Types /\ InFlight /\ KnownInv)
<1>1. Init => KnownInv
  BY DEF Init, KnownInv, Known, Around, Answer, Idle, Nothing
<1> QED
  BY <1>1, InitialTypes, TypesStep, KnownStep, PTL DEF Spec

(* No write that the port accepts takes back what is stored on another     *)
(* path, for any number of writers, late notifications and conflict        *)
(* policies.                                                               *)
THEOREM WritesConfined == Spec => WritesKeepOtherPaths
<1> DEFINE Kept ==
      commit.stage = "sent" /\ remote' # remote /\ commit'.stage = "answered" =>
        \A p \in Paths \ {commit.path} : remote'.value[p] = remote.value[p]
<1>1. Types /\ InFlight /\ KnownInv /\ [Next]_vars => Kept
  <2> SUFFICES ASSUME Types, InFlight, KnownInv, [Next]_vars,
                      commit.stage = "sent", remote' # remote, commit'.stage = "answered",
                      NEW p \in Paths \ {commit.path}
               PROVE  remote'.value[p] = remote.value[p]
    OBVIOUS
  <2>1. CompareAndSet /\ remote.revision = commit.expected
    BY DEF Next, vars, remoteVars, sessionVars, Edit, OtherWrite, Notify, RunProjection,
           RefuseWrite, StartWrite, RefuseCommit, SendCommit, CompareAndSet, PortFails,
           CheckSignal, FinishWrite, Dispose
  <2>2. commit.expected = snapshot.revision
    BY DEF InFlight
  <2>3. snapshot = remote
    BY <2>1, <2>2 DEF KnownInv, Known, Around
  <2>4. remote'.value = commit.candidate
    BY <2>1 DEF CompareAndSet, Store
  <2>5. commit.candidate[p] = snapshot.value[p]
    BY DEF InFlight, Types, Snapshots
  <2> QED
    BY <2>3, <2>4, <2>5
<1> QED
  BY <1>1, KnownInvariant, PTL DEF Spec, WritesKeepOtherPaths

-----------------------------------------------------------------------------
(* What the session knows when nothing is on its way.                      *)

Accepted == commit.stage \in {"answered", "checked"} /\ commit.status = "committed"

Latest ==
  ~disposed =>
    /\ notices # << >> => notices[Len(notices)] = remote
    /\ notices = << >> =>
         \/ external = remote
         \/ external = None /\ snapshot = remote
         \/ external = None /\ reported /\ policy = "reject-concurrent"
    /\ Accepted => notices # << >> \/ external # None

StoreInv == Types /\ InFlight /\ KnownInv /\ Latest

(* A stored snapshot is the last notification.                             *)
LEMMA StoreLatest ==
  ASSUME Types, NEW s \in Snapshots, Store(s)
  PROVE  notices' # << >> /\ notices'[Len(notices')] = remote'
BY DEF Types, Store

(* The decision on the queued snapshot leaves the remote one or a report.  *)
LEMMA QueuedLatest ==
  ASSUME StoreInv, ~disposed, notices = << >>, NEW tasks, NEW before \in Snapshots,
         ApplyQueuedExternal(before, tasks), Known(before),
         external # None \/ before = snapshot
  PROVE  snapshot' = remote \/ (reported' /\ policy = "reject-concurrent")
<1>1. policy \in {"external-wins", "reject-concurrent"}
  BY PoliciesAssumption DEF StoreInv, Types
<1>2. CASE external # None /\ policy = "external-wins"
  BY <1>2 DEF StoreInv, Latest, ApplyQueuedExternal, ApplyExternal, Accept
<1>3. CASE external # None /\ policy # "external-wins"
  <2>1. external = remote
    BY <1>3 DEF StoreInv, Latest
  <2>2. snapshot' = before
    BY <1>3 DEF ApplyQueuedExternal, Accept
  <2>3. CASE external.revision # before.revision
    BY <1>1, <1>3, <2>3 DEF ApplyQueuedExternal
  <2>4. CASE external.revision = before.revision
    BY <2>1, <2>2, <2>4 DEF Known
  <2> QED
    BY <2>3, <2>4
<1>4. CASE external = None
  <2>1. snapshot' = snapshot /\ reported' = reported
    BY <1>4 DEF ApplyQueuedExternal, Accept
  <2>2. snapshot = remote \/ (reported /\ policy = "reject-concurrent")
    BY <1>4 DEF StoreInv, Latest, Types, Snapshots, None
  <2> QED
    BY <2>1, <2>2
<1> QED
  BY <1>2, <1>3, <1>4

(* Every step keeps the account of the remote snapshot.                    *)
LEMMA LatestStep == StoreInv /\ [Next]_vars => Latest'
<1> SUFFICES ASSUME StoreInv, [Next]_vars, ~disposed' PROVE Latest'
  BY DEF Latest
<1> USE DEF StoreInv
<1>0. ~disposed
  BY DEF Next, vars, Edit, OtherWrite, Notify, RunProjection, RefuseWrite, StartWrite,
         RefuseCommit, SendCommit, CompareAndSet, PortFails, CheckSignal, FinishWrite, Dispose
<1>1. ASSUME NEW p \in Paths, OtherWrite(p) PROVE Latest'
  <2> DEFINE s == [revision |-> remote.revision + 1,
                   value |-> [remote.value EXCEPT ![p] = edits + others + 1]]
  <2>1. s \in Snapshots
    BY <1>1, NextValue DEF OtherWrite, Types, Snapshots
  <2>2. Store(s)
    BY <1>1 DEF OtherWrite
  <2> HIDE DEF s
  <2> QED
    BY <2>1, <2>2, StoreLatest DEF Latest
<1>2. ASSUME CompareAndSet, remote.revision = commit.expected PROVE Latest'
  <2> DEFINE s == [revision |-> remote.revision + 1, value |-> commit.candidate]
  <2>1. s \in Snapshots
    BY <1>2, CommitFields DEF CompareAndSet, Types, Snapshots
  <2>2. Store(s)
    BY <1>2 DEF CompareAndSet
  <2> HIDE DEF s
  <2> QED
    BY <2>1, <2>2, StoreLatest DEF Latest
<1>3. ASSUME \/ CompareAndSet /\ remote.revision # commit.expected
             \/ PortFails
      PROVE  Latest'
  <2>1. /\ UNCHANGED <<remote, notices, snapshot, external, reported, policy, disposed>>
        /\ ~Accepted'
    BY <1>3 DEF CompareAndSet, PortFails, Answered, Accepted, remoteVars
  <2> QED
    BY <2>1 DEF Latest
<1>4. ASSUME Notify PROVE Latest'
  <2>1. /\ notices # << >> /\ notices' = Tail(notices)
        /\ UNCHANGED <<remote, policy, commit, disposed>>
        /\ External(Head(notices))
    BY <1>0, <1>4 DEF Notify
  <2>2. notices[Len(notices)] = remote
    BY <1>0, <2>1 DEF Latest
  <2>3. /\ notices' # << >> => notices'[Len(notices')] = remote
        /\ notices' = << >> => Head(notices) = remote
    <3>1. notices \in Seq(Snapshots) /\ Len(notices) \in Nat /\ Len(notices) # 0
      BY <2>1 DEF Types
    <3>2. /\ Len(notices') = Len(notices) - 1
          /\ \A i \in 1..Len(notices') : notices'[i] = notices[i + 1]
          /\ Head(notices) = notices[1]
      BY <2>1, <3>1
    <3>3. CASE Len(notices) = 1
      BY <2>1, <2>2, <3>1, <3>2, <3>3
    <3>4. CASE Len(notices) # 1
      <4>1. Len(notices') \in 1..Len(notices') /\ Len(notices') + 1 = Len(notices)
        BY <3>1, <3>2, <3>4
      <4>2. notices' # << >>
        BY <4>1
      <4> QED
        BY <2>2, <3>2, <4>1, <4>2
    <3> QED
      BY <3>3, <3>4
  <2>4. Head(notices) # None
    BY <2>1 DEF Types, Snapshots, None
  <2>5. CASE Committing
    BY <2>1, <2>3, <2>4, <2>5 DEF External, Latest, Accepted
  <2>6. CASE ~Committing
    <3>1. external = None /\ ~Accepted
      BY <2>6 DEF InFlight, Committing, Accepted, Idle
    <3>2. external' = None /\ snapshot' = Head(notices)
      BY <2>1, <2>6, <3>1 DEF External, ApplyExternal, Accept
    <3>3. ~Accepted'
      BY <2>1, <3>1 DEF Accepted
    <3> QED
      BY <2>1, <2>3, <3>2, <3>3 DEF Latest
  <2> QED
    BY <2>5, <2>6
<1>5. ASSUME (\E p \in Paths : Edit(p)) \/ RunProjection \/ RefuseWrite PROVE Latest'
  BY <1>0, <1>5
  DEF Edit, RunProjection, RefuseWrite, Latest, Accepted, remoteVars, sessionVars
<1>6. ASSUME StartWrite \/ SendCommit PROVE Latest'
  <2>1. UNCHANGED <<remote, notices, snapshot, external, reported, policy>> /\ ~Accepted'
    BY <1>6 DEF StartWrite, SendCommit, Accepted, remoteVars
  <2> QED
    BY <1>0, <2>1 DEF Latest
<1>7. ASSUME RefuseCommit \/ (FinishWrite /\ ~Committed) PROVE Latest'
  <2>1. /\ FailWrite /\ UNCHANGED <<remote, notices, policy>>
        /\ ApplyQueuedExternal(snapshot, Tail(queue)) /\ commit' = Idle
    BY <1>7 DEF RefuseCommit, FinishWrite, FailWrite, remoteVars
  <2>2. external' = None /\ ~Accepted'
    BY <2>1, QueuedTakes DEF Accepted, Idle
  <2>3. Known(snapshot) /\ snapshot \in Snapshots
    BY DEF KnownInv, Around, Types
  <2>4. notices = << >> =>
          snapshot' = remote \/ (reported' /\ policy = "reject-concurrent")
    BY <1>0, <2>1, <2>3, QueuedLatest
  <2> QED
    BY <1>0, <2>1, <2>2, <2>4 DEF Latest
<1>8. ASSUME FinishWrite, Committed PROVE Latest'
  <2>1. /\ UNCHANGED <<remote, notices, policy>>
        /\ ApplyQueuedExternal(commit.snapshot, Tail(queue)) /\ commit' = Idle
    BY <1>8 DEF FinishWrite, remoteVars
  <2>2. external' = None /\ ~Accepted'
    BY <2>1, QueuedTakes DEF Accepted, Idle
  <2>3. commit.snapshot \in Snapshots /\ Accepted
    BY <1>8 DEF Committed, InFlight, Accepted
  <2>4. Known(commit.snapshot)
    BY <2>3 DEF KnownInv, Around, Answer, Accepted, Snapshots, None
  <2>5. notices = << >> => external # None
    BY <1>0, <2>3 DEF Latest
  <2>6. notices = << >> =>
          snapshot' = remote \/ (reported' /\ policy = "reject-concurrent")
    BY <1>0, <2>1, <2>3, <2>4, <2>5, QueuedLatest
  <2> QED
    BY <1>0, <2>1, <2>2, <2>6 DEF Latest
<1>9. ASSUME CheckSignal PROVE Latest'
  <2>1. /\ UNCHANGED <<remote, notices, snapshot, external, reported, policy>>
        /\ Accepted' => Accepted
    BY <1>0, <1>9, CommitFields DEF CheckSignal, Verdict, Accepted, remoteVars
  <2> QED
    BY <1>0, <2>1 DEF Latest
<1>10. CASE UNCHANGED vars
  BY <1>0, <1>10 DEF vars, remoteVars, sessionVars, Latest, Accepted
<1>11. CASE Dispose
  BY <1>11 DEF Dispose
<1> QED
  BY <1>1, <1>2, <1>3, <1>4, <1>5, <1>6, <1>7, <1>8, <1>9, <1>10, <1>11 DEF Next

(* When nothing is on its way, the session is current or has reported the  *)
(* concurrent update it left aside, through lost answers, late             *)
(* notifications and updates queued during a commit.                       *)
THEOREM SessionsCurrent == Spec => []CurrentOrReported
<1>1. Init => Latest
  BY DEF Init, Latest, Accepted, Idle
<1>2. Spec => [](StoreInv)
  BY <1>1, KnownInvariant, LatestStep, PTL DEF Spec, StoreInv
<1>3. StoreInv => CurrentOrReported
  <2> SUFFICES ASSUME StoreInv, Quiet
               PROVE  snapshot = remote \/ (reported /\ policy = "reject-concurrent")
    BY DEF CurrentOrReported
  <2>1. external = None
    BY DEF StoreInv, InFlight, Quiet
  <2>2. remote # None
    BY DEF StoreInv, Types, Snapshots, None
  <2> QED
    BY <2>1, <2>2 DEF StoreInv, Latest, Quiet
<1> QED
  BY <1>2, <1>3, PTL

-----------------------------------------------------------------------------
(* What controls show.                                                     *)

\* A control shows what the session has held or what a write in the queue
\* carries; projections carry what the session has held.
Shown ==
  /\ \A p \in Paths : snapshot.value[p] \in held[p]
  /\ \A i \in 1..Len(queue) :
       queue[i].task = "project" => \A p \in Paths : queue[i].snapshot.value[p] \in held[p]
  /\ ~disposed =>
       \A p \in Paths :
         \/ runtime[p] \in held[p]
         \/ \E i \in 1..Len(queue) : queue[i] = Write(p, runtime[p])

HeldInv == Types /\ InFlight /\ Shown

(* A session that takes a snapshot remembers it, and so does the           *)
(* projection it queues.                                                   *)
LEMMA ApplyHeld ==
  ASSUME Types, Shown, NEW before \in Snapshots, NEW s \in Snapshots, NEW tasks \in Seq(Tasks),
         \A i \in 1..Len(tasks) : \E j \in 1..Len(queue) : tasks[i] = queue[j],
         ApplyExternal(before, s, tasks)
  PROVE  /\ \A p \in Paths : held[p] \cup {before.value[p], s.value[p]} = held'[p]
         /\ snapshot' = s
         /\ \A i \in 1..Len(tasks) : i \in 1..Len(queue') /\ queue'[i] = tasks[i]
         /\ \A i \in 1..Len(queue') :
              queue'[i].task = "project" => \A p \in Paths : queue'[i].snapshot.value[p] \in held'[p]
<1>1. held' = [p \in Paths |-> held[p] \cup {before.value[p], s.value[p]}] /\ snapshot' = s
  BY DEF ApplyExternal, Accept
<1>2. CASE queue' = tasks
  BY <1>1, <1>2 DEF Shown
<1>3. CASE queue' = Append(tasks, Projection(s))
  <2>1. /\ Len(queue') = Len(tasks) + 1 /\ Len(tasks) \in Nat
        /\ \A i \in 1..Len(tasks) : queue'[i] = tasks[i]
        /\ queue'[Len(tasks) + 1] = Projection(s)
    BY <1>3
  <2>2. \A i \in 1..Len(queue') : i \in 1..Len(tasks) \/ i = Len(tasks) + 1
    BY <2>1
  <2> QED
    BY <1>1, <2>1, <2>2 DEF Shown, Projection
<1> QED
  BY <1>1, <1>2, <1>3 DEF ApplyExternal

(* So does one that decides on a queued snapshot.                          *)
LEMMA QueuedHeld ==
  ASSUME Types, Shown, NEW before \in Snapshots, NEW tasks \in Seq(Tasks),
         \A i \in 1..Len(tasks) : \E j \in 1..Len(queue) : tasks[i] = queue[j],
         ApplyQueuedExternal(before, tasks)
  PROVE  /\ \A p \in Paths : held[p] \cup {before.value[p]} \subseteq held'[p]
         /\ \A p \in Paths : snapshot'.value[p] \in held'[p]
         /\ \A i \in 1..Len(tasks) : i \in 1..Len(queue') /\ queue'[i] = tasks[i]
         /\ \A i \in 1..Len(queue') :
              queue'[i].task = "project" => \A p \in Paths : queue'[i].snapshot.value[p] \in held'[p]
<1>1. CASE external # None /\ policy = "external-wins"
  <2>1. external \in Snapshots /\ ApplyExternal(before, external, tasks)
    BY <1>1 DEF Types, ApplyQueuedExternal
  <2>2. /\ \A p \in Paths : held[p] \cup {before.value[p], external.value[p]} = held'[p]
        /\ snapshot' = external
    BY <2>1, ApplyHeld
  <2>3. /\ \A i \in 1..Len(tasks) : i \in 1..Len(queue') /\ queue'[i] = tasks[i]
        /\ \A i \in 1..Len(queue') :
             queue'[i].task = "project" => \A p \in Paths : queue'[i].snapshot.value[p] \in held'[p]
    BY <2>1, ApplyHeld
  <2> QED
    BY <2>2, <2>3
<1>2. CASE ~(external # None /\ policy = "external-wins")
  <2>1. /\ held' = [p \in Paths |-> held[p] \cup {before.value[p], before.value[p]}]
        /\ snapshot' = before /\ queue' = tasks
    BY <1>2 DEF ApplyQueuedExternal, Accept
  <2> QED
    BY <2>1 DEF Shown
<1> QED
  BY <1>1, <1>2

(* The tasks behind the first are tasks of the queue.                      *)
LEMMA TailTasks ==
  ASSUME Types, queue # << >>
  PROVE  /\ Tail(queue) \in Seq(Tasks)
         /\ \A i \in 1..Len(Tail(queue)) : i + 1 \in 1..Len(queue) /\ Tail(queue)[i] = queue[i + 1]
         /\ \A j \in 1..Len(queue) : j = 1 \/ (j - 1 \in 1..Len(Tail(queue)) /\ Tail(queue)[j - 1] = queue[j])
         /\ Head(queue) = queue[1] /\ 1 \in 1..Len(queue)
BY DEF Types

(* A projection shows what the session has held on every control.          *)
LEMMA ProjectShown ==
  ASSUME Types, NEW s \in Snapshots, Project(s), disposed' = disposed,
         \A p \in Paths : s.value[p] \in held'[p]
  PROVE  ~disposed' => \A p \in Paths : runtime'[p] \in held'[p]
BY DEF Project

(* An edit shows what its write carries.                                   *)
LEMMA EditShown ==
  ASSUME HeldInv, NEW q \in Paths, Edit(q)
  PROVE  Shown'
<1> USE DEF HeldInv
<1> DEFINE v == edits + others + 1
<1>1. Write(q, v) \in Tasks
  BY NextValue DEF Edit, Write, Tasks
<1>2. /\ UNCHANGED <<snapshot, held, disposed>> /\ queue' = Append(queue, Write(q, v))
      /\ runtime' = [runtime EXCEPT ![q] = v]
  BY DEF Edit, sessionVars
<1> HIDE DEF v
<1>3. /\ \A i \in 1..Len(queue) : i \in 1..Len(queue') /\ queue'[i] = queue[i]
      /\ Len(queue) + 1 \in 1..Len(queue') /\ queue'[Len(queue) + 1] = Write(q, v)
      /\ \A i \in 1..Len(queue') : i \in 1..Len(queue) \/ i = Len(queue) + 1
  BY <1>1, <1>2 DEF Types
<1>4. \A p \in Paths : runtime'[p] = IF p = q THEN v ELSE runtime[p]
  BY <1>2 DEF Types
<1>5. Write(q, v).task # "project"
  BY DEF Write
<1> QED
  BY <1>2, <1>3, <1>4, <1>5 DEF Shown

(* A notification taken at once is remembered and queues its projection.   *)
LEMMA NotifyShown ==
  ASSUME HeldInv, Notify
  PROVE  Shown'
<1> USE DEF HeldInv
<1>1. CASE disposed \/ Committing
  <2>1. UNCHANGED <<snapshot, held, queue, runtime, disposed>>
    BY <1>1 DEF Notify, External
  <2> QED
    BY <2>1 DEF Shown
<1>2. CASE ~disposed /\ ~Committing
  <2>1. /\ ApplyExternal(snapshot, Head(notices), queue)
        /\ UNCHANGED <<runtime, disposed>>
    BY <1>2 DEF Notify, External
  <2>2. snapshot \in Snapshots /\ Head(notices) \in Snapshots /\ queue \in Seq(Tasks)
    BY DEF Notify, Types
  <2>3. /\ \A p \in Paths : held[p] \cup {snapshot.value[p], Head(notices).value[p]} = held'[p]
        /\ snapshot' = Head(notices)
        /\ \A i \in 1..Len(queue) : i \in 1..Len(queue') /\ queue'[i] = queue[i]
        /\ \A i \in 1..Len(queue') :
             queue'[i].task = "project" => \A p \in Paths : queue'[i].snapshot.value[p] \in held'[p]
    BY <2>1, <2>2, ApplyHeld
  <2> QED
    BY <2>1, <2>3 DEF Shown
<1> QED
  BY <1>1, <1>2

(* A projection shows what it carries, which the session has held.         *)
LEMMA RunShown ==
  ASSUME HeldInv, RunProjection
  PROVE  Shown'
<1> USE DEF HeldInv
<1>1. /\ queue # << >> /\ queue' = Tail(queue) /\ UNCHANGED <<snapshot, held, disposed>>
      /\ Head(queue).task = "project" /\ Project(Head(queue).snapshot)
  BY DEF RunProjection, sessionVars
<1>2. /\ \A p \in Paths : Head(queue).snapshot.value[p] \in held[p]
      /\ Head(queue).snapshot \in Snapshots
  BY <1>1, HeadTask, TailTasks DEF Shown
<1>3. ~disposed' => \A p \in Paths : runtime'[p] \in held'[p]
  BY <1>1, <1>2, ProjectShown
<1>4. \A i \in 1..Len(queue') : i + 1 \in 1..Len(queue) /\ queue'[i] = queue[i + 1]
  BY <1>1, TailTasks
<1> QED
  BY <1>1, <1>3, <1>4 DEF Shown

(* A refused write is taken off every control that showed it.              *)
LEMMA FailShown ==
  ASSUME HeldInv, commit.stage \in {"authorizing", "checked"}, FailWrite, disposed' = disposed
  PROVE  Shown'
<1> USE DEF HeldInv
<1>1. queue # << >>
  BY DEF InFlight, Committing, Idle
<1>2. /\ Tail(queue) \in Seq(Tasks)
      /\ \A i \in 1..Len(Tail(queue)) : \E j \in 1..Len(queue) : Tail(queue)[i] = queue[j]
  BY <1>1, TailTasks
<1>3. ApplyQueuedExternal(snapshot, Tail(queue)) /\ Project(snapshot') /\ snapshot \in Snapshots
  BY DEF FailWrite, Types
<1>4. /\ \A p \in Paths : snapshot'.value[p] \in held'[p]
      /\ \A i \in 1..Len(queue') :
           queue'[i].task = "project" => \A p \in Paths : queue'[i].snapshot.value[p] \in held'[p]
  BY <1>2, <1>3, QueuedHeld
<1>5. ~disposed' => \A p \in Paths : runtime'[p] \in held'[p]
  <2>1. snapshot' \in Snapshots
    BY <1>2, <1>3, QueuedTypes
  <2>2. runtime' = IF disposed THEN runtime ELSE snapshot'.value
    BY <1>3 DEF Project
  <2> QED
    BY <1>4, <2>2
<1> QED
  BY <1>4, <1>5 DEF Shown

(* A committed write becomes what the session has held.                    *)
LEMMA CommitShown ==
  ASSUME HeldInv, FinishWrite, Committed
  PROVE  Shown'
<1> USE DEF HeldInv
<1>1. queue # << >> /\ Head(queue).task = "write" /\ commit.snapshot \in Snapshots
  BY DEF Committed, InFlight, Committing, Idle
<1>2. commit.snapshot.value[Head(queue).path] = Head(queue).value
  BY DEF Committed, InFlight
<1>3. /\ Tail(queue) \in Seq(Tasks)
      /\ \A i \in 1..Len(Tail(queue)) : \E j \in 1..Len(queue) : Tail(queue)[i] = queue[j]
  BY <1>1, TailTasks
<1>4. /\ ApplyQueuedExternal(commit.snapshot, Tail(queue))
      /\ UNCHANGED <<runtime, disposed>>
  BY DEF FinishWrite
<1>5. /\ \A p \in Paths : held[p] \cup {commit.snapshot.value[p]} \subseteq held'[p]
      /\ \A p \in Paths : snapshot'.value[p] \in held'[p]
      /\ \A i \in 1..Len(Tail(queue)) : i \in 1..Len(queue') /\ queue'[i] = Tail(queue)[i]
      /\ \A i \in 1..Len(queue') :
           queue'[i].task = "project" => \A p \in Paths : queue'[i].snapshot.value[p] \in held'[p]
  BY <1>1, <1>3, <1>4, QueuedHeld
<1>6. ASSUME ~disposed, NEW p \in Paths
      PROVE  runtime[p] \in held'[p] \/ \E i \in 1..Len(queue') : queue'[i] = Write(p, runtime[p])
  <2>1. CASE runtime[p] \in held[p]
    BY <1>5, <2>1
  <2>2. CASE \E j \in 1..Len(queue) : queue[j] = Write(p, runtime[p])
    <3>1. PICK j \in 1..Len(queue) : queue[j] = Write(p, runtime[p])
      BY <2>2
    <3>2. CASE j = 1
      <4>1. Head(queue) = Write(p, runtime[p])
        BY <1>1, <3>1, <3>2, TailTasks
      <4>2. commit.snapshot.value[p] = runtime[p]
        BY <1>2, <4>1 DEF Write
      <4> QED
        BY <1>5, <4>2
    <3>3. CASE j # 1
      <4>1. j - 1 \in 1..Len(Tail(queue)) /\ Tail(queue)[j - 1] = queue[j]
        BY <1>1, <3>3, TailTasks
      <4>2. j - 1 \in 1..Len(queue') /\ queue'[j - 1] = Write(p, runtime[p])
        BY <1>5, <3>1, <4>1
      <4> QED
        BY <4>2
    <3> QED
      BY <3>2, <3>3
  <2> QED
    BY <1>6, <2>1, <2>2 DEF Shown
<1> QED
  BY <1>4, <1>5, <1>6 DEF Shown

(* Every step keeps the account of what controls show.                     *)
LEMMA ShownStep == HeldInv /\ [Next]_vars => Shown'
<1> SUFFICES ASSUME HeldInv, [Next]_vars PROVE Shown'
  OBVIOUS
<1>1. CASE \E p \in Paths : Edit(p)
  BY <1>1, EditShown
<1>2. CASE Notify
  BY <1>2, NotifyShown
<1>3. CASE RunProjection
  BY <1>3, RunShown
<1>4. CASE RefuseWrite
  <2>1. /\ queue # << >> /\ disposed /\ queue' = Tail(queue)
        /\ UNCHANGED <<snapshot, held, disposed>>
    BY <1>4 DEF RefuseWrite, WriteIsNext, sessionVars
  <2>2. \A i \in 1..Len(queue') : i + 1 \in 1..Len(queue) /\ queue'[i] = queue[i + 1]
    BY <2>1, TailTasks DEF HeldInv
  <2> QED
    BY <2>1, <2>2 DEF HeldInv, Shown
<1>5. CASE RefuseCommit \/ (FinishWrite /\ ~Committed)
  BY <1>5, FailShown DEF RefuseCommit, FinishWrite
<1>6. CASE FinishWrite /\ Committed
  BY <1>6, CommitShown
<1>7. CASE \/ \E p \in Paths : OtherWrite(p)
           \/ StartWrite \/ SendCommit \/ CompareAndSet \/ PortFails \/ CheckSignal
           \/ UNCHANGED vars
  <2>1. UNCHANGED <<snapshot, held, queue, runtime, disposed>>
    BY <1>7 DEF OtherWrite, StartWrite, SendCommit, CompareAndSet, PortFails, CheckSignal, vars,
                sessionVars
  <2> QED
    BY <2>1 DEF HeldInv, Shown
<1>8. CASE Dispose
  BY <1>8 DEF Dispose, HeldInv, Shown
<1> QED
  BY <1>1, <1>2, <1>3, <1>4, <1>5, <1>6, <1>7, <1>8 DEF Next

(* When nothing is on its way, no control shows the value of a write that  *)
(* was refused, lost at the port or given up.                              *)
THEOREM RefusalsRolledBack == Spec => []RefusedWritesRolledBack
<1>1. Init => Shown
  BY DEF Init, Shown, Nothing
<1>2. Spec => []HeldInv
  BY <1>1, InitialTypes, TypesStep, ShownStep, PTL DEF Spec, HeldInv
<1>3. HeldInv => RefusedWritesRolledBack
  BY DEF HeldInv, Shown, RefusedWritesRolledBack, Quiet
<1> QED
  BY <1>2, <1>3, PTL

-----------------------------------------------------------------------------
(* Disposal.                                                               *)

\* A disposed session can still take only what it had been answered.
Sealed ==
  disposed => external = None /\ (Committed => commit.snapshot \in final)

SealedInv == Types /\ InFlight /\ Sealed

(* Every step keeps a disposed session sealed.                             *)
LEMMA SealedStep == SealedInv /\ [Next]_vars => Sealed'
<1> SUFFICES ASSUME SealedInv, [Next]_vars PROVE Sealed'
  OBVIOUS
<1> USE DEF SealedInv
<1>1. CASE \/ \E p \in Paths : Edit(p) \/ OtherWrite(p)
           \/ RunProjection \/ RefuseWrite \/ UNCHANGED vars
  <2>1. UNCHANGED <<external, commit, final, disposed>>
    BY <1>1 DEF Edit, OtherWrite, RunProjection, RefuseWrite, vars, sessionVars
  <2> QED
    BY <2>1 DEF Sealed, Committed
<1>2. CASE Notify
  BY <1>2 DEF Notify, Sealed, Committed
<1>3. CASE StartWrite \/ SendCommit \/ CompareAndSet \/ PortFails
  <2>1. UNCHANGED <<external, final, disposed>>
    BY <1>3 DEF StartWrite, SendCommit, CompareAndSet, PortFails
  <2>2. commit'.stage \in {"authorizing", "sent", "answered"}
    BY <1>3 DEF StartWrite, SendCommit, CompareAndSet, PortFails, Answered
  <2> QED
    BY <2>1, <2>2 DEF Sealed, Committed
<1>4. CASE CheckSignal
  <2>1. UNCHANGED <<external, final, disposed>> /\ (disposed => ~Committed')
    BY <1>4, CommitFields DEF CheckSignal, Verdict, Committed
  <2> QED
    BY <2>1 DEF Sealed
<1>5. CASE RefuseCommit \/ FinishWrite
  <2>1. /\ commit' = Idle
        /\ \E before, tasks : ApplyQueuedExternal(before, tasks)
    BY <1>5 DEF RefuseCommit, FinishWrite, FailWrite
  <2>2. external' = None /\ ~Committed'
    BY <2>1, QueuedTakes DEF Committed, Idle
  <2> QED
    BY <2>2 DEF Sealed
<1>6. CASE Dispose
  BY <1>6 DEF Dispose, Sealed, Committed
<1> QED
  BY <1>1, <1>2, <1>3, <1>4, <1>5, <1>6 DEF Next

(* Nothing that was under way when the application was disposed of changes *)
(* a control, and the session takes no snapshot but one already answered.  *)
THEOREM DisposalFinal == Spec => NothingAfterDispose
<1>1. Init => Sealed
  BY DEF Init, Sealed
<1>2. Spec => []SealedInv
  BY <1>1, InitialTypes, TypesStep, SealedStep, PTL DEF Spec, SealedInv
<1> DEFINE Kept == disposed => runtime' = runtime /\ (snapshot' = snapshot \/ snapshot' \in final)
<1>3. SealedInv /\ [Next]_vars => Kept
  <2> SUFFICES ASSUME SealedInv, [Next]_vars, disposed
               PROVE  runtime' = runtime /\ (snapshot' = snapshot \/ snapshot' \in final)
    OBVIOUS
  <2>1. CASE RefuseCommit \/ (FinishWrite /\ ~Committed)
    <3>1. FailWrite
      BY <2>1 DEF RefuseCommit, FinishWrite
    <3>2. snapshot' = snapshot
      BY <3>1, QueuedTakes DEF FailWrite, SealedInv, Sealed
    <3> QED
      BY <3>1, <3>2 DEF FailWrite, Project
  <2>2. CASE FinishWrite /\ Committed
    BY <2>2, QueuedTakes DEF FinishWrite, SealedInv, Sealed
  <2>3. CASE ~(RefuseCommit \/ FinishWrite)
    BY <2>3 DEF Next, vars, Edit, OtherWrite, Notify, RunProjection, Project, RefuseWrite,
                StartWrite, SendCommit, CompareAndSet, PortFails, CheckSignal, Dispose,
                sessionVars
  <2> QED
    BY <2>1, <2>2, <2>3
<1> QED
  BY <1>2, <1>3, PTL DEF Spec, NothingAfterDispose
=============================================================================
