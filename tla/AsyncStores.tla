----------------------------- MODULE AsyncStores -----------------------------
(***************************************************************************)
(* A mounted asynchronous store (packages/unifold): the session of the     *)
(* store, the controller that queues its writes and projections, and the   *)
(* controls bound to its paths, against a remote key/value port that other *)
(* writers share.                                                          *)
(*                                                                         *)
(* A step is what runs between two awaits.  The remote port compares and   *)
(* sets atomically, notifies every write in order, its own included, and   *)
(* may fail before or after it has stored a write.  Every write has a      *)
(* value of its own.  Snapshots are taken to be valid and of the current   *)
(* data version.                                                           *)
(***************************************************************************)
EXTENDS Integers, SequencesExt

CONSTANTS
  Paths,      \* paths of the store, each bound to a control
  Policies,   \* conflict policies a connection may choose
  MaxEdits,   \* bound on the edits of the user
  MaxOthers   \* bound on the writes of others

ASSUME PoliciesAssumption == Policies \subseteq {"external-wins", "reject-concurrent"}
ASSUME BoundsAssumption == MaxEdits \in Nat /\ MaxOthers \in Nat

VARIABLES
  remote,    \* external: the stored snapshot
  notices,   \* external: snapshots on their way to the session
  policy,    \* the connection's conflict policy
  snapshot,  \* the session's accepted snapshot
  external,  \* the external snapshot queued during a commit, or None
  commit,    \* the commit in flight, or Idle
  queue,     \* the controller's tasks, the running one first
  disposed,  \* the controller and with it the session are disposed of
  runtime,   \* path -> committed value of its control
  edits, others,  \* bounds: edits and foreign writes so far
  reported,  \* history: a conflict was reported since the snapshot last changed
  held,      \* history: path -> values the session has held
  final      \* history: snapshots that were accepted when the session was disposed of

remoteVars == <<remote, notices>>
sessionVars == <<snapshot, external, commit, reported, held>>
bounds == <<edits, others>>
vars == <<remoteVars, policy, sessionVars, queue, disposed, final, runtime, bounds>>

None == [revision |-> -1]
Idle == [stage |-> "idle"]
Nothing == [p \in Paths |-> 0]

Write(path, value) == [task |-> "write", path |-> path, value |-> value]
Projection(s) == [task |-> "project", snapshot |-> s]

Init ==
  /\ remote = [revision |-> 0, value |-> Nothing]
  /\ notices = << >>
  /\ policy \in Policies
  /\ snapshot = remote
  /\ external = None
  /\ commit = Idle
  /\ queue = << >>
  /\ disposed = FALSE
  /\ runtime = Nothing
  /\ edits = 0 /\ others = 0
  /\ reported = FALSE
  /\ held = [p \in Paths |-> {0}]
  /\ final = {}

Committing == commit # Idle

-----------------------------------------------------------------------------
(* The user, and the other writers of the remote store.                    *)

\* A control's new value is committed in the runtime, which derives a write.
Edit(p) ==
  /\ ~disposed
  /\ edits < MaxEdits
  /\ edits' = edits + 1
  /\ runtime' = [runtime EXCEPT ![p] = edits + others + 1]
  /\ queue' = Append(queue, Write(p, edits + others + 1))
  /\ UNCHANGED <<remoteVars, policy, sessionVars, disposed, final, others>>

Store(s) == remote' = s /\ notices' = Append(notices, s)

OtherWrite(p) ==
  /\ others < MaxOthers
  /\ others' = others + 1
  /\ Store([revision |-> remote.revision + 1,
            value |-> [remote.value EXCEPT ![p] = edits + others + 1]])
  /\ UNCHANGED <<policy, sessionVars, queue, disposed, final, runtime, edits>>

-----------------------------------------------------------------------------
(* External updates of the session.                                        *)

\* The session takes s, from outside or from its own commit, after `before`.
Accept(before, s) ==
  /\ snapshot' = s
  /\ held' = [p \in Paths |-> held[p] \cup {before.value[p], s.value[p]}]

\* applyExternal after `before` was accepted: any other revision is taken and
\* told to the controller, which queues its projection behind tasks.
ApplyExternal(before, s, tasks) ==
  /\ Accept(before, s)
  /\ queue' = IF s.revision # before.revision THEN Append(tasks, Projection(s)) ELSE tasks

\* Mutation of ApplyQueuedExternal: the queued snapshot is only forgotten.
ForgetQueuedExternal(before, tasks) ==
  /\ external' = None
  /\ Accept(before, before)
  /\ queue' = tasks
  /\ reported' = (reported /\ before = snapshot)

\* The queued external snapshot is decided on once the commit has left `before`.
ApplyQueuedExternal(before, tasks) ==
  /\ external' = None
  /\ IF external # None /\ policy = "external-wins"
     THEN ApplyExternal(before, external, tasks) /\ reported' = FALSE
     ELSE /\ Accept(before, before)
          /\ queue' = tasks
          /\ reported' = IF external # None /\ external.revision # before.revision THEN TRUE
                         ELSE IF before # snapshot THEN FALSE
                         ELSE reported

\* Mutation of External: a snapshot is applied also while a commit is in flight.
ExternalAtOnce(s) ==
  /\ ApplyExternal(snapshot, s, queue)
  /\ reported' = FALSE
  /\ UNCHANGED external

External(s) ==
  IF Committing
  THEN external' = s /\ UNCHANGED <<snapshot, held, reported, queue>>
  ELSE /\ ApplyExternal(snapshot, s, queue)
       /\ reported' = (reported /\ s.revision = snapshot.revision)
       /\ UNCHANGED external

\* A notification arrives; a disposed session has unsubscribed.
Notify ==
  /\ notices # << >>
  /\ notices' = Tail(notices)
  /\ IF disposed
     THEN UNCHANGED <<snapshot, external, held, reported, queue>>
     ELSE External(Head(notices))
  /\ UNCHANGED <<remote, policy, commit, disposed, final, runtime, bounds>>

-----------------------------------------------------------------------------
(* The controller's queue.                                                 *)

\* The control values become those of the snapshot, without a derived write.
Project(s) == runtime' = IF disposed THEN runtime ELSE s.value

RunProjection ==
  /\ queue # << >>
  /\ Head(queue).task = "project"
  /\ Project(Head(queue).snapshot)
  /\ queue' = Tail(queue)
  /\ UNCHANGED <<remoteVars, policy, sessionVars, disposed, final, bounds>>

WriteIsNext == queue # << >> /\ Head(queue).task = "write" /\ ~Committing

\* The write of a disposed controller throws.
RefuseWrite ==
  /\ WriteIsNext
  /\ disposed
  /\ queue' = Tail(queue)
  /\ UNCHANGED <<remoteVars, policy, sessionVars, disposed, final, runtime, bounds>>

\* session.commit, expecting the revision the session has now.
StartWrite ==
  /\ WriteIsNext
  /\ ~disposed
  /\ commit' = [stage |-> "authorizing", path |-> Head(queue).path,
                value |-> Head(queue).value, expected |-> snapshot.revision]
  /\ UNCHANGED <<remoteVars, policy, snapshot, external, reported, held, queue, disposed, final,
                 runtime, bounds>>

\* Mutation of FailWrite: the refused write stays first in the queue.
FailWriteAgain ==
  /\ commit' = Idle
  /\ ApplyQueuedExternal(snapshot, queue)
  /\ Project(snapshot')

\* The commit left the session as it was; its queued external snapshot is decided
\* on, and the controller projects what the session then holds.
FailWrite ==
  /\ commit' = Idle
  /\ ApplyQueuedExternal(snapshot, Tail(queue))
  /\ Project(snapshot')

\* Denied, or the candidate is invalid, or the adapter sees the aborted signal.
RefuseCommit ==
  /\ commit.stage = "authorizing"
  /\ FailWrite
  /\ UNCHANGED <<remoteVars, policy, disposed, final, bounds>>

\* The candidate is made from the snapshot held after the authorisation.
SendCommit ==
  /\ commit.stage = "authorizing"
  /\ ~disposed
  /\ commit' = [stage |-> "sent", path |-> commit.path, expected |-> commit.expected,
                candidate |-> [snapshot.value EXCEPT ![commit.path] = commit.value]]
  /\ UNCHANGED <<remoteVars, policy, snapshot, external, reported, held, queue, disposed, final,
                 runtime, bounds>>

Answered(status, s) == [stage |-> "answered", status |-> status, snapshot |-> s]

\* External: the port compares and sets; its answer may be lost.
CompareAndSet ==
  /\ commit.stage = "sent"
  /\ LET s == [revision |-> remote.revision + 1, value |-> commit.candidate]
     IN  IF remote.revision = commit.expected
         THEN /\ Store(s)
              /\ \E status \in {"committed", "unavailable"} : commit' = Answered(status, s)
         ELSE /\ commit' = Answered("conflict", None)
              /\ UNCHANGED remoteVars
  /\ UNCHANGED <<policy, snapshot, external, reported, held, queue, disposed, final,
                 runtime, bounds>>

\* External: the port fails before it stores anything.
PortFails ==
  /\ commit.stage = "sent"
  /\ commit' = Answered("unavailable", None)
  /\ UNCHANGED <<remoteVars, policy, snapshot, external, reported, held, queue, disposed, final,
                 runtime, bounds>>

\* What invokeCommit makes of the adapter's answer.
Verdict(status) == IF disposed THEN "cancelled" ELSE status

\* invokeCommit looks at the signal; its own caller resumes later.
CheckSignal ==
  /\ commit.stage = "answered"
  /\ commit' = [commit EXCEPT !.stage = "checked", !.status = Verdict(@)]
  /\ UNCHANGED <<remoteVars, policy, snapshot, external, reported, held, queue, disposed, final,
                 runtime, bounds>>

Committed == commit.stage = "checked" /\ commit.status = "committed"

FinishWrite ==
  /\ commit.stage = "checked"
  /\ IF Committed
     THEN /\ commit' = Idle
          /\ ApplyQueuedExternal(commit.snapshot, Tail(queue))
          /\ UNCHANGED runtime
     ELSE FailWrite
  /\ UNCHANGED <<remoteVars, policy, disposed, final, bounds>>

\* The controller aborts its signal and disposes of the session.
Dispose ==
  /\ ~disposed
  /\ disposed' = TRUE
  /\ external' = None
  /\ final' = {snapshot} \cup (IF Committed THEN {commit.snapshot} ELSE {})
  /\ UNCHANGED <<remoteVars, policy, snapshot, commit, reported, held, queue, runtime, bounds>>

-----------------------------------------------------------------------------
Next ==
  \/ \E p \in Paths : Edit(p) \/ OtherWrite(p)
  \/ Notify
  \/ RunProjection \/ RefuseWrite \/ StartWrite
  \/ RefuseCommit \/ SendCommit \/ CompareAndSet \/ PortFails
  \/ CheckSignal \/ FinishWrite
  \/ Dispose

Spec == Init /\ [][Next]_vars

Work ==
  \/ RunProjection \/ RefuseWrite \/ StartWrite
  \/ RefuseCommit \/ SendCommit \/ CompareAndSet \/ PortFails
  \/ CheckSignal \/ FinishWrite

(* Authorisation and port answer; nothing else is assumed.                 *)
FairSpec == Spec /\ WF_vars(Work)

-----------------------------------------------------------------------------
Values == 0..(MaxEdits + MaxOthers)
Snapshots == [revision : Nat, value : [Paths -> Values]]
Tasks == [task : {"write"}, path : Paths, value : Values]
           \cup [task : {"project"}, snapshot : Snapshots]
Commits ==
  {Idle} \cup [stage : {"authorizing"}, path : Paths, value : Values, expected : Nat]
    \cup [stage : {"sent"}, path : Paths, expected : Nat, candidate : [Paths -> Values]]
    \cup [stage : {"answered", "checked"}, snapshot : Snapshots \cup {None},
          status : {"committed", "conflict", "unavailable", "cancelled"}]

TypeOK ==
  /\ remote \in Snapshots /\ snapshot \in Snapshots
  /\ \A i \in DOMAIN notices : notices[i] \in Snapshots
  /\ \A i \in DOMAIN queue : queue[i] \in Tasks
  /\ policy \in Policies
  /\ external \in Snapshots \cup {None}
  /\ commit \in Commits
  /\ Committing => queue # << >> /\ Head(queue).task = "write"
  /\ runtime \in [Paths -> Values]
  /\ disposed \in BOOLEAN /\ reported \in BOOLEAN
  /\ held \in [Paths -> SUBSET Values]
  /\ final \subseteq Snapshots
  /\ edits \in 0..MaxEdits /\ others \in 0..MaxOthers

Quiet == queue = << >> /\ notices = << >> /\ ~disposed

(* A write changes its own path only: whatever was stored on the others    *)
(* when the port accepts it stays, through late notifications of earlier   *)
(* writes and updates queued during the commit.                            *)
WritesKeepOtherPaths ==
  [][commit.stage = "sent" /\ remote' # remote /\ commit'.stage = "answered" =>
       \A p \in Paths \ {commit.path} : remote'.value[p] = remote.value[p]]_vars

(* Once nothing is on its way the session holds what the remote store      *)
(* holds, or has reported the concurrent update it left aside ("retains    *)
(* the current snapshot and reports a concurrent external conflict"),      *)
(* also when the answer to its own commit was lost.                        *)
CurrentOrReported ==
  Quiet => snapshot = remote \/ (reported /\ policy = "reject-concurrent")

(* A control does not go on showing a write that was refused: when nothing *)
(* is on its way it shows a value the session has held ("rolls failed      *)
(* optimistic values back").                                               *)
RefusedWritesRolledBack == Quiet => \A p \in Paths : runtime[p] \in held[p]

(* A commit that was with the port when the application was disposed of,   *)
(* and the tasks behind it, change neither the session nor the controls    *)
(* ("late effect settlement cannot publish into a disposed runtime").  The *)
(* session may still take a snapshot whose answer had passed the signal.   *)
NothingAfterDispose ==
  [][disposed => runtime' = runtime /\ (snapshot' = snapshot \/ snapshot' \in final)]_vars

(* Every write is answered and every projection run, through refusals,     *)
(* failures and the disposal of the application.                           *)
WritesSettle == <>[](queue = << >>)

(* When nothing is on its way, a control shows what the session holds at   *)
(* its path ("A rejected optimistic write projects the accepted session    *)
(* snapshot back", "Validated external snapshots enter the ordinary        *)
(* runtime").  The code does not keep this after a refusal in a queue (a   *)
(* known limit of README.md, of no run).                                   *)
ControlsShowStore == Quiet => runtime = snapshot.value
=============================================================================
