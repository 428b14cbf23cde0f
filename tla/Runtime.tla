------------------------------ MODULE Runtime ------------------------------
(***************************************************************************)
(* The headless runtime of packages/runtime over the node store of         *)
(* packages/reactivity: commands, the facts they publish, the store writes *)
(* and asynchronous validations they cause, and the coordination that      *)
(* keeps a structural change private until it is committed.                *)
(*                                                                         *)
(* Everything runs on one thread, but a fact is handed to observers that   *)
(* may call the runtime again before the call that published it goes on.   *)
(* The agenda is what that thread still has to do, next task first: a call *)
(* puts its own tasks before those of its caller, and an exception drops   *)
(* tasks up to the nearest handler.  When the agenda is empty the host,    *)
(* the page or a validator takes the next turn.                            *)
(***************************************************************************)
EXTENDS Integers, SequencesExt, FiniteSetsExt

CONSTANTS
  Nodes,            \* control nodes
  Values,           \* values of a control
  Rejected,         \* values that the synchronous validators of a control reject
  Documents,        \* authored documents
  NodesOf,          \* [Documents -> SUBSET Nodes]
  Bound,            \* nodes whose value is bound to a store
  Validated,        \* nodes with asynchronous validators
  Retention,        \* transaction records the node store keeps
  MaxReactions,     \* bound on the calls of observers
  MaxThrows         \* bound on the throws of the host's selectors

ASSUME RuntimeAssumption ==
  /\ Retention \in Nat \ {0} /\ MaxReactions \in Nat /\ MaxThrows \in Nat
  /\ NodesOf \in [Documents -> SUBSET Nodes] /\ Values \subseteq Nat \ {0}
  /\ Rejected \subseteq Values
  /\ Bound \subseteq Nodes /\ Validated \subseteq Nodes /\ IsFiniteSet(Nodes)

VARIABLES
  agenda,     \* tasks of the thread, next first
  lifecycle,  \* "active" or "disposed"
  nodes,      \* node store: present node -> its control
  revision,   \* node store: its revision
  records,    \* node store: retained revision -> nodes it changed
  savepoint,  \* what the open coordination restores, or None
  sequence,   \* publisher: last sequence number given
  outbox,     \* publisher: facts a coordination holds back
  delivered,  \* sequence number of the last fact observers were handed
  routes,     \* router: documents whose machine receives facts
  bindings,   \* document of the store bindings, rules and compositions
  active,     \* validation: node -> request in progress
  contexts,   \* validation: requests whose cause is remembered
  requests,   \* requests and effects named so far
  answers,    \* external: validator runs that may still answer
  adapter,    \* external: values of the bound stores
  reactions,  \* bound: calls of observers so far
  throws,     \* bound: selectors of the host that have thrown so far
  overlapped  \* has an observer changed a control the thread was working for?

storeVars == <<nodes, revision, records>>
publisherVars == <<sequence, outbox, delivered>>
validationVars == <<active, contexts, requests, answers>>
observerVars == <<reactions, throws, overlapped>>
runtimeVars == <<agenda, lifecycle, storeVars, savepoint, publisherVars, routes, bindings,
                 validationVars, adapter, observerVars>>

None == [none |-> TRUE]
NoRequest == 0
NoVerdict == 0
Closed == [open |-> FALSE, facts |-> << >>]

Task == Head(agenda)
At(op) == agenda # << >> /\ Task.op = op
Do(tasks) == agenda' = tasks \o Tail(agenda)

Execute(command) == [op |-> "execute", command |-> command]
Emit(kind, changed, at) == [op |-> "emit", kind |-> kind, changed |-> changed, revision |-> at]
Contained == [op |-> "contained"]
Rejecting == [op |-> "rejecting"]

Each(op, set) == SetToSeq({[op |-> op, node |-> n] : n \in set})

\* An exception: the command being executed publishes a rejection and passes
\* it on, an observer or an adapter that is shielded keeps it.
Unwound(tasks) ==
  LET handlers == {i \in DOMAIN tasks : tasks[i].op \in {"contained", "rejecting"}}
      rest == SubSeq(tasks, Min(handlers) + 1, Len(tasks))
  IN  IF handlers = {} THEN << >>
      ELSE IF tasks[Min(handlers)].op = "contained" THEN rest
      ELSE <<Emit("rejected", {}, revision), [op |-> "throw"]>> \o rest

Throw == agenda' = Unwound(Tail(agenda))

------------------------------------------------------------------------------
\* The node store

Fresh(value) ==
  [value |-> value, dirty |-> FALSE, request |-> NoRequest, verdict |-> NoVerdict]

Edited(control, value) ==
  [control EXCEPT !.value = value, !.dirty = TRUE, !.verdict = NoVerdict]

Started(control, request) == [control EXCEPT !.request = request, !.verdict = NoVerdict]

\* A verdict, or NoVerdict for a cancelled validation.
Judged(control, request, verdict) ==
  IF control.request # request THEN control
  ELSE [control EXCEPT !.request = NoRequest, !.verdict = verdict]

\* A dirty control keeps its value and forgets its validation, a pristine one
\* takes the value of the new document.
Migrated(control, value) ==
  IF control.dirty THEN [control EXCEPT !.request = NoRequest, !.verdict = NoVerdict]
  ELSE Fresh(value)

Reconciled(document) ==
  [n \in NodesOf[document] |->
     IF n \in DOMAIN nodes THEN Migrated(nodes[n], adapter[n]) ELSE Fresh(adapter[n])]

Applicable(command) == command.node \in DOMAIN nodes

Applied(command) ==
  [nodes EXCEPT ![command.node] =
     CASE command.type = "value"   -> Edited(@, command.value)
       [] command.type = "start"   -> Started(@, command.request)
       [] command.type = "resolve" -> Judged(@, command.request, command.verdict)
       [] command.type = "cancel"  -> Judged(@, command.request, NoVerdict)]

Changed(before, after) ==
  {n \in DOMAIN before \cup DOMAIN after :
     \/ n \notin DOMAIN before \cap DOMAIN after
     \/ before[n] # after[n]}

\* The newest Retention records.
Retain(kept, at, changed) ==
  LET added == [r \in DOMAIN kept \cup {at} |-> IF r = at THEN changed ELSE kept[r]]
      expired == {r \in DOMAIN added : Cardinality({s \in DOMAIN added : s > r}) >= Retention}
  IN  [r \in DOMAIN added \ expired |-> added[r]]

------------------------------------------------------------------------------
\* Publication.  A fact takes its number when it is made; a coordination that
\* holds facts back hands them out in that order when it commits.

Deliver(fact) == <<[op |-> "project", fact |-> fact], [op |-> "observe", fact |-> fact]>>

HoldsBackUntilCommitted == outbox.open /\ savepoint # None

HoldsBack == outbox.open

EmitFact ==
  /\ At("emit")
  /\ LET fact == [sequence |-> sequence + 1, kind |-> Task.kind,
                  changed |-> Task.changed, revision |-> Task.revision]
     IN  /\ sequence' = sequence + 1
         /\ \/ /\ HoldsBack
               /\ outbox' = [outbox EXCEPT !.facts = Append(@, fact)] /\ Do(<< >>)
               /\ UNCHANGED delivered
            \/ /\ ~HoldsBack /\ lifecycle = "active"
               /\ delivered' = fact.sequence /\ Do(Deliver(fact))
               /\ UNCHANGED outbox
            \/ /\ ~HoldsBack /\ lifecycle = "disposed"
               /\ Throw /\ UNCHANGED <<outbox, delivered>>
  /\ UNCHANGED <<lifecycle, storeVars, savepoint, routes, bindings, validationVars,
                 adapter, observerVars>>

\* Facts that are appended while the buffer is drained are drained with it.  A
\* disposed fabric refuses every fact; the refusals are swallowed.
DrainFact ==
  /\ At("drain")
  /\ IF outbox.facts = << >>
     THEN Do(<< >>) /\ outbox' = Closed /\ UNCHANGED delivered
     ELSE /\ outbox' = [outbox EXCEPT !.facts = Tail(@)]
          /\ IF lifecycle = "active"
             THEN /\ delivered' = Head(outbox.facts).sequence
                  /\ agenda' = Deliver(Head(outbox.facts)) \o <<Contained>> \o agenda
             ELSE UNCHANGED <<agenda, delivered>>
  /\ UNCHANGED <<lifecycle, storeVars, savepoint, sequence, routes, bindings,
                 validationVars, adapter, observerVars>>

\* Nodes for which calls in progress have store writes and validations to do.
Working(tasks) ==
  {tasks[i].node : i \in {j \in DOMAIN tasks : tasks[j].op \in {"start", "launch", "write", "perform"}}}
Busy == Working(agenda)
          \cup UNION {Working(agenda[i].work) : i \in {j \in DOMAIN agenda : agenda[j].op = "settle"}}

Reaction(task) == Do(<<task, Contained>>)

\* An observer, or a machine the router feeds, is handed a fact.  It may do
\* nothing or change a control.
Observe ==
  /\ At("observe")
  /\ \/ Do(<< >>) /\ UNCHANGED <<reactions, overlapped>>
     \/ /\ reactions < MaxReactions
        /\ reactions' = reactions + 1
        /\ \E n \in Nodes, v \in Values :
             /\ overlapped' = (overlapped \/ n \in Busy)
             /\ Reaction(Execute([type |-> "value", node |-> n, value |-> v]))
  /\ UNCHANGED throws
  /\ UNCHANGED <<lifecycle, storeVars, savepoint, publisherVars, routes, bindings,
                 validationVars, adapter>>

SelectorThrows == throws < MaxThrows /\ throws' = throws + 1

------------------------------------------------------------------------------
\* Commands

\* A change of value owes its store a write, with the value it has now.
BecameDirty(before, after) == before.dirty # after.dirty

Owes(before, after) == before.value # after.value

Writes(command, after) ==
  IF command.type = "value" /\ command.node \in Bound \cap NodesOf[bindings]
       /\ Owes(nodes[command.node], after[command.node])
  THEN <<[op |-> "write", node |-> command.node, value |-> after[command.node].value]>>
  ELSE << >>

TriggersOfIdle(command, changed) ==
  IF command.type = "value" THEN {n \in changed \cap Validated : active[n] = NoRequest} ELSE {}

Triggers(command, changed) == IF command.type = "value" THEN changed \cap Validated ELSE {}

\* Outside a coordination: the transaction, a fact for each command, the
\* transaction's fact, then store writes and validations, under one handler.
Commit(command) ==
  LET after == Applied(command)
      changed == Changed(nodes, after)
      next == IF changed = {} THEN revision ELSE revision + 1
  IN  /\ nodes' = after
      /\ revision' = next
      /\ records' = IF changed = {} THEN records ELSE Retain(records, next, changed)
      /\ \/ /\ Do(<<Emit("applied", {}, next)>>
                  \o [i \in DOMAIN Writes(command, after) |-> Emit("applied", {}, next)]
                  \o (IF changed = {} THEN << >> ELSE <<Emit("transaction", changed, next)>>)
                  \o <<[op |-> "settle",
                        work |-> Writes(command, after)
                                 \o Each("schedule", Triggers(command, changed))],
                       Rejecting>>)
            /\ UNCHANGED throws
         \/ /\ changed # {} /\ SelectorThrows
            /\ agenda' = Unwound(<<Rejecting>> \o Tail(agenda))

ExecuteCommand ==
  /\ At("execute")
  /\ \/ /\ lifecycle = "disposed" \/ savepoint # None
        /\ Throw /\ UNCHANGED <<storeVars, throws>>
     \/ /\ lifecycle = "active" /\ savepoint = None
        /\ \/ Applicable(Task.command) /\ Commit(Task.command)
           \/ /\ ~Applicable(Task.command)
              /\ agenda' = Unwound(<<Rejecting>> \o Tail(agenda))
              /\ UNCHANGED <<storeVars, throws>>
  /\ UNCHANGED <<lifecycle, savepoint, publisherVars, routes, bindings, validationVars,
                 adapter, reactions, overlapped>>

\* A coordination that is open by then, a broken one, keeps the work and never
\* does it.
Settle ==
  /\ At("settle")
  /\ Do(IF savepoint = None THEN Task.work ELSE << >>)
  /\ UNCHANGED <<lifecycle, storeVars, savepoint, publisherVars, routes, bindings,
                 validationVars, adapter, observerVars>>

\* The end of a handler that caught nothing, or an exception on its way.
Resume ==
  /\ \/ (At("contained") \/ At("rejecting")) /\ Do(<< >>)
     \/ At("throw") /\ Throw
  /\ UNCHANGED <<lifecycle, storeVars, savepoint, publisherVars, routes, bindings,
                 validationVars, adapter, observerVars>>

\* A store write is an effect: requested, run, settled.  A node the bindings
\* no longer name is not written.
RequestWrite ==
  /\ At("write")
  /\ Do(<<Emit("requested", {}, revision), [Task EXCEPT !.op = "perform"]>>)
  /\ UNCHANGED <<lifecycle, storeVars, savepoint, publisherVars, routes, bindings,
                 validationVars, adapter, observerVars>>

WriteStore ==
  /\ At("perform")
  /\ adapter' = IF Task.node \in NodesOf[bindings]
                THEN [adapter EXCEPT ![Task.node] = Task.value] ELSE adapter
  /\ Do(IF lifecycle = "active" THEN <<Emit("settled", {}, revision)>> ELSE << >>)
  /\ UNCHANGED <<lifecycle, storeVars, savepoint, publisherVars, routes, bindings,
                 validationVars, observerVars>>

------------------------------------------------------------------------------
\* Asynchronous validation

Without(request) == contexts \ {request}

Cancelled(set) == [n \in Nodes |-> IF n \in set THEN NoRequest ELSE active[n]]

\* A control without errors; that it has asynchronous validators says Validated.
CanValidate(control) == control.value \notin Rejected /\ control.verdict = NoVerdict

\* The validation in progress is stopped and its control told, then a new one is
\* started, if the control as it was at first has no errors.
ScheduleValidation ==
  /\ At("schedule")
  /\ LET node == Task.node
         request == active[node]
     IN  IF node \notin DOMAIN nodes
         THEN Do(<< >>) /\ UNCHANGED <<active, contexts>>
         ELSE /\ active' = Cancelled({node})
              /\ contexts' = Without(request)
              /\ Do((IF request = NoRequest THEN << >>
                     ELSE <<Execute([type |-> "cancel", node |-> node, request |-> request])>>)
                    \o (IF CanValidate(nodes[node]) THEN <<[op |-> "start", node |-> node]>>
                        ELSE << >>))
  /\ UNCHANGED <<lifecycle, storeVars, savepoint, publisherVars, routes, bindings, requests,
                 answers, adapter, observerVars>>

StartValidation ==
  /\ At("start")
  /\ LET request == requests + 1
     IN  /\ requests' = request
         /\ contexts' = contexts \cup {request}
         /\ Do(<<Execute([type |-> "start", node |-> Task.node, request |-> request]),
                 [op |-> "launch", node |-> Task.node, request |-> request]>>)
  /\ UNCHANGED <<lifecycle, storeVars, savepoint, publisherVars, routes, bindings, active,
                 answers, adapter, observerVars>>

\* The validator is handed the control as it is by now.
LaunchValidation ==
  /\ At("launch")
  /\ LET node == Task.node
     IN  IF node \in DOMAIN nodes
         THEN /\ active' = [active EXCEPT ![node] = Task.request]
              /\ answers' = answers \cup
                   {[node |-> node, request |-> Task.request, value |-> nodes[node].value]}
         ELSE UNCHANGED <<active, answers>>
  /\ Do(<< >>)
  /\ UNCHANGED <<lifecycle, storeVars, savepoint, publisherVars, routes, bindings, contexts,
                 requests, adapter, observerVars>>

\* A validator answers, on a turn of its own; one that was stopped may answer
\* all the same.
Current(answer) == active[answer.node] = answer.request

AnswerValidation(answer, verdict) ==
  /\ agenda = << >>
  /\ answers' = answers \ {answer}
  /\ IF Current(answer)
     THEN /\ active' = Cancelled({answer.node})
          /\ contexts' = Without(answer.request)
          /\ agenda' =
               IF answer.request \notin contexts THEN << >>
               ELSE <<Execute([type |-> "resolve", node |-> answer.node,
                               request |-> answer.request, verdict |-> verdict])>>
     ELSE UNCHANGED <<agenda, active, contexts>>
  /\ UNCHANGED <<lifecycle, storeVars, savepoint, publisherVars, routes, bindings, requests,
                 adapter, observerVars>>

------------------------------------------------------------------------------
\* Coordination: what beginCoordination captures, what commit keeps and what
\* discard restores.  settled: the store's own savepoint is used up.

Savepoint ==
  [nodes |-> nodes, revision |-> revision, sequence |-> sequence, routes |-> routes,
   bindings |-> bindings, settled |-> FALSE]

\* reconcile, executed in the coordination: tentative state, facts held back.
ReconcileTentatively(document) ==
  LET after == Reconciled(document)
      changed == Changed(nodes, after)
      next == IF changed = {} THEN revision ELSE revision + 1
      fact(kind, set, n) == [sequence |-> sequence + n, kind |-> kind,
                             changed |-> set, revision |-> next]
      facts == <<fact("applied", {}, 1)>>
               \o (IF changed = {} THEN << >> ELSE <<fact("transaction", changed, 2)>>)
  IN  /\ nodes' = after
      /\ revision' = next
      /\ sequence' = sequence + Len(facts)
      /\ outbox' = [open |-> TRUE, facts |-> facts]

NoRemoved == {}

Removed == DOMAIN savepoint.nodes \ DOMAIN nodes

\* The irreversible part of a commit: routes and validations of removed nodes
\* go, the candidate graph and its record stay, the facts are handed out and
\* the deferred validations scheduled.
CommitCoordination(rest) ==
  LET changed == Changed(savepoint.nodes, nodes)
  IN  /\ active' = Cancelled(Removed)
      /\ contexts' = contexts \ {active[n] : n \in Removed}
      /\ records' = IF changed = {} THEN records ELSE Retain(records, revision, changed)
      /\ savepoint' = None
      /\ Do(<<[op |-> "drain"]>> \o Each("schedule", changed \cap Validated) \o <<Contained>>
            \o rest)

\* A selector throws while the store refreshes its selections: the graph is
\* kept, the runtime stays coordinated and its savepoint cannot be used.
BreakCoordination ==
  LET changed == Changed(savepoint.nodes, nodes)
  IN  /\ changed # {}
      /\ active' = Cancelled(Removed)
      /\ contexts' = contexts \ {active[n] : n \in Removed}
      /\ records' = Retain(records, revision, changed)
      /\ savepoint' = [savepoint EXCEPT !.settled = TRUE]

KeepAuthorities == UNCHANGED bindings

RestoreAuthorities == bindings' = savepoint.bindings

FinishCoordination == savepoint' = None

DiscardCoordination ==
  /\ nodes' = savepoint.nodes
  /\ revision' = savepoint.revision
  /\ sequence' = savepoint.sequence
  /\ routes' = savepoint.routes
  /\ outbox' = Closed
  /\ RestoreAuthorities
  /\ FinishCoordination

\* dispose publishes its last fact while the runtime is still active.
Dispose == <<Emit("disposed", {}, revision), [op |-> "disposed"]>>

FinishDisposal ==
  /\ At("disposed")
  /\ lifecycle' = "disposed"
  /\ active' = Cancelled(Nodes)
  /\ contexts' = {}
  /\ routes' = {}
  /\ records' = << >>
  /\ Do(<< >>)
  /\ UNCHANGED <<nodes, revision, savepoint, publisherVars, bindings, requests, answers,
                 adapter, observerVars>>
=============================================================================
