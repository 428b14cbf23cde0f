---------------------------- MODULE Application ----------------------------
(***************************************************************************)
(* A mounted application (packages/unifold): it feeds the page's input to  *)
(* its runtime, projects the runtime's facts onto the page and replaces    *)
(* its document.  An update stages the candidate in a coordination of the  *)
(* runtime, prepares page, semantics and machines against it and commits,  *)
(* or restores every surface; an application that cannot be restored is    *)
(* quarantined.                                                            *)
(***************************************************************************)
EXTENDS Runtime

CONSTANTS
  MachineOf,  \* the machine a document declares
  InitialValue, \* value of every control of the stores and documents
  MaxCalls    \* bound on the calls of the page and the host

ASSUME ApplicationAssumption ==
  DOMAIN MachineOf = Documents /\ InitialValue \in Values /\ MaxCalls \in Nat

VARIABLES
  document,     \* the application's current document
  machine,      \* the machine whose records are installed, or None
  rendered,     \* the page: node -> what it shows
  ignored,      \* revision whose transaction is not projected, or 0
  updating,     \* an update is in progress
  unavailable,  \* disposed of or quarantined
  calls         \* bound: calls of the page and the host so far

applicationVars == <<document, machine, rendered, ignored, updating, unavailable, calls>>
vars == <<runtimeVars, applicationVars>>

View(control) ==
  [value |-> control.value, pending |-> control.request # NoRequest, verdict |-> control.verdict]

Page(graph) == [n \in DOMAIN graph |-> View(graph[n])]

Init ==
  /\ document \in Documents
  /\ nodes = [n \in NodesOf[document] |-> Fresh(InitialValue)]
  /\ agenda = << >> /\ lifecycle = "active"
  /\ revision = 0 /\ records = << >> /\ savepoint = None
  /\ sequence = 0 /\ outbox = Closed /\ delivered = 0
  /\ routes = {MachineOf[document]} /\ bindings = document
  /\ active = [n \in Nodes |-> NoRequest] /\ contexts = {} /\ requests = 0 /\ answers = {}
  /\ adapter = [n \in Nodes |-> InitialValue]
  /\ reactions = 0 /\ throws = 0 /\ overlapped = FALSE
  /\ machine = MachineOf[document] /\ rendered = Page(nodes)
  /\ ignored = 0 /\ updating = FALSE /\ unavailable = FALSE /\ calls = 0

------------------------------------------------------------------------------
\* Projection: the application is the first observer of every fact.

SuppressedWhileUpdating(fact) == ignored # 0

Suppressed(fact) == fact.revision = ignored

ProjectFact ==
  /\ At("project")
  /\ LET fact == Task.fact
         projects == ~unavailable /\ fact.kind = "transaction"
         changed == IF fact.revision \in DOMAIN records THEN records[fact.revision] ELSE {}
     IN  /\ ignored' = IF projects /\ Suppressed(fact) THEN 0 ELSE ignored
         /\ rendered' = IF ~projects \/ Suppressed(fact) THEN rendered
                        ELSE [n \in DOMAIN rendered |->
                                IF n \in changed \cap DOMAIN nodes THEN View(nodes[n])
                                ELSE rendered[n]]
  /\ Do(<< >>)
  /\ UNCHANGED <<lifecycle, storeVars, savepoint, publisherVars, routes, bindings,
                 validationVars, adapter, observerVars, document, machine, updating,
                 unavailable, calls>>

------------------------------------------------------------------------------
\* Replacing the document

Update(next) == [op |-> "update", document |-> next]
Later(op) == [op |-> op, previous |-> Task.previous]
RejectedFact == [sequence |-> sequence + 1, kind |-> "rejected", changed |-> {},
                 revision |-> revision]

\* update: refused while another is in progress; otherwise the candidate is
\* staged and reconciled in a coordination, which the node store may refuse.
BeginUpdate ==
  /\ At("update")
  /\ IF unavailable \/ updating
     THEN /\ Do(<< >>)
          /\ UNCHANGED <<storeVars, savepoint, publisherVars, bindings, document, updating>>
     ELSE /\ savepoint' = Savepoint
          /\ updating' = TRUE
          /\ document' = Task.document
          /\ bindings' = Task.document
          /\ \/ /\ ReconcileTentatively(Task.document)
                /\ Do(<<[op |-> "render", previous |-> document]>>)
             \/ /\ Do(<<[op |-> "giveUp", previous |-> document]>>)
                /\ sequence' = sequence + 1 /\ outbox' = [open |-> TRUE, facts |-> <<RejectedFact>>]
                /\ UNCHANGED <<nodes, revision>>
          /\ UNCHANGED <<records, delivered>>
  /\ UNCHANGED <<lifecycle, routes, validationVars, adapter, observerVars, machine, rendered,
                 ignored, unavailable, calls>>

\* The page, the semantics and the machines are prepared; the first two may
\* fail after the page has changed.
RenderCandidate ==
  /\ At("render")
  /\ \/ rendered' = Page(nodes) /\ Do(<<Later("commit")>>)
     \/ rendered' \in {rendered, Page(nodes)} /\ Do(<<Later("restore")>>)
  /\ UNCHANGED <<lifecycle, storeVars, savepoint, publisherVars, routes, bindings,
                 validationVars, adapter, observerVars, document, machine, ignored, updating,
                 unavailable, calls>>

\* The machine's records are installed, then the coordination is committed.
CommitCandidate ==
  /\ At("commit")
  /\ ignored' = revision
  /\ \/ /\ machine' = MachineOf[document]
        /\ routes' = (routes \ {machine}) \cup {MachineOf[document]}
        /\ CommitCoordination(<<[op |-> "finish"]>>)
        /\ UNCHANGED throws
     \/ /\ BreakCoordination /\ SelectorThrows
        /\ routes' = routes \ ({machine} \ {MachineOf[document]})
        /\ Do(<<Later("restore")>>)
        /\ UNCHANGED machine
  /\ UNCHANGED <<lifecycle, nodes, revision, publisherVars, bindings, requests, answers,
                 adapter, reactions, overlapped, document, rendered, updating, unavailable,
                 calls>>

FinishUpdate ==
  /\ At("finish")
  /\ ignored' = 0 /\ updating' = FALSE
  /\ Do(<< >>)
  /\ UNCHANGED <<lifecycle, storeVars, savepoint, publisherVars, routes, bindings,
                 validationVars, adapter, observerVars, document, machine, rendered,
                 unavailable, calls>>

\* The node store refused the candidate: nothing but the coordination to undo.
GiveUpCandidate ==
  /\ At("giveUp")
  /\ DiscardCoordination
  /\ document' = Task.previous /\ updating' = FALSE
  /\ Do(<< >>)
  /\ UNCHANGED <<lifecycle, records, delivered, validationVars, adapter, observerVars, machine,
                 rendered, ignored, unavailable, calls>>

\* A later step failed: the page is rendered again, which may fail as well.
RestoreCandidate ==
  /\ At("restore")
  /\ ~savepoint.settled
  /\ DiscardCoordination
  /\ document' = Task.previous
  /\ \/ /\ rendered' = Page(savepoint.nodes) /\ updating' = FALSE /\ Do(<< >>)
     \/ /\ Do(<<[op |-> "dispose"], [op |-> "quarantined"]>>) /\ UNCHANGED <<rendered, updating>>
  /\ UNCHANGED <<lifecycle, records, delivered, validationVars, adapter, observerVars, machine,
                 ignored, unavailable, calls>>

\* The store's savepoint is used up, so discarding throws before anything is
\* restored.
FailToRestore ==
  /\ At("restore")
  /\ savepoint.settled
  /\ Do(<<[op |-> "dispose"], [op |-> "quarantined"]>>)
  /\ UNCHANGED <<lifecycle, storeVars, savepoint, publisherVars, routes, bindings,
                 validationVars, adapter, observerVars, applicationVars>>

Quarantine ==
  /\ At("quarantined")
  /\ updating' = FALSE
  /\ Do(<< >>)
  /\ UNCHANGED <<lifecycle, storeVars, savepoint, publisherVars, routes, bindings,
                 validationVars, adapter, observerVars, document, machine, rendered, ignored,
                 unavailable, calls>>

\* dispose: page and machines go first; a runtime that is still coordinated
\* cannot discard its used savepoint and throws.
DisposeApplication ==
  /\ At("dispose")
  /\ IF unavailable
     THEN Do(<< >>) /\ UNCHANGED <<unavailable, rendered, machine, routes>>
     ELSE /\ unavailable' = TRUE
          /\ rendered' = << >>
          /\ machine' = None
          /\ routes' = routes \ {machine}
          /\ Do(IF savepoint # None THEN << >> ELSE Dispose)
  /\ UNCHANGED <<lifecycle, storeVars, savepoint, publisherVars, bindings, validationVars,
                 adapter, observerVars, document, ignored, updating, calls>>

------------------------------------------------------------------------------
\* Turns of the page, the host and the validators

Call(tasks) ==
  /\ agenda = << >> /\ calls < MaxCalls
  /\ agenda' = tasks
  /\ calls' = calls + 1
  /\ UNCHANGED <<lifecycle, storeVars, savepoint, publisherVars, routes, bindings,
                 validationVars, adapter, observerVars, document, machine, rendered, ignored,
                 updating, unavailable>>

\* An element's event: the intent is published, its command executed.
Input(node, value) ==
  /\ ~unavailable /\ node \in DOMAIN rendered
  /\ Call(<<Emit("intent", {}, revision),
            Execute([type |-> "value", node |-> node, value |-> value])>>)

\* An observer replaces the document or disposes of the application.
ObserveStructurally ==
  /\ At("observe")
  /\ reactions < MaxReactions /\ reactions' = reactions + 1
  /\ \/ /\ \E d \in Documents : Reaction(Update(d))
        /\ overlapped' = (overlapped \/ Busy # {})
     \/ Reaction([op |-> "dispose"]) /\ UNCHANGED overlapped
  /\ UNCHANGED <<lifecycle, storeVars, savepoint, publisherVars, routes, bindings,
                 validationVars, adapter, throws, applicationVars>>

RuntimeNext ==
  /\ \/ EmitFact \/ DrainFact \/ Observe \/ ExecuteCommand \/ Settle \/ Resume
     \/ RequestWrite \/ WriteStore
     \/ ScheduleValidation \/ StartValidation \/ LaunchValidation \/ FinishDisposal
     \/ \E answer \in answers :
          \/ AnswerValidation(answer, answer.value)
          \/ AnswerValidation(answer, NoVerdict)
  /\ UNCHANGED applicationVars

ApplicationNext ==
  \/ ProjectFact \/ BeginUpdate \/ RenderCandidate \/ CommitCandidate \/ FinishUpdate
  \/ GiveUpCandidate \/ RestoreCandidate \/ FailToRestore \/ Quarantine \/ DisposeApplication
  \/ ObserveStructurally
  \/ \E n \in Nodes, v \in Values : Input(n, v)
  \/ \E d \in Documents : Call(<<Update(d)>>)
  \/ Call(<<[op |-> "dispose"]>>)

Next == RuntimeNext \/ ApplicationNext

Spec == Init /\ [][Next]_vars

------------------------------------------------------------------------------
AtRest == agenda = << >>

ControlType ==
  [value : Values, dirty : BOOLEAN, request : 0 .. requests, verdict : Values \cup {NoVerdict}]

TypeOK ==
  /\ lifecycle \in {"active", "disposed"}
  /\ DOMAIN nodes \subseteq Nodes /\ \A n \in DOMAIN nodes : nodes[n] \in ControlType
  /\ Cardinality(DOMAIN records) <= Retention /\ \A r \in DOMAIN records : r \in 1 .. revision
  /\ document \in Documents /\ bindings \in Documents
  /\ active \in [Nodes -> 0 .. requests] /\ contexts \subseteq 1 .. requests
  /\ DOMAIN rendered \subseteq Nodes
  /\ delivered <= sequence

\* Facts reach observers in the order of their numbers and none is left out:
\* whatever observers do meanwhile, and although the numbers of a discarded
\* coordination are given again.
FactsInOrder == [][delivered' # delivered => delivered' = delivered + 1]_vars

\* A selector of the host that throws ends what a command owed to page, stores
\* and validators; two promises do not survive either an observer that changes
\* the very control a call is working for.
Undisturbed == AtRest /\ throws = 0

Quarantined == lifecycle = "disposed" /\ savepoint = None

\* An available application shows one document on every surface: after each
\* update, failed or not, runtime graph, bindings, page, installed machine and
\* the router agree on it.  What could not be restored is quarantined: an
\* unavailable application has disposed of its runtime.
SurfacesAgree ==
  AtRest =>
    /\ TypeOK
    /\ ~unavailable =>
         /\ lifecycle = "active" /\ savepoint = None /\ outbox = Closed /\ ~updating
         /\ DOMAIN nodes = NodesOf[document]
         /\ DOMAIN rendered = NodesOf[document]
         /\ bindings = document
         /\ machine = MachineOf[document] /\ routes = {machine}
    /\ unavailable /\ throws = 0 => Quarantined

\* The page shows the controls as they are, also those changed by observers
\* while an update handed out its facts.
PageCurrent == Undisturbed /\ ~unavailable => rendered = Page(nodes)

\* The stores hold the values of the controls bound to them.
StoresFollow ==
  Undisturbed /\ ~overlapped /\ ~unavailable =>
    \A n \in Bound \cap DOMAIN nodes : adapter[n] = nodes[n].value

\* A control is pending exactly while a validator works for it: no control
\* waits for an answer that cannot come, no validator works for a control
\* that is gone.
PendingIsAnswered ==
  Undisturbed /\ ~overlapped /\ lifecycle = "active" =>
    \A n \in Nodes : active[n] = IF n \in DOMAIN nodes THEN nodes[n].request ELSE NoRequest

\* The verdict a control shows is about the value it has.
VerdictsFresh ==
  throws = 0 => \A n \in DOMAIN nodes : nodes[n].verdict \in {nodes[n].value, NoVerdict}

\* The quarantine whatever the host's selectors do, as the documentation has it
\* and a throwing selector disproves (a known limit of README.md, of no run).
FailureQuarantines == AtRest /\ unavailable => Quarantined
=============================================================================
