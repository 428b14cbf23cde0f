------------------------------ MODULE NodeStore ------------------------------
(***************************************************************************)
(* The normalized node graph of a runtime (packages/reactivity) under the  *)
(* state commands of the runtime (command-handlers.ts, control-disabled.ts *)
(* in packages/runtime): NormalizedNodeStore.transact.                     *)
(*                                                                         *)
(* A command changes a draft of the graph.  What follows from the change,  *)
(* which nodes are disabled, what a form, group or array holds, and whose  *)
(* errors are shown on which control, is then derived anew only for the    *)
(* nodes the change reaches; a draft that cannot be derived is dropped.    *)
(*                                                                         *)
(* Two hierarchies overlap: the visual one (parent) and that of the        *)
(* controls (controlParent and the ordered list controls), which an        *)
(* authored topology states and an older document leaves to the first.     *)
(***************************************************************************)
EXTENDS Integers, SequencesExt

CONSTANTS
  Documents,   \* what a mount or StructureReconcile installs: id -> definition
  Updates,     \* updates: a document, its identity aliases (new id -> old id), its resets
  Loose,       \* definitions of the nodes that commands add one by one
  Values,      \* what a user enters; Empty is what a control starts with
  Statuses,    \* what ControlSetStatus sets
  Patched,     \* the nodes commands disable, enable, patch or set a status of (a bound)
  Requests,    \* ids of asynchronous validations (a bound: each starts once)
  None

Empty == 0

\* f where it is defined, and g elsewhere.
Over(f, g) == [x \in DOMAIN f \cup DOMAIN g |-> IF x \in DOMAIN f THEN f[x] ELSE g[x]]

ASSUME ValuesAssumption == Values \subseteq Nat

VARIABLES
  state,   \* the graph: nodes, children, controls (controlChildren), routes
  used     \* requests that have been started

vars == <<state, used>>

-----------------------------------------------------------------------------
(* Topology.  A definition is the part of a snapshot its document gives.   *)

Leaf(d) == d.kind = "control"
Aggregate(d) == d.kind \in {"form", "group", "record", "array"}
HasControl(d) == d.kind # "visual"

\* d.lists: the document gives the node's controlChildIds.
Explicit(d) == d.lists \/ d.key # None \/ d.controlParent # None

LogicalParent(d) == IF Explicit(d) THEN d.controlParent ELSE d.parent

\* The parent that disablement and aggregation follow.
EffectiveParent(d) == IF d.controlParent # None THEN d.controlParent ELSE d.parent

\* A node of an older document under a parent that lists its controls is none of them.
Ignored(doc, d) == ~Explicit(d) /\ d.parent \in DOMAIN doc /\ doc[d.parent].lists

BuildChildren(doc) == [id \in DOMAIN doc |-> {c \in DOMAIN doc : doc[c].parent = id}]

BuildControls(doc) ==
  LET legacy(id) == {c \in DOMAIN doc : ~Explicit(doc[c]) /\ doc[c].parent = id}
  IN  [id \in DOMAIN doc |-> IF doc[id].lists THEN doc[id].controls ELSE SetToSeq(legacy(id))]

\* validateDesiredNodes, but for cycles, which NodeStoreAssumption leaves out.
ValidDocument(doc) ==
  LET listed == BuildControls(doc)
  IN  \A id \in DOMAIN doc :
        LET parent == LogicalParent(doc[id])
        IN  /\ doc[id].parent \in (DOMAIN doc \ {id}) \cup {None}
            /\ \/ parent = None
               \/ Ignored(doc, doc[id])
               \/ parent \in DOMAIN doc /\ id \in Range(listed[parent])
            /\ IsInjective(listed[id])
            /\ \A c \in Range(listed[id]) :
                 /\ c \in DOMAIN doc /\ LogicalParent(doc[c]) = id
                 /\ \A e \in Range(listed[id]) \ {c} : doc[c].key = None \/ doc[c].key # doc[e].key

AllDocuments == Documents \cup {u.document : u \in Updates}
ValidDocuments == {doc \in AllDocuments : ValidDocument(doc)}

\* Every node that a document or a command can name.
DocumentIds == UNION {DOMAIN doc : doc \in AllDocuments}
LooseIds == {d.id : d \in Loose}
AllIds == DocumentIds \cup LooseIds

NodeStatuses == {"valid", "invalid", "pending", "disabled", "none"}

\* A document keys a definition by its id, and lists its controls.  Upwards from
\* a node there is an end: validateDesiredNodes rejects a cycle of parents, and
\* one of control parents; a cycle through both kinds is left out.
ASSUME NodeStoreAssumption ==
  /\ IsFiniteSet(AllIds) /\ None \notin AllIds
  /\ Statuses \subseteq NodeStatuses
  /\ \A d \in Loose : d.own \in BOOLEAN
  /\ \A doc \in AllDocuments : \A id \in DOMAIN doc :
       /\ doc[id].id = id /\ doc[id].own \in BOOLEAN
       /\ doc[id].controls \in Seq(Range(doc[id].controls))
  /\ \A doc \in ValidDocuments :
       \E depth \in [DOMAIN doc -> 0..Cardinality(DOMAIN doc)] :
         \A id \in DOMAIN doc :
           LET above == EffectiveParent(doc[id])
           IN  above \in DOMAIN doc => depth[above] < depth[id]

-----------------------------------------------------------------------------
(* What documents may be like: no assumption of the model, but hypotheses  *)
(* of some of the theorems about it.                                       *)

\* The definitions that nodes can have.
Definitions == Loose \cup UNION {{doc[id] : id \in DOMAIN doc} : doc \in ValidDocuments}

\* The definitions of the nodes that lists hold.
Members ==
  {d \in Loose : LogicalParent(d) # None}
    \cup UNION {{doc[c] : c \in UNION {Range(BuildControls(doc)[id]) : id \in DOMAIN doc}} :
                 doc \in ValidDocuments}

\* Whoever a list can have above it.
Holding == {LogicalParent(d) : d \in Members}

\* What the store's walk down the lists takes for granted of the documents: a
\* node that holds controls has no parent, or a control parent, or is of an
\* older document, in which the parents are the control parents.
RootedControls ==
  \A d \in Definitions : d.id \in Holding =>
    \/ d.parent = None
    \/ d.controlParent # None
    \/ ~Explicit(d) /\ \A e \in Definitions : e.id = d.parent => ~e.lists

\* What a union over the lists takes for granted of the documents: a field holds
\* no controls, and the members of a form, group or array are fields or such.
ControlMembers ==
  \A d \in Members : \A e \in Definitions : e.id = LogicalParent(d) =>
    ~Leaf(e) /\ (Aggregate(e) => Leaf(d) \/ Aggregate(d))

-----------------------------------------------------------------------------
(* Controls and their validators.                                          *)

Blank(d) ==
  [value |-> IF Aggregate(d) THEN << >> ELSE Empty,
   raw |-> IF Aggregate(d) THEN << >> ELSE Empty,
   errors |-> {}, pending |-> FALSE, request |-> None, dirty |-> FALSE,
   status |-> IF HasControl(d) THEN "valid" ELSE "none"]

\* A snapshot of a definition, as the renderer creates it.
Snapshot(d) == [def |-> d, own |-> d.own, disabled |-> d.own, control |-> Blank(d)]

Error(d, async) == [owner |-> d.id, async |-> async, names |-> d.names]

\* External: the validator of a control wants a value, that of an aggregate
\* the same value from all of its members.
Breaks(d, value) ==
  IF Leaf(d) THEN value = Empty
  ELSE \E i, j \in DOMAIN value : value[i][2] # value[j][2]

SyncErrors(d, value) == IF d.rule /\ Breaks(d, value) THEN {Error(d, FALSE)} ELSE {}

Verdict(errors) == IF errors = {} THEN "valid" ELSE "invalid"

\* disabledControl, and the result of validating a disabled control.
Silenced(control) ==
  [control EXCEPT !.errors = {}, !.pending = FALSE, !.request = None, !.status = "disabled"]

\* applyValidation keeps a request, withValidatedControl drops it.
Validated(node) ==
  LET errors == SyncErrors(node.def, node.control.value)
  IN  IF node.disabled THEN [Silenced(node.control) EXCEPT !.request = node.control.request]
      ELSE [node.control EXCEPT !.errors = errors, !.pending = FALSE, !.status = Verdict(errors)]

Revalidated(node) == [Validated(node) EXCEPT !.request = None]

WithValidated(node) ==
  IF HasControl(node.def) THEN [node EXCEPT !.control = Revalidated(node)] ELSE node

WithoutAsync(errors) == {e \in errors : ~e.async}

-----------------------------------------------------------------------------
(* Deriving: s is a graph, as the variable state.                          *)

\* id and what is above it, along the function up (which ends at None).
Path(up, id) ==
  LET path[i \in AllIds \cup {None}] == IF i \in DOMAIN up THEN {i} \cup path[up[i]] ELSE {}
  IN  path[id]

\* The two ways up: by the parent a node names, and by the list that holds it.
NamedParents(s) == [id \in DOMAIN s.nodes |-> EffectiveParent(s.nodes[id].def)]
Holders(s) ==
  [id \in DOMAIN s.nodes |->
     IF \E p \in DOMAIN s.controls : id \in Range(s.controls[p])
     THEN CHOOSE p \in DOMAIN s.controls : id \in Range(s.controls[p])
     ELSE None]

\* The nodes of a set with those in the lists below them.
Below(s, roots) ==
  LET below[id \in DOMAIN s.controls] == {id} \cup UNION {below[c] : c \in Range(s.controls[id])}
  IN  UNION {below[id] : id \in roots \cap DOMAIN s.nodes}

\* reconcileNode of effective-disabled.ts.  Only collection inserts give no
\* validator, and for them it makes no difference.
DisabledNode(node, disabled) ==
  LET next == [node EXCEPT !.disabled = disabled]
      retained == ~node.disabled /\ node.control.status # "disabled"
  IN  CASE ~HasControl(node.def) -> next
        [] HasControl(node.def) /\ disabled -> [next EXCEPT !.control = Silenced(@)]
        [] HasControl(node.def) /\ ~disabled /\ retained -> next
        [] HasControl(node.def) /\ ~disabled /\ ~retained -> [next EXCEPT !.control = Revalidated(next)]

\* Mutation of OrderedRoots: the candidates that no other node is above.
TopRoots(parents, candidates) == {id \in candidates : parents[id] = None}

\* Where orderedIds starts: the candidates whose named parents are none.
OrderedRoots(parents, candidates) == {id \in candidates : parents[id] \notin candidates}

\* reconcileEffectiveDisabled: down the lists from the roots, parents first.
\* Candidates that no list connects to such a root are not visited.
ReconcileDisabled(s, roots) ==
  LET n == s.nodes
      parents == NamedParents(s)
      candidates == Below(s, roots)
      visited == candidates \cap Below(s, OrderedRoots(parents, candidates))
      disabled[id \in AllIds \cup {None}] ==
        /\ id \in DOMAIN n
        /\ IF id \in visited THEN n[id].own \/ disabled[parents[id]] ELSE n[id].disabled
  IN  [s EXCEPT !.nodes = Over([id \in visited |-> DisabledNode(n[id], disabled[id])], n)]

Key(d) == IF d.key # None THEN d.key ELSE d.id

\* readControlChildren and activeChildren, of the nodes in a list of controls,
\* in the order of the list and as sets.
ControlChildren(children) == SelectSeq(children, LAMBDA c : HasControl(c.def))
ActiveChildren(children) == SelectSeq(children, LAMBDA c : ~c.disabled)
Controls(children) == {c \in Range(children) : HasControl(c.def)}
EnabledControls(children) == {c \in Controls(children) : ~c.disabled}

\* aggregateControl and validatedAggregate of a node, by the nodes in its list.
\* The status that aggregateStatus gives an enabled one is replaced in the latter.
Recomputed(node, listed) ==
  LET children == ControlChildren(listed)
      active == ActiveChildren(children)
      entry(child, v) == << IF node.def.kind = "array" THEN None ELSE Key(child.def), v >>
      value == [i \in DOMAIN active |-> entry(active[i], active[i].control.value)]
      raw == [i \in DOMAIN children |-> entry(children[i], children[i].control.raw)]
      silent == node.disabled \/ (children # << >> /\ active = << >>)
      enabled == EnabledControls(listed)
      pending == (\E child \in enabled : child.control.pending) \/ node.control.request # None
      errors == (UNION {child.control.errors : child \in enabled})
                \cup {e \in node.control.errors : e.owner = node.def.id /\ e.async}
                \cup (IF silent THEN {} ELSE SyncErrors(node.def, value))
  IN  [node.control EXCEPT
         !.value = value, !.raw = raw, !.errors = errors, !.pending = pending,
         !.dirty = \E child \in Controls(listed) : child.control.dirty,
         !.status = CASE silent -> "disabled"
                      [] ~silent /\ pending -> "pending"
                      [] ~silent /\ ~pending -> Verdict(errors)]

\* Mutation of AffectedNodes: the changed nodes and their parents.
AffectedParents(parents, changed) ==
  DOMAIN parents \cap (changed \cup {parents[id] : id \in changed \cap DOMAIN parents})

\* The nodes whose aggregates are recomputed: the changed ones and all above them.
AffectedNodes(parents, changed) == UNION {Path(parents, id) : id \in changed}

\* recomputeAggregateControls: deepest first.
RecomputeAggregates(s, affected) ==
  LET n == s.nodes
      node[id \in DOMAIN n] ==
        IF id \in affected /\ Aggregate(n[id].def)
        THEN LET listed == [i \in DOMAIN s.controls[id] |-> node[s.controls[id][i]]]
             IN  [n[id] EXCEPT !.control = Recomputed(n[id], listed)]
        ELSE n[id]
  IN  [s EXCEPT !.nodes = Over([id \in affected |-> node[id]], n)]

\* The errors that a node owns.
OwnErrors(s, id) ==
  IF id \in DOMAIN s.nodes THEN {e \in s.nodes[id].control.errors : e.owner = id} ELSE {}

\* Mutation of ReconcileRoutes: errors that are gone are still shown.
AddRoutes(s, owners) ==
  LET owned == UNION {OwnErrors(s, o) : o \in owners}
      shown(id) == IF id \in DOMAIN s.routes THEN s.routes[id] ELSE {}
      targets == DOMAIN s.routes \cup UNION {e.names \ {e.owner} : e \in owned}
  IN  [s EXCEPT !.routes = [id \in targets |-> shown(id) \cup {e \in owned : id \in e.names \ {e.owner}}]]

\* reconcileValidationRoutes for the errors of some owners.
ReconcileRoutes(s, owners) ==
  LET owned == UNION {OwnErrors(s, o) : o \in owners}
      kept(id) == {e \in (IF id \in DOMAIN s.routes THEN s.routes[id] ELSE {}) : e.owner \notin owners}
      routed(id) == kept(id) \cup {e \in owned : id \in e.names \ {e.owner}}
      targets == DOMAIN s.routes \cup UNION {e.names : e \in owned}
  IN  [s EXCEPT !.routes = [id \in {i \in targets : routed(i) # {}} |-> routed(id)]]

\* requireControlTarget: an error names controls of the graph.
Routable(s, owners) ==
  \A o \in owners : \A e \in OwnErrors(s, o) : \A id \in e.names \ {o} :
    id \in DOMAIN s.nodes /\ HasControl(s.nodes[id].def)

\* deriveState: the derived graph, and the owners whose errors were routed.
Derived(s, direct) ==
  LET disabled == ReconcileDisabled(s, direct)
      changed == direct \cup {id \in DOMAIN s.nodes : disabled.nodes[id] # s.nodes[id]}
      affected == AffectedNodes(NamedParents(s), changed)
      aggregated == RecomputeAggregates(disabled, affected)
      owners == changed \cup {id \in affected : Aggregate(s.nodes[id].def)}
  IN  [graph |-> ReconcileRoutes(aggregated, owners), owners |-> owners]

\* The nodes whose entries a draft changed.
Differing(s) ==
  LET same(f, g, id) == (id \in DOMAIN f <=> id \in DOMAIN g) /\ (id \in DOMAIN f => f[id] = g[id])
  IN  {id \in AllIds : \/ ~same(s.nodes, state.nodes, id)
                       \/ ~same(s.children, state.children, id)
                       \/ ~same(s.controls, state.controls, id)}

\* transact: s is the draft after the command, fresh the nodes that it gave new
\* arrays, equal or not.  An unchanged draft leaves the graph as it is.
Transact(s, fresh) ==
  LET derived == Derived(s, Differing(s) \cup fresh)
  IN  /\ state' = derived.graph
      /\ Routable(state', derived.owners)

-----------------------------------------------------------------------------
(* Commands on controls.                                                   *)

Has(id) == id \in DOMAIN state.nodes
Node(id) == state.nodes[id]
IsControl(id) == Has(id) /\ HasControl(Node(id).def)

Put(s, id, node) == [s EXCEPT !.nodes[id] = node]
Fields(id, control) == [Node(id) EXCEPT !.control = control]
Validating(node) == [node EXCEPT !.control = Validated(node)]

\* Every node below f in the lists, and f, as change makes it.
ControlsBelow(f) == {id \in Below(state, {f}) : IsControl(id)}
PutBelow(f, change(_)) ==
  [state EXCEPT !.nodes = Over([id \in ControlsBelow(f) |-> change(Node(id))], @)]

SetValue(id, v) ==
  /\ IsControl(id) /\ Leaf(Node(id).def)
  /\ LET typed == [Node(id).control EXCEPT !.raw = v, !.dirty = TRUE]
     IN  IF Node(id).def.updateOn = "input"
         THEN Transact(Put(state, id, Validating(Fields(id, [typed EXCEPT !.value = v]))), {id})
         ELSE Transact(Put(state, id, Fields(id, typed)), {})
  /\ UNCHANGED used

\* blurControl; that the control is touched is left out.
MarkTouched(id) ==
  /\ IsControl(id) /\ Leaf(Node(id).def)
  /\ LET control == Node(id).control
         committed == IF Node(id).def.updateOn = "blur" THEN [control EXCEPT !.value = control.raw] ELSE control
     IN  IF Node(id).def.updateOn = "submit" THEN Transact(state, {id})
         ELSE Transact(Put(state, id, Validating(Fields(id, committed))), {id})
  /\ UNCHANGED used

ResetControl(node) ==
  LET blank == [node.control EXCEPT !.value = Blank(node.def).value, !.raw = Blank(node.def).raw,
                                    !.dirty = FALSE]
  IN  Validating([node EXCEPT !.control = blank])

Reset(f) ==
  /\ IsControl(f) /\ Aggregate(Node(f).def)
  /\ Transact(PutBelow(f, ResetControl), ControlsBelow(f))
  /\ UNCHANGED used

SubmitControl(node) ==
  IF node.disabled THEN node
  ELSE Validating([node EXCEPT !.control.value =
                     IF node.def.updateOn = "submit" THEN node.control.raw ELSE @])

Submit(f) ==
  /\ IsControl(f) /\ Aggregate(Node(f).def)
  /\ Transact(PutBelow(f, SubmitControl), {id \in ControlsBelow(f) : ~Node(id).disabled})
  /\ UNCHANGED used

OwnDisabled(id, b) == ReconcileDisabled(Put(state, id, [Node(id) EXCEPT !.own = b]), {id})

\* ControlSetDisabled, and NodePatchProperties with the property disabled.
SetDisabled(id, b) ==
  /\ Has(id) /\ Node(id).own # b
  /\ Transact(OwnDisabled(id, b), {})
  /\ UNCHANGED used

\* NodePatchProperties with another property.
PatchProperties(id) ==
  /\ Has(id)
  /\ Transact(state, {id})
  /\ UNCHANGED used

SetStatus(id, status) ==
  /\ IsControl(id)
  /\ LET s == OwnDisabled(id, status = "disabled")
         control == [s.nodes[id].control EXCEPT !.status = status, !.pending = status = "pending"]
     IN  Transact(IF status = "disabled" THEN s ELSE [s EXCEPT !.nodes[id].control = control], {})
  /\ UNCHANGED used

\* An asynchronous validation starts where canValidate of runtime-validation.ts allows.
Start(id, r) ==
  /\ IsControl(id) /\ r \in Requests \ used
  /\ Node(id).def.async /\ ~Node(id).disabled /\ Node(id).control.errors = {}
  /\ Transact(Put(state, id, Fields(id, [Node(id).control EXCEPT
                !.errors = WithoutAsync(@), !.pending = TRUE, !.status = "pending", !.request = r])),
              {id})
  /\ used' = used \cup {r}

\* What the answer of the current request, or its cancellation, makes of a control.
Answered(id, errors) ==
  LET all == WithoutAsync(Node(id).control.errors) \cup errors
  IN  [Node(id).control EXCEPT !.errors = all, !.pending = FALSE, !.request = None,
         !.status = IF Node(id).disabled THEN "disabled" ELSE Verdict(all)]

Resolve(id, errors) ==
  /\ IsControl(id) /\ Node(id).control.request # None
  /\ errors \in SUBSET {Error(Node(id).def, TRUE)}
  /\ Transact(Put(state, id, Fields(id, Answered(id, errors))), {id})
  /\ UNCHANGED used

-----------------------------------------------------------------------------
(* Commands on the structure.                                              *)

\* assertParent, assertControlParent.
Available(d) ==
  /\ ~Has(d.id)
  /\ {d.parent, LogicalParent(d)} \subseteq DOMAIN state.nodes \cup {None}
  /\ LogicalParent(d) # None /\ d.key # None =>
       \A c \in Range(state.controls[LogicalParent(d)]) : Node(c).def.key # d.key

\* Where a new node goes when no index is given: after its siblings.
End(d) == IF LogicalParent(d) = None THEN 1 ELSE Len(state.controls[LogicalParent(d)]) + 1

\* add of transaction-draft.ts.
Added(d, node, index) ==
  LET in(id, f, empty) == [i \in DOMAIN f \cup {d.id} |-> IF i = d.id THEN empty ELSE f[i]]
      children == in(d.id, state.children, {})
      controls == in(d.id, state.controls, << >>)
      parent == LogicalParent(d)
  IN  [state EXCEPT
         !.nodes = in(d.id, state.nodes, node),
         !.children = IF d.parent = None THEN children ELSE [children EXCEPT ![d.parent] = @ \cup {d.id}],
         !.controls = IF parent = None THEN controls ELSE [controls EXCEPT ![parent] = InsertAt(@, index, d.id)]]

\* ControlCollectionInsert: the inserted control is not validated.
Insert(d, index) ==
  /\ Available(d) /\ d.controlParent # None /\ d.key # None
  /\ index \in 1..Len(state.controls[d.controlParent]) + 1
  /\ Transact(ReconcileDisabled(Added(d, Snapshot(d), index), {d.id}), {})
  /\ UNCHANGED used

\* StructureInstantiate.
Instantiate(d) ==
  /\ Available(d)
  /\ Transact(ReconcileDisabled(Added(d, WithValidated(Snapshot(d)), End(d)), {d.id}), {})
  /\ UNCHANGED used

\* removeAt of an index: a list of siblings without one of them, which it may hold once.
Detached(list, id) ==
  IF id \in Range(list) THEN RemoveAt(list, CHOOSE i \in DOMAIN list : list[i] = id) ELSE list

\* Mutation of Move: the node is not taken from where it was.
MoveCopy(id, index) ==
  LET p == Holders(state)[id]
  IN  /\ Has(id) /\ p # None /\ Node(id).def.key # None
      /\ index \in DOMAIN state.controls[p] /\ state.controls[p][index] # id
      /\ Transact([state EXCEPT !.controls[p] = InsertAt(@, index, id)], {})
      /\ UNCHANGED used

\* ControlCollectionMove.
Move(id, index) ==
  LET p == Holders(state)[id]
  IN  /\ Has(id) /\ p # None /\ Node(id).def.key # None
      /\ index \in DOMAIN state.controls[p] /\ state.controls[p][index] # id
      /\ Transact([state EXCEPT !.controls[p] = InsertAt(Detached(@, id), index, id)], {})
      /\ UNCHANGED used

Without(f, id) == [i \in DOMAIN f \ {id} |-> f[i]]

\* StructureRemove, ControlCollectionRemove.
RemoveNode(id) ==
  /\ Has(id) /\ state.children[id] = {} /\ state.controls[id] = << >>
  /\ Transact([state EXCEPT
                 !.nodes = Without(@, id),
                 !.children = [i \in DOMAIN @ \ {id} |-> @[i] \ {id}],
                 !.controls = [i \in DOMAIN @ \ {id} |-> Detached(@[i], id)]], {})
  /\ UNCHANGED used

\* Mutation of Migrated: an edit is kept as what was committed.
MigratedValue(current, desired) ==
  IF ~HasControl(desired.def) THEN desired
  ELSE [desired EXCEPT !.control.value = current.control.value]

\* migrateControl: what a control keeps of the one it replaces.
Migrated(current, desired) ==
  IF ~HasControl(desired.def) \/ ~current.control.dirty THEN desired
  ELSE [desired EXCEPT !.control =
          LET errors == WithoutAsync(current.control.errors)
          IN  [current.control EXCEPT
                 !.errors = errors, !.pending = FALSE, !.request = None,
                 !.status = IF desired.disabled THEN "disabled" ELSE Verdict(errors)]]

\* sameControlContract: a node of another kind or type starts anew.
SameContract(d, e) == d.kind = e.kind /\ d.type = e.type

\* reconcileNode of transaction-draft.ts and the validation after it.
Reconciled(d, source, reset) ==
  LET desired == WithValidated(Snapshot(d))
      node == IF reset \/ ~Has(source) \/ ~SameContract(Node(source).def, d) THEN desired
              ELSE Migrated(Node(source), desired)
  IN  IF HasControl(d) THEN Validating(node) ELSE node

\* validateIdentityAliases, validateResetNodes.
ValidUpdate(u) ==
  /\ u.document \in ValidDocuments
  /\ \A id \in DOMAIN u.aliases :
       /\ id \in DOMAIN u.document /\ ~Has(id)
       /\ u.aliases[id] \notin DOMAIN u.document /\ Has(u.aliases[id])
  /\ IsInjective(u.aliases)
  /\ u.resets \subseteq DOMAIN u.document \ DOMAIN u.aliases

\* StructureReconcile.
Reconcile(u) ==
  /\ ValidUpdate(u)
  /\ LET doc == u.document
         source(id) == IF id \in DOMAIN u.aliases THEN u.aliases[id] ELSE id
         s == [nodes |-> [id \in DOMAIN doc |-> Reconciled(doc[id], source(id), id \in u.resets)],
               children |-> BuildChildren(doc),
               controls |-> BuildControls(doc),
               routes |-> state.routes]
     IN  Transact(ReconcileDisabled(s, DOMAIN doc), {id \in DOMAIN doc : HasControl(doc[id])})
  /\ UNCHANGED used

\* createInitialNodeState, from snapshots that the runtime has validated.
Init ==
  /\ \E doc \in Documents \cap ValidDocuments :
       LET s == [nodes |-> [id \in DOMAIN doc |-> WithValidated(Snapshot(doc[id]))],
                 children |-> BuildChildren(doc),
                 controls |-> BuildControls(doc),
                 routes |-> << >>]
       IN  state = Derived(s, DOMAIN doc).graph
  /\ used = {}

Next ==
  \/ \E id \in AllIds :
       \/ \E v \in Values : SetValue(id, v)
       \/ MarkTouched(id)
       \/ Reset(id)
       \/ Submit(id)
       \/ \E r \in Requests : Start(id, r)
       \/ \E errors \in SUBSET {Error(d, TRUE) : d \in {Node(i).def : i \in {id} \cap DOMAIN state.nodes}} :
            Resolve(id, errors)
       \/ \E index \in 1..Cardinality(AllIds) : Move(id, index)
       \/ RemoveNode(id)
  \/ \E id \in Patched :
       \/ \E b \in BOOLEAN : SetDisabled(id, b)
       \/ PatchProperties(id)
       \/ \E status \in Statuses : SetStatus(id, status)
  \/ \E d \in Loose :
       \/ \E index \in 1..Cardinality(AllIds) : Insert(d, index)
       \/ Instantiate(d)
  \/ \E u \in Updates : Reconcile(u)

Spec == Init /\ [][Next]_vars

-----------------------------------------------------------------------------
(* Properties.                                                             *)

Present == DOMAIN state.nodes

\* The graph and its indexes are what the code's types say.
TypeOK ==
  /\ used \subseteq Requests
  /\ Present \subseteq AllIds
  /\ DOMAIN state.children = Present /\ DOMAIN state.controls = Present
  /\ \A id \in Present :
       /\ Node(id).def.id = id
       /\ Node(id).own \in BOOLEAN /\ Node(id).disabled \in BOOLEAN
       /\ Node(id).control.status \in NodeStatuses
       /\ Node(id).control.request \in Requests \cup {None}

\* After any commands the graph is well-formed, and the two indexes tell what
\* the nodes say of themselves: every list holds nodes that name its owner, once each, every control that
\* names a parent is in its list, and the visual children are those of the parents.
IndexesAgree ==
  /\ TypeOK
  /\ \A p \in Present :
       /\ IsInjective(state.controls[p])
       /\ \A c \in Range(state.controls[p]) : c \in Present /\ LogicalParent(Node(c).def) = p
       /\ state.children[p] = {c \in Present : Node(c).def.parent = p}
  /\ \A c \in Present : Node(c).def.controlParent # None =>
       Node(c).def.controlParent \in Present /\ c \in Range(state.controls[Node(c).def.controlParent])

Silent(control) ==
  /\ control.errors = {} /\ control.status = "disabled"
  /\ ~control.pending /\ control.request = None

\* A node of the control hierarchy is disabled exactly when it, or one above
\* it, is meant to be: no order of commands leaves a node disabled that should
\* be restored, or enabled below one that is disabled.  While it is disabled it
\* shows no error and awaits no validation.
EffectiveDisabled ==
  \A id \in Present :
    (Holders(state)[id] # None \/ Node(id).def.parent = None) =>
      /\ Node(id).disabled <=> \E above \in Path(Holders(state), id) : Node(above).own
      /\ Node(id).disabled /\ IsControl(id) => Silent(Node(id).control)

\* The enabled controls in the subtree of an aggregate, reached through enabled ones.
EnabledBelow(a) ==
  {id \in Below(state, {a}) \ {a} : IsControl(id) /\ ~Node(id).disabled}

\* What an aggregate holds is a function of the controls below it as they are
\* now, however few of them the last command touched: the committed values of the
\* enabled ones, the raw values of all, their errors beside its own, and whether
\* any is edited or awaits a validation.
AggregatesSummarise ==
  \A a \in {id \in Present : Aggregate(Node(id).def)} :
    LET control == Node(a).control
        children == ControlChildren([i \in DOMAIN state.controls[a] |-> Node(state.controls[a][i])])
        enabled == ActiveChildren(children)
        below == EnabledBelow(a)
    IN  /\ [i \in DOMAIN control.raw |-> control.raw[i][2]] =
             [i \in DOMAIN children |-> children[i].control.raw]
        /\ [i \in DOMAIN control.value |-> control.value[i][2]] =
             [i \in DOMAIN enabled |-> enabled[i].control.value]
        /\ control.errors = UNION {OwnErrors(state, id) : id \in below \cup {a}}
        /\ control.pending <=>
             \/ control.request # None
             \/ \E id \in below : Leaf(Node(id).def) /\ Node(id).control.pending
             \/ \E id \in below : Aggregate(Node(id).def) /\ Node(id).control.request # None
        /\ control.dirty <=>
             \E id \in Below(state, {a}) : IsControl(id) /\ Leaf(Node(id).def) /\ Node(id).control.dirty

\* The errors shown on a control are those that other controls of the graph own
\* now and that name it, though only the changed owners' are ever routed anew.
ErrorsRouted ==
  \A id \in Present :
    (IF id \in DOMAIN state.routes THEN state.routes[id] ELSE {}) =
      {e \in UNION {OwnErrors(state, o) : o \in Present \ {id}} : id \in e.names}

\* What a user has typed stays until it is typed over, or reset, or its node
\* becomes one of another kind or type: no disablement, move, validation or structural
\* update of its document changes it.
EditsKept ==
  [][\A id \in Present \cap DOMAIN state'.nodes :
       Leaf(Node(id).def) /\ Node(id).control.dirty
         /\ state'.nodes[id].control.raw # Node(id).control.raw
       => \/ \E v \in Values : SetValue(id, v)
          \/ \E f \in Path(Holders(state), id) : Reset(f)
          \/ \E u \in Updates :
               /\ Reconcile(u)
               /\ id \in u.resets \/ ~SameContract(Node(id).def, u.document[id])]_vars
=============================================================================
