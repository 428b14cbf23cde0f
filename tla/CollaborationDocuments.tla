----------------------- MODULE CollaborationDocuments -----------------------
(* Documents, JSON pointers, patches and the conflict check of             *)
(* packages/collaboration (pointer.ts, patch.ts, conflict.ts).             *)
(*                                                                         *)
(* A pointer is the sequence of its decoded tokens, "/" is <<"">>.  A      *)
(* document keeps a title and an array of items over the model values      *)
(* Values; every other member of a real document behaves like the title.   *)
EXTENDS Integers, Sequences, FiniteSets, SequencesExt

CONSTANTS Values,     \* JSON values
          MaxItems    \* the longest array the host's validation admits

ASSUME DocumentsAssumption == MaxItems \in Nat

\* The array indexes a pointer can name, counted from zero: an insertion may
\* name the one after the last element.
IndexTokens == {ToString(i) : i \in 0..MaxItems}

Documents == [title : Values, items : UNION {[1..n -> Values] : n \in 0..MaxItems}]

\* A pointer has a token at least.
IsPointer(path) == path \in Seq(Range(path)) /\ path # <<>>

\* What patches make of a document: one may copy the array into itself.
IsDocument(d) == d = [title |-> d.title, items |-> d.items] /\ d.items \in Seq(Range(d.items))

TitlePath == <<"title">>
ItemsPath == <<"items">>
ItemPath(token) == <<"items", token>>
\* The whole-document pointer "/" of a compensation: one empty token.
RootPath == <<"">>

\* Every pointer that can name a value of a document.
DocumentPaths == {TitlePath, ItemsPath} \cup {ItemPath(t) : t \in IndexTokens}

\* The value at a path as a set: empty where the document has none.
ValueAt(document, path) ==
  IF path = TitlePath THEN {document.title}
  ELSE IF path = ItemsPath THEN {document.items}
  ELSE {document.items[i] : i \in {j \in DOMAIN document.items : path = ItemPath(ToString(j - 1))}}

-----------------------------------------------------------------------------
(* Operations of a patch.  `from` is <<>> where the operation has none.    *)

\* CollaborationPatchOperationType
OperationTypes == {"add", "copy", "move", "remove", "replace", "test"}

Operation(op, path, from, value) == [op |-> op, path |-> path, from |-> from, value |-> value]

\* operationPaths
OperationPaths(o) == {o.path} \cup (IF o.from = <<>> THEN {} ELSE {o.from})

\* isChange, changedPaths
ChangedPaths(patch) == UNION {OperationPaths(o) : o \in {p \in Range(patch) : p.op # "test"}}

\* targetsFrameworkOwnedIdentity: no patch may write the revision or a stable id.
TargetsFrameworkOwnedIdentity(path) == path = <<"revision">> \/ Last(path) = "id"

\* pointersOverlap: equal, or one is an ancestor of the other.
PointersOverlap(left, right) == IsPrefix(left, right) \/ IsPrefix(right, left)

\* arrayParent, as a set: the array whose element the pointer names.
ArrayParent(path) == IF Last(path) \in IndexTokens \cup {"-"} THEN {Front(path)} ELSE {}

\* isStructural
IsStructural(o) == o.op \in {"add", "copy", "move", "remove"}

\* Mutant: an array operation guards only the element it names.
ConflictFootprintsOfPaths(o) == OperationPaths(o)

\* conflictFootprints
ConflictFootprints(o) ==
  OperationPaths(o) \cup
    (IF IsStructural(o) THEN UNION {ArrayParent(path) : path \in OperationPaths(o)} ELSE {})

\* collaborationConflicts: the pairs of a proposed and an intervening path that
\* meet.  `changed` is the union of the intervening revisions' changedPaths.
CollaborationConflicts(patch, changed) ==
  {pair \in (UNION {ConflictFootprints(o) : o \in Range(patch)}) \X changed :
     PointersOverlap(pair[1], pair[2])}

-----------------------------------------------------------------------------
(* External: applyPatch of rfc6902 as applyOperations uses it, and the     *)
(* host's validation port.  Each operator returns the set of documents the *)
(* operation produces: none where it fails.                                *)

\* An index an existing element answers to; "-" is the end of the array.
ItemIndex(document, path) ==
  {i \in DOMAIN document.items : path = ItemPath(ToString(i - 1))}
InsertIndex(document, path) ==
  {i \in 1..Len(document.items) + 1 :
     path = ItemPath(ToString(i - 1)) \/ (path = ItemPath("-") /\ i = Len(document.items) + 1)}

RemoveItem(document, path) ==
  {[document EXCEPT !.items = RemoveAt(@, i)] : i \in ItemIndex(document, path)}
InsertItem(document, path, value) ==
  {[document EXCEPT !.items = InsertAt(@, i, value)] : i \in InsertIndex(document, path)}
ReplaceValue(document, path, value) ==
  IF path = TitlePath THEN {[document EXCEPT !.title = value]}
  ELSE {[document EXCEPT !.items[i] = value] : i \in ItemIndex(document, path)}

ApplyOperation(document, o) ==
  CASE o.op = "replace" -> ReplaceValue(document, o.path, o.value)
    [] o.op = "remove"  -> RemoveItem(document, o.path)
    [] o.op = "add"     -> InsertItem(document, o.path, o.value)
    [] o.op = "move"    -> UNION {InsertItem(rest, o.path, moved) :
                                    rest \in RemoveItem(document, o.from),
                                    moved \in ValueAt(document, o.from)}
    [] o.op = "copy"    -> UNION {InsertItem(document, o.path, copied) :
                                    copied \in ValueAt(document, o.from)}
    [] o.op = "test"    -> {d \in {document} : o.value \in ValueAt(d, o.path)}

ApplyOperations(document, patch) ==
  FoldLeft(LAMBDA results, o : UNION {ApplyOperation(d, o) : d \in results}, {document}, patch)

IsValid(document) == Len(document.items) <= MaxItems

\* applyCollaborationPatch: refused as a whole when one operation targets an
\* owned path, fails, or the host refuses the document it produces.
ApplyCollaborationPatch(document, patch) ==
  IF \E o \in Range(patch) : \E path \in OperationPaths(o) : TargetsFrameworkOwnedIdentity(path)
  THEN {}
  ELSE {d \in ApplyOperations(document, patch) : IsValid(d)}
=============================================================================
