----------------------------- MODULE MCNodeStore -----------------------------
(* A form with a group and two fields, in some versions of its document.   *)
EXTENDS NodeStore

CONSTANTS F, G, A, B, C, P

Definition(id, kind, parent, controlParent, controls) ==
  [id |-> id, kind |-> kind, type |-> kind, parent |-> parent, controlParent |-> controlParent,
   key |-> IF controlParent = None THEN None ELSE id, lists |-> TRUE, controls |-> controls,
   own |-> FALSE, rule |-> FALSE, async |-> FALSE, names |-> {}, updateOn |-> "input"]

Form(parent, controls) == Definition(F, "form", parent, None, controls)
Group(parent, controls) ==
  [Definition(G, "group", parent, F, controls) EXCEPT !.rule = TRUE, !.async = TRUE, !.names = {B}]
FieldA == [Definition(A, "control", G, G, << >>) EXCEPT !.rule = TRUE]
FieldB(parent) == [Definition(B, "control", F, parent, << >>) EXCEPT !.updateOn = "submit"]
FieldC == Definition(C, "control", F, G, << >>)

Document(definitions) ==
  [id \in {d.id : d \in definitions} |-> CHOOSE d \in definitions : d.id = id]

\* Mounted first; then with a field gone and one new; then with a field moved,
\* another of a new type, and the group a record.
Mounted == Document({Form(None, <<G, B>>), Group(F, <<A>>), FieldA, FieldB(F)})
Replaced == Document({Form(None, <<B, G>>), [Group(F, <<C>>) EXCEPT !.own = TRUE], FieldB(F), FieldC})
Moved ==
  Document({Form(None, <<G>>), [Group(F, <<B, A>>) EXCEPT !.kind = "record"],
            [FieldA EXCEPT !.type = "switch"], FieldB(G)})

Update(document, aliases, resets) == [document |-> document, aliases |-> aliases, resets |-> resets]

FormDocuments == {Mounted}
FormUpdates ==
  {Update(Mounted, A :> C, {B}), Update(Replaced, C :> A, {}), Update(Moved, << >>, {})}

FormLoose == {FieldC}

\* The same form in a component of the page, as the documents of examples/ have
\* it, and an update that disables its group.
Page(group) ==
  Document({[Definition(P, "visual", None, None, << >>) EXCEPT !.lists = FALSE],
            Form(P, <<G, B>>), group, FieldA, FieldB(F)})

PageDocuments == {Page(Group(F, <<A>>))}
PageUpdates == {Update(Page([Group(F, <<A>>) EXCEPT !.own = TRUE]), << >>, {})}

\* The hypotheses of the theorems hold of the form, and the page is what the
\* first of them leaves out.
ASSUME HypothesesAssumption ==
  ControlMembers /\ (RootedControls <=> Documents = FormDocuments)
=============================================================================
