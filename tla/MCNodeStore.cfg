\* Commands and updates of a form with a group, in three versions of its document.
SPECIFICATION Spec
CONSTANTS
  F = F
  G = G
  A = A
  B = B
  C = C
  P = P
  None = None
  Documents <- FormDocuments
  Updates <- FormUpdates
  Loose <- FormLoose
  Patched = {F, G, A}
  Values = {1}
  Statuses = {"invalid"}
  Requests = {1}
INVARIANTS
  IndexesAgree
  EffectiveDisabled
  AggregatesSummarise
  ErrorsRouted
PROPERTIES
  EditsKept
