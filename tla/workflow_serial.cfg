SPECIFICATION Spec
CONSTANTS
  p1 = p1
  p2 = p2
  v1 = v1
  v2 = v2
  Points = {p1}
  Items <- TwoItems
  Requests = {r1}
  Values = {v1, v2}
  NoValue = NoValue
  Misfits <- SecondMisfits
  Comments = {c1}
  NoComment = NoComment
  NoRequest = NoRequest
  Clean = Clean
  Bound <- BoundTwo
  EvidenceItems <- OneItem
  CoverageItems <- NoItems
  SortOrder <- OrderReversed
  Ops <- AllOps
  MaxVersions = 8
INVARIANTS
  HistoryTellsState
  DecisionExplained
PROPERTIES
  ImplementsLifecycle
  ItemsFresh
