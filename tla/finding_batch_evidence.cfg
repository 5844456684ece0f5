SPECIFICATION Spec
CONSTANTS
  p1 = p1
  p2 = p2
  v1 = v1
  v2 = v2
  Points = {p1}
  Items <- OneItem
  Requests = {r1}
  Values = {v1}
  NoValue = NoValue
  Misfits <- NoMisfits
  Comments = {c1}
  NoComment = NoComment
  NoRequest = NoRequest
  Clean = Clean
  Bound <- BoundOne
  EvidenceItems <- OneItem
  CoverageItems <- NoItems
  SortOrder <- OrderOne
  Ops <- BatchEvidenceOps
  MaxVersions = 6
PROPERTY ApprovalHasEvidence
