SPECIFICATION Spec
CONSTANTS
  p1 = p1
  p2 = p2
  v1 = v1
  v2 = v2
  Points = {p1}
  Items <- NoItems
  Requests = {r1, r2}
  Values = {v1}
  NoValue = NoValue
  Misfits <- NoMisfits
  Comments = {c1}
  NoComment = NoComment
  NoRequest = NoRequest
  Clean = Clean
  Bound <- BoundNone
  EvidenceItems <- NoItems
  CoverageItems <- NoItems
  SortOrder <- OrderNone
  Ops <- PointRequests
  MaxVersions = 6
PROPERTY StatusFollowsTable
