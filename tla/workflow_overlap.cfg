SPECIFICATION FairSpec
CONSTANTS
  p1 = p1
  p2 = p2
  v1 = v1
  v2 = v2
  Points = {p1, p2}
  Items <- TwoItems
  Requests = {r1, r2}
  Values = {v1}
  NoValue = NoValue
  Misfits <- NoMisfits
  Comments = {}
  NoComment = NoComment
  NoRequest = NoRequest
  Clean = Clean
  Bound <- BoundTwo
  EvidenceItems <- OneItem
  CoverageItems <- NoItems
  SortOrder <- OrderReversed
  Ops <- OverlapOps
  MaxVersions = 3
INVARIANTS TypeOK VersionsContiguous
PROPERTY RequestsEnd
