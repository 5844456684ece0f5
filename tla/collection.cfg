SPECIFICATION Composition
CONSTANTS
  root = root
  sub1 = sub1
  plant = plant
  Nowhere = Nowhere
  water = water
  gas = gas
  i1 = i1
  i2 = i2
  i3 = i3
  d1 = d1
  d2 = d2
  s1 = s1
  s2 = s2
  p1 = p1
  p2 = p2
  p3 = p3
  v1 = v1
  v2 = v2
  Nobody = Nobody
  Entities = {root, sub1, sub2}
  Root = root
  Requests = {r1, r2}
  Whole = 1
  Units = 2
  Metrics = {water, gas}
  TenantMetrics = {gas}
  Occurrences <- Needed
  Sites = {root}
  Facilities = {plant}
  Drafts <- Submissions
  MaxAssignments = 2
  MaxItems = 2
  MaxForms = 2
  Apart = TRUE
  Creations = {r1, r2, r3}
  MaxVersions = 4
  Items = {i1, i2, i3}
  Optional = {i2}
  EntityWide = {i1}
  DisclosureOf <- ItemDisclosure
  StandardOf <- DisclosureStandard
  Points = {p1, p2, p3}
  ItemOf <- PointItem
  EntityOf <- PointEntity
  Covered = {root, sub1}
  Events = {v1, v2}
  Users = {u1}
  Topic <- OneTopic
  Severity <- AllWarnings
  EmailEnabled = TRUE
  FailSilently = TRUE
  MaxLost = 1
  Matched = {p1, p2}
  LastDay = 12
  \* A window longer than the second level, one of a day, and the usual one.
  Deadlines = {2, 4}
  Windows = {1, 3, 9}
  ProjectDue = 8
INVARIANTS TypesOK Within100 NoMutualOwnership EffectiveFollowsChains
  SetupMeetsAssignments OneCurrentVersion ViewsAgree PeopleAreTold
CHECK_DEADLOCK FALSE
