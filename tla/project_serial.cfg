SPECIFICATION Spec
CONSTANTS
  parent = parent
  plant = plant
  s1 = s1
  s2 = s2
  Root = parent
  MaxPoints = 1
  Entities = {parent, plant}
  NoBoundary = NoBoundary
  NoSnapshot = NoSnapshot
  NoPoint = NoPoint
  NoRequest = NoRequest
  Projects = {j1, j2}
  Boundaries = {b1}
  Standards = {s1}
  EntityOf <- AtPlant
  Requests = {r1}
  Ops <- AllOps
INVARIANTS TypeOK PublishedHasSnapshot SnapshotCovered PublishedSettled
PROPERTY ImplementsPeriod
