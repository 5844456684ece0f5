SPECIFICATION Spec
CONSTANTS
  parent = parent
  plant = plant
  s1 = s1
  s2 = s2
  Root = parent
  MaxPoints = 2
  Entities = {parent, plant}
  NoBoundary = NoBoundary
  NoSnapshot = NoSnapshot
  NoPoint = NoPoint
  NoRequest = NoRequest
  Projects = {j1}
  Boundaries = {b1, b2}
  Standards = {s1}
  EntityOf <- AtPlant
  Requests = {r1, r2}
  Ops <- RaceOps
INVARIANT PublishedHasSnapshot
CHECK_DEADLOCK FALSE
