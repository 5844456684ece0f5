SPECIFICATION Spec
CONSTANTS
  parent = parent
  plant = plant
  s1 = s1
  s2 = s2
  Root = parent
  MaxPoints = 2
  Entities = {parent, plant}
  NoBoundary = NoBoundary
  NoSnapshot = NoSnapshot
  NoPoint = NoPoint
  NoRequest = NoRequest
  Projects = {j1}
  Boundaries = {b1}
  Standards = {s1, s2}
  EntityOf <- BothAtPlant
  Requests = {r1}
  Ops <- PublishOps
PROPERTY PublishedComplete
CHECK_DEADLOCK FALSE
