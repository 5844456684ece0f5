SPECIFICATION MCSpec
CONSTANTS
  Workers = {w1, w2}
  NoOwner = NoOwner
  Clients = {c1, c2}
  Jobs = {1, 2}
  Keys = {k1}
  NoKey = NoKey
  Prints = {f1}
  NoJob = NoJob
  NoRecord = NoRecord
  NoRequest = NoRequest
  NoBatch = NoBatch
  MaxAttempts = 2
  Endpoints = {e1}
  Deliveries = {1}
  Handlers = {h1}
  NoDelivery = NoDelivery
  NoEvent = NoEvent
INVARIANTS TypeOK RepeatsMakeOneJob RetriesMeetRows
PROPERTIES ImplementsQueue AttemptsCountOnce WorkEnds
