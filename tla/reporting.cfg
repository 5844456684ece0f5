SPECIFICATION Everything
CONSTANTS
  Users = {"chief", "clerk", "critic"}
  RoleOf <- Office
  Nobody = "nobody"
  Nowhere = "none"
  Projects = {1, 2}
  \* PointPages
  Points <- PagePoints
  Assignments <- PageDuties
  Teams <- PageTeams
  DaysLeft <- Deadlines
  NoDate = 99
  Completed = {}
  Entities = {"root", "site"}
  Members <- Scopes
  DefaultOne = "narrow"
  NoBoundary = "no boundary"
  Mappings <- PageMappings
  Allowed <- StoredKinds
  Payloads <- DimPayloads
  FirstTeams <- FirstTeam
  FirstStandard = "s1"
  LegacyItems = {"i1"}
  MaxEdits = 3
  \* EvidenceLinks
  Evidences = {"e1"}
  Authored <- WrittenPoints
  Holdings <- HeldFor
  BindableItems <- AskedItems
  StandardsOfItems = {"s1"}
  \* Catalogue
  Editions <- PublishedEditions
  Umbrella = "GRI"
  ElementOf <- ElementCodes
  NoText = "no text"
  MaxVersion = 3
  MaxRuns = 2
  MaxChanges = 1
  \* ProxyData
  Workbooks <- BookEditions
  SheetCodes = {"c1", "c2", "c3"}
  Disclosures = {"D1", "D2"}
  Years = {2023, 2024}
  ThisYear = 2024
  NoValue = 9
  Staff <- ImportStaff
  Critic = "critic"
  Collectors = {"k1"}
  Examples <- FrameworkExamples
  Datasheet = "BPDS"
  NotStarted = {"c1"}
  InProgress <- SetInProgress
  MaxRepairs = 2
  \* AssignmentPlanning
  Requirements <- ProjectRequirements
  OwnCodes = {"own"}
  Parent <- EntityParent
  InBoundary = {"root", "sub"}
  Places <- PlanScopes
  Assignees = {"u", "v", "w"}
  Eligible <- EligibleFor
  Staffings <- PlanTeams
  Companies <- PlanCompanies
  MaxRows = 2
  MaxCommits = 2
  \* EventFanout
  Requests = {"r1", "r2"}
  ChangedRows = {"x", "y"}
  Jobs <- PublishingJobs
  Recipients <- OfficeRoles
  Wants <- OfficeWants
  NamedPeople <- NamedUsers
  PoolSize = 3
  MaxFailures = 1
INVARIANTS TypesOK PagesHold DocumentsAreRead ScriptsRepeat EventsReachAll
PROPERTIES CatalogueFollows AssignmentsPlanned
CHECK_DEADLOCK FALSE
