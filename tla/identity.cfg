SPECIFICATION Composition
CONSTANTS
  Requests = {r1, r2}
  Users = {u1, u2}
  Founder = u1
  MaxInvitations = 2
  InvitedRoles = {"admin", "collector"}
  DefaultRole = "collector"
  Roles = {"admin", "esg_manager", "collector"}
  MaxSessions = 4
  MaxPasswords = 2
  MaxSetups = 3
  CodesPerSetup = 2
  PlatformAdmins = {a1, a2}
  Tenants = {t1, t2}
  MaxSupport = 3
  Calls = {c1, c2}
  Questions = {q1, q2}
  Injections = {q2}
  NoQuestion = NoQuestion
  Minute = 1
  Hour = 3
  BanTime = 3
  PerMinute = 2
  PerHour = 3
  SameQuestion = 2
INVARIANTS TypesOK OnlyOverlapsEscape CodesOfTheSecretOnce AdminRemains AcceptedOnce
  SupportPinned WithinLimits
SYMMETRY Symmetry
CHECK_DEADLOCK FALSE
