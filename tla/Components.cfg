\* One of every kind of contention, and a scene for each part.
CONSTANTS
  Lease = 1
  BatchSize = 1
  MaxAttempts = 2
  BaseDelay = 1
  MaxDelay = 1
  Dispatchers = {"w1", "w2"}
  Messages = {"m1"}
  Recoveries = {"r1"}
  DispatchBatches = 2
  MaxMailFaults = 2
  Attachments = {"a1", "a2"}
  Unavailable = {"a2"}
  Uploaders = {"c1", "c2"}
  Sweepers = {"w1", "w2"}
  PresignTtl = 1
  StaleAfter = 1
  CleanupSize = 1
  MaxStorageFaults = 1
  Calls = {"c1", "c2"}
  RefreshTokens = {"s1", "s2", "s3"}
  Codes = {"k1", "k2"}
  Organizations = {"o1", "o2"}
  Users = {"u1", "u2"}
  AdminRoles = {"owner"}
  MemberRole = "member"
  OrgCalls = {"c1", "c2"}
  OrgAttempts = 2
  Requests = {"r1", "r2"}
  Parents = {"p1", "p2"}
  Children = {"x1"}
  AccountAdmins = {"u1"}
  Tables = {1, 2}
  Titled = {2}
  Classified = {1}
  Referring = {1, 2}
  Relations = {"cascade", "unique"}
  EnumLists <- EnumLists1
  Packs = {1, 2, 3}
  Entities = {1, 2, 3}
  RelationNames <- Names1
  Accounts = 6
  Tenants = 7
  Memberships = 8
  Bookings = 9
  SeedRuns = 2
  Interruptions = {2}
  Callers = {"c1", "c2"}
  RowIds = {1, 2, 3, 4}
  SortKeys = {1, 2}
  PageSize = 1
  MaxPage = 4
  Runners = {"i1", "i2"}
  TickEvery = 1
  MinuteUnits = 2
  CronHorizon = 4
  MaxTicks = 2
  MaxCronFaults = 1
  GeneratedFiles = {"package.json", "src"}
  MaxEdits = 1
  Focuses = {"mail", "uploads", "sessions", "organizations", "records", "schema", "compile", "seed",
             "endpoints", "cron", "tests"}
SPECIFICATION Spec
CHECK_DEADLOCK FALSE
INVARIANTS
  ComponentsTypeOK
  NoNeedlessDuplicate
  ReadyIsVerified
  OneLivePerLogin
  TenantsApart
  PacksHonoured
  IrConsistent
  SeedLands
  ContractKept
  WalkMissesNothing
  SchedulesKept
  VerdictEarned
PROPERTIES
  NoOrphan
  RevocationEndsSessions
  OwnerKept
  MigrationArrives
