SPECIFICATION ServicesSpec
CONSTANTS
  Requests = {r1, r2, r3, r4}
  Hosts = {h1}
  Processes = {p1}
  Limit = 2
  Window = 2
  MaxDelay = 1
  MaxTime = 3
  MaxRestarts = 1
  StoreFaults = TRUE
  None = None
  Checks = {c1, c2}
  Keys = {k1, k2}
  OldKeys = {k1}
  JwksTTL = 1
  JwksMaxTime = 2
  NoKey = NoKey
  Regions = {reg1, reg2}
  Upserts = {u1, u2}
  Readers = {t1, t2}
  Shipped = Shipped
  MaxDeaths = 1
  Servers = 2
  Attempts = 3
  ReqTimeout = 1
  Backoff = 1
  Workers = {w1, w2}
  Buckets = {b1, b2}
  MaxRecords = 4
  MaxRenewals = 1
  Runs = {m1, m2}
  LastFile = 3
  Fragile = {1, 2}
  Telling = {1, 2}
  MaxKills = 1
  Together = TRUE
  Names = {n1, n2}
  NoName = NoName
  Eastings = {2, 4, 6}
  Northings = {0, 2}
  NoPlace = NoPlace
  Within = 3
  Shear = 1
  MaxElements = 3
  PlaceNames <- CovNames
  Spots = {0, 1, 2}
  MatchWithin = 1
  GymCount = 2
  PlaceCount = 2
  OsmTags = {"fitness_centre", "addr:street", "website", "phone", "opening_hours", "brand", "operator", "email"}
  Tagged = {"powerlifting", "fitness", "bodybuilding", "boxing", "yoga", "crossfit", "fitness_centre", "sauna", "pool", "cafe", "website", "opening_hours", "24_7"}
  NameWords = {"power", "strength", "boxing", "yoga", "physique", "24/7"}
  TagsTogether = 4
  WordsTogether = 2
  Ids = {1, 2, 3}
  NameOf <- PagingNames
  DistanceOf <- PagingDistances
  Around = {1, 2, 3}
  ScanOf <- PagingScan
  Levels = {1, 2}
  Limits = {1, 2}
  ReviewWindow = 2
  MaxPublished = 1
  GymIds = {1, 2}
  Syncs = {s1, s2}
  Versions = 2
  GymRows = {g1, g2, g3}
  Distances = {1, 2, 3}
  GeoRadius = 2
  GeoLimit = 1
  Candidates = 2
INVARIANTS
  ServicesTypeOK
  WindowRespected
  RetryAfterHonest
  TokensJudged
  StaleOnlyByRace
  RegistryKept
  FetchEnds
  SnapshotTrue
  MigrationsTrue
  DedupSound
  CoverageTrue
  EvidenceOrdersScores
  NamesDoubted
  PagesWhole
  SyncsApart
  NearestAnswered
CHECK_DEADLOCK FALSE
