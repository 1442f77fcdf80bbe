SPECIFICATION ServicesSpec
CONSTANTS
    s1 = s1
    s2 = s2
    s3 = s3
    Slots = {s1, s2, s3}
    Limits <- SomeLimits
    MayExpire = TRUE
    MaxLeaks = 2
    Requests = {r1, r2}
    Emails = {ann, bob, boss}
    AdminEmail = boss
    Tokens = {t1}
    Nobody = Nobody
    MaxAttempts = 2
    MaxStarts = 3
    MaxRedisErrors = 1
    Jobs = {j1, j2}
    Names = {n}
    MaxIds = 3
    MaxIoErrors = 1
    Writers = {w1, w2}
    NoWriter = NoWriter
    SshRows = {s1}
    TokenRows = {k1}
    MaxRevisions = 3
    MaxVaultFaults = 1
    Publishers = {p1, p2}
    Streams = {v1}
    MaxReports = 3
    MaxUsageFaults = 1
    Processes = {q1}
    Calls = {c1, c2}
    Ttl = 2
    MaxCall = 1
    MaxSaves = 2
    MaxClock = 5
    Owners = {u1}
    Ops = {o1, o2}
    MaxBooks = 3
    MaxNotes = 2
    MaxNoteFaults = 1
    Models = {"a", "b"}
    Efforts = {"low", "high"}
    NoChoice = "None"
    Catalogs <- TwoCatalogs
    Fallback = "high"
    Updates = {u1, u2}
    MaxUpgrades = 1
    MaxCatalogErrors = 1
INVARIANTS ServicesTypeOK QuotaIsSafe SignInIsSafe FilesAgree VaultIsSound SnapshotWasShown SettingsInForce NotesStayReachable
PROPERTIES OlderNeverReplaces BlockedUserRecovers
CHECK_DEADLOCK FALSE
