SPECIFICATION WorkerSpec
CONSTANTS
    Requests = {r1, r2}
    NoBackend = NoBackend
    database_pool_size = 1
    database_max_overflow = 0
    database_pool_timeout = 1
    Assets = {"a"}
    Slugs = {"vaulta-internal", "my.app"}
    Dotted = {"my.app"}
    Internal = "vaulta-internal"
    MaxServeUrlExpiry = 1
    MaxAge = 1
    Commits = 2
    Lifetimes = {2}
    Horizon = 2
    MaxLinks = 1
INVARIANTS
    WorkerTypeOK
    ProbeFailsOnlyIfShared
    PoolIsWhole
PROPERTIES
    SettlesOnOne
    LinksWorkUntilExpiry
    UploadLinksAreCapped
    NobodyStalls
