SPECIFICATION CachesSpec
CONSTANTS
    a = a
    b = b
    m = m
    n = n
    IPs = {a, b}
    Macs = {m, n}
    NoMac = NoMac
    DeviceMac = n
    ReachableTime = 2
    StaleTime = 1
    RetransmitInterval = 1
    MaxBackoff = 2
    FailedLifetime = 1
    FlapWindow = 1
    MaxFlaps = 2
    GarpInterval = 1
    MaxProbes = 1
    Sizes = {0, 1}
    GarpPolicies = {"RATE_LIMIT_AND_PROCESS", "DROP_IF_CONFLICT"}
    Claims <- ClaimsOfOne
    Backups <- BackupOfOne
    Subnet = {b}
    LinkLocal = linkLocal
    NoAddress = NoAddress
    Nets = {whole, local, short}
    whole = whole
    local = local
    short = short
    router = router
    global = global
    MaxMulticast = 2
    MaxUnicast = 2
    DefaultReachableTime = 1
    DelayTime = 1
    RetransTime = 1
    Generated <- AddressOf
    Hosts = {router}
    NdEntries <- SomeEntries
    NdBackups <- Backup
    RouterAdverts <- SomeAdverts
    Adverts <- SomeAnswers
    Checked = {global, linkLocal}
    Keys = {k1, k2, k3, k4}
    Values = {v1, v2}
    Capacity = 3
    MaxUses = 3
INVARIANT ConflictHolds
