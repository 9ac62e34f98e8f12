\* Syncs of a server and of a cron process in the end make the cache a mirror of the Bitable.
CONSTANTS
    f1 = f1
    f2 = f2
    f3 = f3
    l1 = l1
    l2 = l2
    c1 = c1
    c2 = c2
    s1 = s1
    s2 = s2
    server = server
    cron = cron
    None = None
    FeishuIds = {f1}
    LocalIds = {l1}
    Texts <- MCTexts
    Empty = ""
    White = " "
    Preview <- MCPreview
    OwnerRows <- OneRow
    Clients = {c1}
    Syncs = {s1, s2}
    Procs = {server, cron}
    ProcOf <- CronSync
    MaxChurn = 2
    AddTexts = {"long"}
    Titles = {"y"}
    Modes = {"full"}
    VectorFaults = FALSE
SPECIFICATION FairSpecH
INVARIANTS
    ChunksBounded
PROPERTIES
    SyncMirrors
    EventuallyMirrors
    SyncDropsOnlyTheGone
