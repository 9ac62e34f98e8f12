\* tool-reference.md: a deletion is permanent.
CONSTANTS
    f1 = f1
    f2 = f2
    f3 = f3
    l1 = l1
    l2 = l2
    c1 = c1
    c2 = c2
    s1 = s1
    s2 = s2
    server = server
    cron = cron
    None = None
    FeishuIds = {f1, f2}
    LocalIds = {l1}
    Texts <- MCTexts
    Empty = ""
    White = " "
    Preview <- MCPreview
    OwnerRows <- OneRow
    Clients = {c1}
    Syncs = {s2}
    Procs = {server, cron}
    ProcOf <- CronSync
    MaxChurn = 2
    AddTexts = {"long"}
    Titles = {"y"}
    Modes = {"incremental"}
    VectorFaults = TRUE
SPECIFICATION Spec
INVARIANTS
    NoResurrection
