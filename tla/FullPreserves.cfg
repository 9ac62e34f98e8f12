\* operations.md: full preserves local data.
CONSTANTS
    f1 = f1
    f2 = f2
    f3 = f3
    l1 = l1
    l2 = l2
    c1 = c1
    c2 = c2
    s1 = s1
    s2 = s2
    server = server
    cron = cron
    None = None
    FeishuIds = {f1, f2}
    LocalIds = {l1}
    Texts <- MCTexts
    Empty = ""
    White = " "
    Preview <- MCPreview
    OwnerRows <- OneRow
    Clients = {c1}
    Syncs = {s1}
    Procs = {server}
    ProcOf <- OneProcess
    MaxChurn = 2
    AddTexts = {"long"}
    Titles = {"y"}
    Modes = {"full"}
    VectorFaults = TRUE
SPECIFICATION Spec
PROPERTIES
    FullPreservesLocal
