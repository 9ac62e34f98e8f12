\* A blank record shifts the embeddings of the records after it.
CONSTANTS
    f1 = f1
    f2 = f2
    f3 = f3
    l1 = l1
    l2 = l2
    c1 = c1
    c2 = c2
    s1 = s1
    s2 = s2
    server = server
    cron = cron
    None = None
    FeishuIds = {f1, f2, f3}
    LocalIds = {l1}
    Texts <- MCTexts
    Empty = ""
    White = " "
    Preview <- MCPreview
    OwnerRows <- BlankRows
    Clients = {c1}
    Syncs = {s1}
    Procs = {server}
    ProcOf <- OneProcess
    MaxChurn = 3
    AddTexts = {"long"}
    Titles = {"y"}
    Modes = {"incremental"}
    VectorFaults = TRUE
SPECIFICATION Spec
INVARIANTS
    EmbeddingMatchesText
