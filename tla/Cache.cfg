\* Two processes with the file open.
CONSTANTS
    i1 = i1
    i2 = i2
    x = x
    y = y
    a = a
    b = b
    server = server
    cron = cron
    None = None
    Ids = {i1, i2}
    Texts = {x, y}
    Tags = {a}
    Writers = {server, cron}
    MaxRow = 3
SPECIFICATION SpecH
SYMMETRY Symmetry
INVARIANTS
    Findable
    TagsOwned
PROPERTIES
    UpsertRepairs
    AtomicCalls
