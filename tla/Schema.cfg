\* Two machines run init for two libraries of two expected columns.
CONSTANTS
    title = title
    tags = tags
    laptop = laptop
    server = server
    Expected <- TwoColumns
    Scopes <- TwoScopes
    Machines = {laptop, server}
    Reliable = laptop
SPECIFICATION FairSpec
INVARIANTS
    CleanMeansComplete
PROPERTIES
    EventuallyComplete
