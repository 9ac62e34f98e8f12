\* Three records, two of them or one asked for.
CONSTANTS
    i1 = i1
    i2 = i2
    i3 = i3
    blank = blank
    x = x
    None = None
    Blank = blank
    Ids = {i1, i2, i3}
    Texts = {blank, x}
    Relevance <- MCRelevance
    TopKs = {1, 2}
    Limit = 3
    K = 60
    Common = 2382660
SPECIFICATION Spec
SYMMETRY Symmetry
INVARIANTS
    TypeOK
    OwnScore
    AgreedFirst
    GoneCostsOne
