\* Calls with up to two of three paths, one of them empty.
CONSTANTS
    a = a
    b = b
    x = x
    y = y
    t1 = t1
    t2 = t2
    None = None
    EmptyPath = EmptyPath
    Paths = {a, b, EmptyPath}
    Contents = {x, y}
    Tokens = {t1, t2}
    MaxBatch = 2
SPECIFICATION Spec
SYMMETRY Symmetry
INVARIANTS
    OneResultEach
    TokenNamesFile
    CopiesAccounted
