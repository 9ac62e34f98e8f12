\* Rows come and go, and the table may go, between pages of two of a full sync.
CONSTANTS
    r1 = r1
    r2 = r2
    r3 = r3
    r4 = r4
    RowIds = {r1, r2, r3, r4}
    PageSize = 2
    NoAnswer = NoAnswer
SPECIFICATION FairSpecS
INVARIANTS
    NoRowTwice
PROPERTIES
    AnswersSnapshot
    LosesAtMostRemoved
    EventuallyWhole
