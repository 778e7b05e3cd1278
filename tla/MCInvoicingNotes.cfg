SPECIFICATION Spec
CONSTANTS
    o1 = o1  o2 = o2  w1 = w1  w2 = w2
    Order = {o1}
    Returnable = {o1}
    Worker = {w1, w2}
    NoDoc = NoDoc
    Environment = {"1", "2"}
    RangeEnd = {0, 1}
    MaxAttempts = 2
    MaxClaims = 2
    MaxIssues = 2
SYMMETRY Symmetry
INVARIANTS TypeOK VerdictsAreReal NoteAfterInvoice OneSender NumbersDense
CHECK_DEADLOCK FALSE
