SPECIFICATION Spec
SYMMETRY WriterSymmetry
CONSTANTS
    None = None
    Reconciler = Reconciler
    t1 = t1
    t2 = t2
    Writers = {t1, t2}
    MaxMoney = 3
    Ids <- EntryIds
    Openings <- OpeningSet
    Amounts <- AmountSet
    Limit = 1
INVARIANTS
    PagesAreComplete
CHECK_DEADLOCK FALSE
