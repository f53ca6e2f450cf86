SPECIFICATION Spec
CONSTANTS
    None = None
    m1 = m1
    m2 = m2
    m3 = m3
    i1 = i1
    i2 = i2
    e1 = e1
    bet = bet
    other = other
    c1 = c1
    c2 = c2
    Messages <- ThreeMessages
    Consumers = {c1, c2}
    MessageIds = {i1, i2}
    Exts = {e1}
    Payloads = {bet, other}
    Bodies <- ConflictsOrRefusals
    BatchSize = 2
    MaxReceives = 2
SYMMETRY ConsumerSymmetry
INVARIANTS
    TypeOK
    DeletedWasHandled
    ExecutedOnce
    InboxMatchesWagers
CHECK_DEADLOCK FALSE
