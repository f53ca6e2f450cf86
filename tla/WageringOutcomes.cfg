\* Two clients and a worker; any transaction may fail anywhere.
SPECIFICATION Spec
CONSTANTS
    None = None
    MaxMoney = 3
    Clients = {c1, c2}
    Workers = {v1}
    w1 = w1
    w2 = w2
    ghost = ghost
    alice = alice
    bob = bob
    e1 = e1
    e2 = e2
    e3 = e3
    k1 = k1
    k2 = k2
    k3 = k3
    round1 = round1
    Wallets <- TwoWallets
    WalletIds <- AllIds
    Exts <- Exts3
    Keys = {k1, k2, k3}
    Players <- AllPlayers
    Rounds <- AllRounds
    Requests <- RacingRequests
    PlayerOf <- Owners2
    OpeningBalance <- Balances2
    BatchSize = 2
    MaxAttempts = 2
    Faults = TRUE
SYMMETRY ClientSymmetry
INVARIANTS
    TypeOK
    OneEffectPerWager
    LedgerConsistent
    LockedCopiesFresh
    AnswersHold
    ClientsNeverDeadlock
    EventsMatchOutcome
    ReversalUndoesReference
PROPERTIES
    FinalRowsImmutable
    ReplayIsFaithful
    ImplementsSettlement
