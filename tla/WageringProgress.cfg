\* A client and two workers that go on.
SPECIFICATION FairSpec
CONSTANTS
    None = None
    MaxMoney = 3
    Clients = {c1}
    Workers = {v1, v2}
    w1 = w1
    w2 = w2
    ghost = ghost
    alice = alice
    bob = bob
    e1 = e1
    e2 = e2
    e3 = e3
    k1 = k1
    k2 = k2
    k3 = k3
    round1 = round1
    Wallets <- OneWallet
    WalletIds <- AllIds
    Exts <- Exts3
    Keys = {k1, k2, k3}
    Players <- AllPlayers
    Rounds <- AllRounds
    Requests <- PendingRequests
    PlayerOf <- Owners1
    OpeningBalance <- Balance2
    BatchSize = 2
    MaxAttempts = 2
    Faults = FALSE
INVARIANTS
    UndoneOncePerKind
PROPERTIES
    PendingIsResolved
    EveryRequestEnds
