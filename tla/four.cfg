SPECIFICATION SeatedSpec
CONSTANTS
    Players = {p1, p2, p3, p4}
    NoPlayer = nobody
    MaxPlayers = 4
    SmallBlind = 1
    BigBlind = 2
    CardsPerPlayer = 1
    FlopCards = 1
    DeckSize = 7
    Ratio = 2
    MinPlayers = 2
    Coins = {2}
    MaxBalance = 8
    Rankings <- TwoOrders
    Expiring = {"shuffle", "reveal", "betting", "reconstruct", "showdown"}
    Calls = {}
    Piecemeal = FALSE
    BuyIns <- OneDeep
    MaxButton = 1
CONSTRAINT FewHands
INVARIANTS NeverOverpays RefundFlagClear BoardMatchesRound HoleCardsPrivate PhasesExclusive 
PROPERTIES ImplementsWagers BankrollKept BystandersUntouched
