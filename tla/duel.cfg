SPECIFICATION FairSpec
CONSTANTS
    Players = {p1, p2}
    NoPlayer = nobody
    MaxPlayers = 2
    SmallBlind = 1
    BigBlind = 2
    CardsPerPlayer = 1
    FlopCards = 1
    DeckSize = 6
    Ratio = 2
    MinPlayers = 2
    Coins = {6, 7}
    MaxBalance = 13
    Rankings <- WeakOrders
    Expiring = {"shuffle", "reveal", "betting", "reconstruct", "showdown"}
    Calls = {"join", "leave", "admin"}
    Piecemeal = TRUE
    BuyIns <- NoBuyIns
    MaxButton = 1
INVARIANTS TypeOK Solvent ShuffleCoversTable
PROPERTY HandEnds
