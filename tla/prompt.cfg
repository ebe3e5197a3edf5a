SPECIFICATION SeatedSpec
CONSTANTS
    Players = {p1, p2, p3}
    NoPlayer = nobody
    MaxPlayers = 3
    SmallBlind = 1
    BigBlind = 2
    CardsPerPlayer = 1
    FlopCards = 1
    DeckSize = 7
    Ratio = 2
    MinPlayers = 2
    Coins = {5}
    MaxBalance = 20
    Rankings <- WeakOrders
    Expiring = {"betting"}
    Calls = {}
    Piecemeal = FALSE
    BuyIns <- Uneven
    MaxButton = 1
CONSTRAINT FewHands
INVARIANTS BestHandTakesItsShare
PROPERTIES ChipsConserved StreetClosesMatched NoOverwin BettingTimerFresh
