SPECIFICATION Spec
CONSTANTS
    Players = {p1, p2, p3}
    NoPlayer = nobody
    MaxPlayers = 3
    SmallBlind = 1
    BigBlind = 2
    CardsPerPlayer = 1
    FlopCards = 1
    DeckSize = 7
    Ratio = 2
    MinPlayers = 2
    Coins = {4}
    MaxBalance = 12
    Rankings <- WeakOrders
    Expiring = {"shuffle", "reveal", "betting", "reconstruct", "showdown"}
    Calls = {"join", "leave"}
    Piecemeal = FALSE
    BuyIns <- NoBuyIns
    MaxButton = 1
CONSTRAINT FewHands
SYMMETRY PlayerSymmetry
INVARIANTS KeyMatchesSeats HoleCardsDealt RevealAsksActive PostflopTurnCanAct OnlyDeadTurnsAbort
