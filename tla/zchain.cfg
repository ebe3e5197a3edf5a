SPECIFICATION Spec
CONSTANTS
    Players = {1, 2, 3}
    Stacks = {2, 5}
    Blinds = {0, 2}
    RakeRates = {0, 1000, 1001}
    RakeCap = 1
    MaxTotalBet = 14
    Deals <- SomeDeals
INVARIANTS ObjectCovers BetsAreAccounted ServerAgreesOnWinners
CHECK_DEADLOCK FALSE
