SPECIFICATION Spec
CONSTANTS
    MaxPlayers = 2
    MinBet = 1
    Stacks = {2}
    RaiseTos = {2}
    Rankings <- AnyRanks
    Budget <- NoSurprise
PROPERTY HandEnds
CHECK_DEADLOCK FALSE
