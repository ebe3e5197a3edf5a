SPECIFICATION Spec
CONSTANTS
    Q = 46337
    Sk <- TwoKeys
    Plaintexts <- NineCards
    HoleCards = 1
    Streets <- FewCards
    Coefficient = 5
    Hands = 2
    Surprises = 0
INVARIANTS EveryHandOpens
CHECK_DEADLOCK FALSE
