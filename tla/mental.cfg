SPECIFICATION Spec
CONSTANTS
    Q = 46337
    Sk <- ThreeKeys
    Plaintexts <- NineCards
    HoleCards = 1
    Streets <- FewCards
    Coefficient = 5
    Hands = 2
    Surprises = 1
INVARIANTS CardsOpen HonestNeverRefused
CHECK_DEADLOCK FALSE
CONSTRAINT InOrder
