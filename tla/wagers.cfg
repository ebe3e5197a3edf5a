SPECIFICATION Spec
CONSTANTS
    Seats = {a, b, c}
    Stacks = {1, 3, 4}
    SmallBlind = 1
    BigBlind = 2
INVARIANTS TypeOK ActedMatched CallersCover
