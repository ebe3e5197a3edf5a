SPECIFICATION Spec
CONSTANTS
    MaxPlayers = 3
    MinBet = 1
    Stories <- AllStories
    MarkCap = 1
    Budget = 1
INVARIANT CopyIsTheSnapshot
PROPERTIES TokenNotAskedAgain QueueDrains
CHECK_DEADLOCK FALSE
