SPECIFICATION Spec
CONSTANTS
    Providers = {"grpc", "graphql_sub", "graphql_poll", "webhook", "both"}
    MaxEvents = 3
    Unknown = {2}
    PageSize = 2
    HookCap = 1
    Deliveries = {r1, r2}
    MaxFaults = 2
INVARIANTS NothingLost OnlyFaultsLose
PROPERTY PollingMissesNothing
CHECK_DEADLOCK FALSE
