SPECIFICATION FairSpec
CONSTANTS
    Requests = {r1, r2}
    Offered <- AllRoutes
    PoolSize = 1
INVARIANTS
    TypeOK
    AnswerTellsOutcome
    OnlyReadsOutside
    PoolNeverStuck
PROPERTIES
    EveryRequestAnswered
CHECK_DEADLOCK FALSE
