\* One process, two connections of clients, one connection of the pool.
SPECIFICATION FairSpec
CONSTANTS
    MaxInt32 = 1000000
    Clients = {c1, c2}
    Visited <- Sample
    Environments <- Started
\* A process that has exited does nothing.
CHECK_DEADLOCK FALSE
INVARIANTS
    TypeOK
    AnsweredOnce
    LoggedOnce
    NothingPastRefusal
    ContextComplete
    PoolBalanced
    PoolOutlivesRequests
    GracefulExit
    ServesOnlyConfigured
PROPERTIES
    StopsWhenAsked
    FailureEndsProcess
    ReadyzAnswers
