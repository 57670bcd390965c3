\* The default configuration: queries closer together than its rate limit.
SPECIFICATION DepthSpec
CONSTANTS
    s1 = s1
    s2 = s2
    Sessions <- MCSessions
    Topics = {"depth_query"}
    Limited <- MCLimited
    Deduped = {}
    Answering <- MCAnswering
    Stamps <- MCStamps
    QueueMax = 2
    SubQueueMax = 1
    MaxQueries = 3
    MaxConns = 2
    MaxRestarts = 1
INVARIANT WorkerSurvives
CHECK_DEADLOCK FALSE
