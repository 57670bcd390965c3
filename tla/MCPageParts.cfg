\* Depth: three messages, two connections of two sessions, one restart.  Player:
\* two attempts and the ICE alarm.
SPECIFICATION PartsSpec
CONSTANTS
    s1 = s1
    s2 = s2
    Sessions <- MCSessions
    Topics <- MCTopics
    Limited <- MCLimited
    Deduped <- MCDeduped
    Answering <- MCAnswering
    Stamps <- MCStamps
    QueueMax = 1
    SubQueueMax = 1
    MaxQueries = 3
    MaxConns = 2
    MaxRestarts = 1
    Slots <- MCSlots
    Alarms = {"ice"}
    MaxAttempts = 2
    MaxGen = 2
    MaxLost = 1
INVARIANTS
    NewestRegistered
    OwnAnswersOnce
    BurstSpares
    FlagsFollowState
    ReconnectAlive
PROPERTY
    FreshStart
SYMMETRY SessionSymmetry
CHECK_DEADLOCK FALSE
