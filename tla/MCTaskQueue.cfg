SPECIFICATION FairSpec
CONSTANTS
    w1 = w1
    w2 = w2
    q1 = q1
    Task = {1, 2}
    Worker <- MCWorker
    Queue <- MCQueue
    QueueOf <- MCQueueOf
    Retries = {2}
    MaxFaults = 1
    MaxResets = 1
INVARIANTS
    UndisturbedIsExclusive
    RetryBound
    CompletedRan
PROPERTIES
    UndisturbedCompletedIsFinal
    EveryTaskSettles
CHECK_DEADLOCK FALSE
