SPECIFICATION FairSpec
CONSTANTS
    t1 = t1
    t2 = t2
    t3 = t3
    app = app
    Tasks = {t1, t2, t3}
    Queues = {app}
    QueueOf <- MCQueueOf
    Null = Null
    Second = 2
    MinInterval = 3
    Early = 1
    MaxTime = 7
INVARIANTS
    QueueNeverCollides
PROPERTIES
    DrainCoversAll
    EveryPatchSettles
CHECK_DEADLOCK FALSE
