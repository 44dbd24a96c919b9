SPECIFICATION FairSpec
CONSTANTS
    m1 = m1
    m2 = m2
    Msgs = {m1, m2}
    Scenarios <- MCScenarios
    QueueMaxSize = 2
    WireBound = 1
CHECK_DEADLOCK FALSE
INVARIANTS QueuesSound NoStandstill
PROPERTIES FifoPerClass EventuallyServed
