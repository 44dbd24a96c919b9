SPECIFICATION FairSpec
CONSTANTS
    Senders = {s1}
    Msgs = {m1}
    Classes = {1, 3}
    txweights <- MCWeights1
    QueueMaxSize = 1
    EnforceBound = 1
    Fragments = 2
    WordSize = 16
    UseTLS = FALSE
    MaxSessions = 1
INVARIANTS TypeOK PendingCount NoLostWakeup
PROPERTY EventuallyServed
CHECK_DEADLOCK FALSE
