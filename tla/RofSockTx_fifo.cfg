SPECIFICATION Spec
CONSTANTS
    Senders = {s1}
    Msgs = {m1, m2}
    Classes = {3}
    txweights <- MCWeights1
    QueueMaxSize = 2
    EnforceBound = 1
    Fragments = 2
    WordSize = 16
    UseTLS = TRUE
    MaxSessions = 1
SYMMETRY MCSymmetryMsgs
PROPERTY FifoPerClass
CHECK_DEADLOCK FALSE
