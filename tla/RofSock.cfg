SPECIFICATION FairSpec
CONSTANTS
    Fds = {1}
    BackoffMax = 3
    Tls = TRUE
    Passive = TRUE
    Serial = TRUE
INVARIANTS SocketIntact
PROPERTIES KeepsTrying
