SPECIFICATION FairSpec
CONSTANTS
    Envs = {"e1", "e2"}
    Fds = {"f1"}
    TimerIds <- MCTimerIds
    MaxTime = 2
    Throws = TRUE
    MayDestroy = TRUE
CHECK_DEADLOCK FALSE
INVARIANTS LoopInv NoOversleep
PROPERTIES Served
