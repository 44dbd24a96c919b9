SPECIFICATION RoleSpec
CONSTANTS
    MaxCtls = 3
    HalfRange = 2
    OneThread = TRUE
INVARIANTS RoleTypeOK AtMostOneMaster SlavesDoNotModify
PROPERTY GenerationForward
CHECK_DEADLOCK FALSE
