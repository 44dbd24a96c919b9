SPECIFICATION Spec
CONSTANTS
  Vers = {1, 3, 4}
  Sends <- AllSends
  Throws <- GoodThrows
  Roles <- AllRoles
  SharedXids = FALSE
  MaxUp = 2
CHECK_DEADLOCK FALSE
INVARIANTS RightHandler ErrorsHandled PortsTracked
PROPERTIES Answered
