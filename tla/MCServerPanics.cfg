CONSTANTS
  MaxClients  = 1
  MaxMessages = 1
SPECIFICATION Spec
CHECK_DEADLOCK FALSE
INVARIANT ClientsAreClosed
