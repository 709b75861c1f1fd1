\* Two accounts, one key more than is kept, and two limiters in a row.
SPECIFICATION Spec
CONSTANTS
  Caller <- Callers
  TrustsHeader = TRUE
  Limiter = {"writes", "join"}
  Limit <- Limits
  Window <- Windows
  Endpoint = {"read", "write", "join"}
  MaxKeys = 1
  Req = {1}
  MaxNow = 4
PROPERTIES
  ImplementsWindow
CHECK_DEADLOCK FALSE
