SPECIFICATION Spec
CONSTANTS
  Conn = {c1, c2}
  MaxConns = 1
  RateLimit = 1
  Window = 1
  MaxTime = 1
INVARIANTS ReleaseIsRecorded NothingAfterReturn HandlersBounded RejectionsBounded QuotaIsForTokens
PROPERTIES ServeReturns ConnectionsEnd
CHECK_DEADLOCK FALSE
