SPECIFICATION FairSpec
CONSTANTS
  s1 = s1
  c1 = c1
  Sessions = {s1}
  Clients = {c1, c2}
  SessionOf <- OneSession
  Capacity = 1
  Absent = Absent
  Sends <- OneWriter
  MaxLog = 3
  Followed <- ReadersSecond
  RedisMayFail = TRUE
  DbMayFail = TRUE
  DefaultLimit = 2
  MaxLimit = 3
  MaxRows = 4
  Times = {1, 2, 3}
CHECK_DEADLOCK FALSE
INVARIANTS TypeOK HeardInOrder StoredWasPublished HistoryComplete
PROPERTY HeardOrDropped
