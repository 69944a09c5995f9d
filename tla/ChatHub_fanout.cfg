SPECIFICATION Spec
CONSTANTS
  s1 = s1
  Sessions = {s1}
  Clients = {c1, c2}
  SessionOf <- OneSession
  Capacity = 1
  Absent = Absent
CHECK_DEADLOCK FALSE
INVARIANT ClientsSubscribed
