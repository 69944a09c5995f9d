SPECIFICATION FairSpec
CONSTANTS
  s1 = s1
  Sessions = {s1}
  Starters = {g1, g2}
  StartFor <- OneSession
  Stoppers = {k1, k2}
  Absent = Absent
  Nil = Nil
CHECK_DEADLOCK FALSE
INVARIANTS TypeOK SoleStarter NoOrphan StopMeansExited SoleStopper
PROPERTIES CustodyKept StopReturns
