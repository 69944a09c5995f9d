SPECIFICATION FairSpec
CONSTANTS
  s1 = s1
  Sessions = {s1}
  Peers = {p1, p2}
  SessionOf <- OneSession
  Deletes = {r1}
  Connects = {1}
  Drops = {"disconnected", "closed"}
  Absent = Absent
  DbMayFail = TRUE
INVARIANTS TypeOK GaugeCountsStreams NoStaleSession
PROPERTY TeardownFinishes
