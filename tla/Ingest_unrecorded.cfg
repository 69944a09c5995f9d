SPECIFICATION FairSpec
CONSTANTS
  s1 = s1
  p1 = p1
  p2 = p2
  Sessions = {s1}
  Peers = {p1}
  SessionOf <- OneSession
  Deletes = {}
  Connects = {1}
  Drops = {"closed"}
  DbMayFail = FALSE
  FFmpegMayFail = FALSE
  QueueLimit = 2
  Absent = Absent
  Nil = Nil
CHECK_DEADLOCK FALSE
PROPERTY EveryStreamRecorded
