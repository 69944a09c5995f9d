SPECIFICATION FairSpec
CONSTANTS
  s1 = s1
  Sessions = {s1}
  Clients = {c1, c2}
  SessionOf <- OneSession
  Capacity = 2
  Absent = Absent
CHECK_DEADLOCK FALSE
INVARIANTS TypeOK SubscriptionsOwned RoomsMinded RegisteredRoomSafe
PROPERTY PumpsEndTogether
