SPECIFICATION FairSpec
CONSTANTS
  s1 = s1
  x1 = x1
  x2 = x2
  video = video
  audio = audio
  Sessions = {s1}
  Streams = {x1, x2}
  SessionOf <- OneSession
  Starters = {video, audio}
  StreamOf <- OfTheFirst
  Nothing = Nothing
  QueueLimit = 1
  Kept = 2
  MaxSegments <- LongAndShort
  Radix = 3
  PaddedBelow = 2
  MaxFailures = 1
  MaxRestarts = 1
  Followed = {x2}
CHECK_DEADLOCK FALSE
INVARIANTS TypeOK SoleRecording MarkedByOthers ReadyIsVOD AnnouncedWhole ShownWhole ProcessingExplained
PROPERTY JobsSettle
