SPECIFICATION Spec
CONSTANTS
  s1 = s1
  s2 = s2
  v1 = v1
  v2 = v2
  a1 = a1
  a2 = a2
  Sessions = {s1, s2}
  Tracks = {v1, v2, a1, a2}
  StartFor <- TrackSession
  KindOf <- TrackKind
  Absent = Absent
INVARIANTS TypeOK ReadyMeansBoth RegisteredOpen LateReaderLetGo
