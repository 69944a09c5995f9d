SPECIFICATION Spec
CONSTANTS
  s1 = s1
  Sessions = {s1}
  Starters = {g1, g2}
  StartFor <- OneSession
  Stoppers = {k1}
  Absent = Absent
  Nil = Nil
CHECK_DEADLOCK FALSE
INVARIANT NoDuplicate
