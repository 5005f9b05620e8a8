\* Three sessions in a store of two, a TTL of two ticks, two goroutines.
CONSTANTS
  s1 = s1
  s2 = s2
  s3 = s3
  p1 = p1
  p2 = p2
  Ids = {s1, s2, s3}
  Procs = {p1, p2}
  TTL = 2
  MaxSessions = 2
  MaxTime = 5
  MaxDelay = 1
  None = None
SPECIFICATION Spec
SYMMETRY Symmetry
INVARIANTS TypeOK ClosedIsGone
PROPERTIES NewIsKept EvictsLeastRecentlyUsed ServedWithinTTL ExpiredOnlyWhenIdle
