SPECIFICATION MCSpec
CONSTANTS
  Tids = {t1, t2}
  Pids = {p1, p2}
  sk1 = sk1
  sk2 = sk2
  Socks = {sk1, sk2}
  Layouts <- MCLayouts
  Stale <- MCStale
  Nil = Nil
  MapSize = 1
  RingSize = 1
  MaxCalls = 2
SYMMETRY Symmetry
CHECK_DEADLOCK FALSE
INVARIANTS EventsMatchCalls ScratchAccounted NothingStaysAttached
