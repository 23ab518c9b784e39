SPECIFICATION MCSpec
CONSTANTS
  t1 = t1
  t2 = t2
  h1 = h1
  h2 = h2
  SkAddrs = {sk1, sk2}
  Pids = {p1, p2}
  OutTuples = {t1, t2}
  InTuples = {i1}
  ListenTuple = L
  HalfOf <- TwoServers
  None = None
  MaxSockets = 2
  RingSize = 2
  Names = {n1, n2}
  Ports = {k1}
  Unknown = Unknown
  MaxSpawns = 3
SYMMETRY Symmetry
CHECK_DEADLOCK FALSE
INVARIANTS NoOrphanEntries TableIsExact PollIsOneWalk
