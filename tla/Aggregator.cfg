SPECIFICATION MCSpec
CONSTANTS
  Tuples = {t1, icmp}
  SocketTuples = {t1}
  Ifaces = {eth0, lo}
  Second = lo
  Counters = {c1, c2}
  Nil = Nil
  Pids = {p1}
  NoPid = NoPid
  NoIface = NoIface
  MaxTime = 3
  MaxTimeTwo = 2
  MaxLag = 0
  MaxPackets = 2
  Grace = 1
SYMMETRY Symmetry
INVARIANT ShowsExactlyRecentRows
PROPERTIES RowsKeepTheirHistory
