SPECIFICATION PauseSpec
CONSTANTS
  Tuples = {t1}
  SocketTuples = {t1}
  Ifaces = {eth0}
  Counters = {c1, c2}
  Nil = Nil
  Pids = {p1}
  NoPid = NoPid
  NoIface = NoIface
  MaxTime = 3
  MaxLag = 0
  MaxPackets = 2
  Grace = 1
PROPERTIES EvictedAfterPause RowsFollowSockets
