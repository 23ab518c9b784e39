SPECIFICATION Spec
CONSTANTS
  Tuples = {t1}
  Ifaces = {eth0, lo}
  Counters = {c1, c2, c3, c4}
  Nil = Nil
  MaxTime = 3
  MaxLag = 2
  MaxPackets = 3
  Grace = 1
SYMMETRY Symmetry
INVARIANTS OneWriterPerFlow SnapshotDatesTraffic
PROPERTIES EvictsOnlyQuietFlows TotalsOnlyGrow
