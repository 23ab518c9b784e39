SPECIFICATION MCSpec
CONSTANTS
  MaxSec = 8
  MaxBytes = 2
  LocalAddrs = {l1}
  RemoteAddrs = {r1}
  PortNums = {1, 2}
  Protos = {"tcp", "udp", "icmp", "other"}
  Captures = {"whole", "cut"}
  MaxPackets = 2
  FlowProtos = {"tcp", "udp", "icmp"}
  StreamLen = 9
  HelloStarts = {0, 2}
  RecordLen = 6
  smallPayload = 1
  maxHelloBuffer = 8
  maxHelloSegments = 4
  SeqMod = 11
  ISN = 8
  MaxExtracted = 7
  IPs = {i1, i2, i3}
  Hosts = {h1, h2}
  capacity = 2
  ttl = 1
  None = None
  MaxTime = 2
CHECK_DEADLOCK FALSE
INVARIANTS BucketsMatchSeconds PacketsAreOwn HelloIsExact HostnamesKept
