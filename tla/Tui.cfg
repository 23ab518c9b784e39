SPECIFICATION MCSpec
CHECK_DEADLOCK FALSE
CONSTANTS
  eventRingCapacity = 6
  Heights = {8, 14, 18, 23}
  EventHeights = {14, 18}
  EventRows = {8, 10}
  MouseRows = {0, 5, 6, 7, 8, 9, 10, 11, 12, 13, 14, 15, 17, 22}
  MaxBatch = 2
  MaxEvents = 10
  RoundsDown <- MCRoundsDown
  MaxWidth = 180
  IPv4 = {1}
  IPv6 = {2}
  Private = {1}
  IdleThreshold = 2
  Snapshots <- MCSnapshots
  Queries = {"q1", "q2"}
  labelText <- MCLabelText
  addrText <- MCAddrText
  sniText <- MCSniText
  hostText <- MCHostText
  Nameable = {1, 2}
  interfaces <- MCIfaces
  Flags = {"listening", "tcp", "udp", "ipv4", "ipv6", "private"}
  MaxPage = 2
  MaxNow = 2
INVARIANTS FrameFills SplitIsTheUsers EventsCursorShown ColumnsFit RowsAreWholeGroups TableMatchesHeader
PROPERTIES TableHoldsStill
