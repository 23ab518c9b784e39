SPECIFICATION MCSpec
CONSTANTS
  Flows = {1, 2}
  Keys = {k1, k2}
  PeerOf <- Own
  MaxPeerCardinality = 1
  MaxBytes = 3
  MaxEvents = 3
  MaxCloses = 2
INVARIANTS EventsAccounted ExportedIsCurrent OverflowBacked
