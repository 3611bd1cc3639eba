CONSTANTS
  Zones <- MCZones
  Bins <- MCBins
  Home <- MCHome
  Visit <- MCVisit
  Threshold = 1
  Fanout = 3
  MaxBacklog = 0
  Filling <- MCBins
  HandEmptied = {}
  Looping <- MCZones
SPECIFICATION ThreadSpec
INVARIANTS TypeOK OnlyOwnedBins AtMostOneSettledOwner  SnapshotIsPending NoOrphanBin
