CONSTANTS
  Zones <- MCZones
  Bins <- MCFour
  Home <- MCHomeFour
  Visit <- MCVisit
  Threshold = 1
  Fanout = 1
  MaxBacklog = 0
  Filling <- MCFilling
  HandEmptied = {}
  Looping = {1}
SPECIFICATION UnlistedThreadSpec
INVARIANTS NoOrphanBin
