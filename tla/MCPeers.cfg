CONSTANTS
  Zones <- MCZones
  Links <- MCLinks
  Limit = 1
SPECIFICATION FairSpec
INVARIANTS RecordsAgree
PROPERTIES Rediscovered SilentIsLost
