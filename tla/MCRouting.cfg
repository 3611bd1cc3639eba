CONSTANTS
  Bins <- MCBins
  Start = "truck"
  Dist <- MCDist
  Levels <- MCLevels
  Lists <- MCLists
  Spares <- MCSpares
SPECIFICATION FairSpec
INVARIANTS RouteIsTour NearestFirst Rerouted RoutableFirst
PROPERTIES Terminates
