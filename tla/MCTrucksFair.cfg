CONSTANTS
  b1 = b1
  b2 = b2
  Bins <- MCBins
  Home <- MCBins
  Movable = {b1}
  K = 1
SPECIFICATION FairSpec

PROPERTIES Noticed Serviced
