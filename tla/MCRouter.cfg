CONSTANTS
  simulator = simulator
  demo = demo
  Nodes = {2, 3}
  Receiver <- MCReceiver
  Threads <- MCThreads
  Simulator <- simulator
  Sheltered = {simulator}
  MaxTracked = 1
  MaxSent = 3
SPECIFICATION FairSpec
INVARIANTS OncePerThread InOrderAlone 
PROPERTIES NoneWaitsForever
CHECK_DEADLOCK FALSE
