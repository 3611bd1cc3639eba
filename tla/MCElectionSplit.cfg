CONSTANTS
  Nodes <- MCNodes
  Roster <- MCRoster
  Peers <- MCPeers
  Initiators = {1, 2, 3}
  MaxElections = 2
  Prompt = TRUE
SPECIFICATION Spec
INVARIANT AtMostOneLeader
