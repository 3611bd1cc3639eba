CONSTANTS
  Nodes <- MCNodes
  Roster <- MCRoster
  Peers <- MCPeers
  Initiators = {1, 3}
  MaxElections = 3
  Prompt = TRUE
SPECIFICATION FairSpec
INVARIANTS TypeOK LeaderIsHighestInGroup AnsweredOnce
PROPERTIES SettledStays HighestWins
