SPECIFICATION FairSpec
CONSTANTS
  Header <- MCHeader
  Entries <- MCEntries
  Adverts <- MCAdverts
  Wanted <- MCWanted
  Packs <- MCPacks
  Depth = 2
INVARIANTS DoneIsTree CompleteIsTaken
PROPERTY RunEnds
CHECK_DEADLOCK FALSE
