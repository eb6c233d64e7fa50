SPECIFICATION FairSpec
CONSTANTS
  Pages <- SomePages
  Home <- HomePath
  Login <- LoginPath
  Channels <- ChannelsPath
  Subpaths = {"/providers/1/channels"}
  Unregistered = {"/nowhere"}
  Slots = {1, 2}
  MaxMoves = 3
  MaxFaults = 1
INVARIANTS ShellTypeOK NoPageBeforeLogin PageFollowsHash
PROPERTY ShellSettles
CHECK_DEADLOCK FALSE
