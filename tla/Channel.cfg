SPECIFICATION FairSpec
CONSTANTS
  NoSend = NoSend
  Keys = {"pause", "resume", "reset_guardian", "close_all", "stop"}
  Reachable <- AnyReach
  ReachChanges = TRUE
  MaxSends = 2
 
PROPERTY Drained
