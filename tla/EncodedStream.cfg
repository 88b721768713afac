SPECIFICATION FairStreamSpec
CONSTANTS
  Conns = {c1}
  Addr = {a1, a2}
  Null = null
  Kind = {"mjpeg", "plain", "unknown"}
  Skips = {0}
  MaxFrames = 3
  MaxRequests = 2
  Sentinel = nullopt
  MaxHeld = 1
INVARIANTS NoUseAfterDelete StreamComplete OwedTaken
PROPERTIES QueueSpec ClosesAndServes
