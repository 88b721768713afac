SPECIFICATION Spec
CONSTANTS
  HttpRoutes <- MCHttpRoutes
  WebsocketUris = {"/chat"}
  Requests <- MCRequests
  Frames <- MCFrames
  None = null
  MaxMessages = 4
  MaxSegment = 5
  MaxParts = 1
INVARIANTS InStep OneProcessor OnlyFramesAfterSwitching
