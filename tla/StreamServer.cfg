SPECIFICATION Spec
CONSTANTS
  Conns = {c1, c2}
  Addr = {a1, a2, a3}
  Null = null
  Kind = {"mjpeg", "plain", "file", "unknown"}
  Skips <- SkipValues
  MaxFrames = 4
  MaxRequests = 3
SYMMETRY Symmetry
INVARIANTS NoDanglingReceiver StreamsWellFormed SkipsExactly
