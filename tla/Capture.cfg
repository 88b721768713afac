SPECIFICATION Spec
CONSTANTS
  Count = 3
  MaxFrames = 5
  MaxErrors = 3
  None = None
INVARIANTS ReadIsStable BuffersKept
