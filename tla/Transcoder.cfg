SPECIFICATION Spec
CONSTANTS
  MaxFrames = 4
  MaxErrors = 2
  DecoderDelay = 2
  EncoderDelay = 2
INVARIANTS FramesAccounted FlushComplete DefinedOnceReady
