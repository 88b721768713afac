SPECIFICATION FramingSpec
CONSTANTS
  Lengths = {0, 125, 126, 65535, 65536}
  Opcodes = {1, 2}
  Payload = 129
  MaxFrames = 2
INVARIANTS FramesInStep AnswersReadable
