SPECIFICATION FairSpec
CONSTANTS
  MaxRecordingTime = 2
  MaxFrames = 3
  MaxSwitches = 3
  MaxTime = 3
  MaxSetBacks = 1
  Local <- MCLocal
INVARIANTS AcceptedIsRecorded FollowsSwitch FileAgeBounded
PROPERTIES OnlyRestartOverwrites LogSpec FramesWritten
