SPECIFICATION FairSpec
CONSTANTS
  Worker = w
  Producers = {p}
  None = none
  Fd = 5
  Byte = {1, 2, 3, 4, 5}
  Payloads <- MCPayloads
  Files <- MCFiles
  Capacity = 2
  MaxInbox = 1
  MaxCalls = 2
PROPERTIES StreamSpec Delivered Reclaimed
