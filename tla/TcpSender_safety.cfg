SPECIFICATION Spec
CONSTANTS
  Worker = w
  Producers = {p, q}
  None = none
  Fd = 5
  Byte = {1, 2, 3, 4, 5}
  Payloads <- MCPayloads
  Files <- MCFiles
  Capacity = 2
  MaxInbox = 1
  MaxCalls = 3
SYMMETRY ProducerSymmetry
INVARIANTS InterestFollowsQueue Conservation SigpipeNeedsFinAndReset SenderOutlivesCallers
