SPECIFICATION FairSpec
CONSTANTS
  Workers = {w1, w2}
  Conns = {c1, c2, c3}
  Fds = {5, 6}
  None = none
  Listen = listen
  Backlog = 2
INVARIANTS OwnDescriptor EventsCurrent
PROPERTIES OneAcceptedAndClosed
