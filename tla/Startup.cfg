SPECIFICATION FairSpec
CONSTANTS
  Workers = {w1, w2}
  MaxFrames = 2
  MaxRequests = 2
  MaxErrors = 2
INVARIANTS LifetimesNest AnswersCurrent
PROPERTIES ServesOrEnds
