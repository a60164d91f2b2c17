SPECIFICATION FairSpec
CONSTANT MaxTime = 4
INVARIANT AssertsHold
PROPERTIES
  LeavesSeenAlone
  LoopsEnd
