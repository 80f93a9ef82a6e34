\* A ring of three samples between blocks of up to two; two sessions.
CONSTANTS
  BlockMax = 2
  RingSize = 3
  PendingMax = 2
  Capacity = 2
  DelayMax = 1
  MaxSamples = 5
  MaxStarts = 2
SPECIFICATION FairSpec
INVARIANTS
  UsedAlive
  InOrder
  DrainedIsAll
PROPERTY Ends
\* After the last session nothing is left to do.
CHECK_DEADLOCK FALSE
