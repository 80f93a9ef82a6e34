\* Two names, two recordings, two texts, two power losses, any file operation may fail.
CONSTANTS
  Notes = {n1, n2}
  None = None
  Chunk = 2
  Second = 2
  MaximumBytes = 3
  MaxStarts = 2
  MaxTexts = 2
  MaxCrashes = 2
SPECIFICATION FairSpec
INVARIANTS
  KeptReadable
  FilesInv
PROPERTIES
  
  StartsClean
  SavingEnds
\* Every name, start and power loss used up: nothing is left to do.
CHECK_DEADLOCK FALSE
