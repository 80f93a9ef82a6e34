\* Two phones on two handles, link faults, every call of the coordinator.
CONSTANTS
  Handles = {h1, h2}
  None = None
  QueueSize = 1
  MaxConns = 2
  MaxGen = 3
SPECIFICATION FairSpec
INVARIANTS
  LinkInv
  RadioQuiet
  RadioOwned
PROPERTY StopSettles
\* A shut-down stack is terminal, and so is the bound MaxGen.
CHECK_DEADLOCK FALSE
