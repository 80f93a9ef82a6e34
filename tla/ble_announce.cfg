\* The same instance; the worker acts on a stop that is over.
CONSTANTS
  Handles = {h1, h2}
  None = None
  QueueSize = 1
  MaxConns = 2
  MaxGen = 3
SPECIFICATION Spec
PROPERTY AnnouncesUntilConnected
CHECK_DEADLOCK FALSE
