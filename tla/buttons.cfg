\* A queue of two events, two presses and two suppressions.
CONSTANTS
  Capacity = 2
  Wrap = 4
  Debounce = 1
  Long = 2
  MaxPresses = 2
  MaxCommands = 2
SPECIFICATION FairSpec
PROPERTIES
  WholeGestures
  GesturesEnd
