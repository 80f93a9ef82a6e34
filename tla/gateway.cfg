\* Two mutations of one note, a create and an append; two executions at a time.
SPECIFICATION Spec
CONSTANTS
  Ids = {"create", "append"}
  Creates = {"create"}
  Execs = {e1, e2}
  Tries = 2
  Pages = 3
  MaxCommits = 4
  MaxStarts = 2
SYMMETRY Symmetric
INVARIANT GateInv
PROPERTIES RefusalTrue AppliedOnce
\* Every export used up: nothing is left to do.
CHECK_DEADLOCK FALSE
