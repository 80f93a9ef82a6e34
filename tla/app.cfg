SPECIFICATION Spec
CONSTANTS
  Workers = {"sync", "talk", "export"}
  Last = 1
INVARIANTS OneOwner  SleepsClean SnapshotWhole
PROPERTIES RadioKept GestureWhole NeverStuck
CHECK_DEADLOCK FALSE
