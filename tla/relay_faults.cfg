\* Two sessions, two links, every deadline may expire; both epochs are used.
CONSTANTS
  Window = 2
  SeqNos = 3
  EpochNos = 2
  MaxPayload = 1
  ReqLen = 1
  RespLen = 1
  MaxOpens = 2
  MaxLinks = 2
  Timeouts = TRUE
SPECIFICATION Spec
INVARIANTS
  InSequence
  RelayInv
 
\* Every session used up and closed: nothing is left to do.
CHECK_DEADLOCK FALSE
