\* A turn of speech and answer without tools: two blocks of the microphone fill
\* the buffer, three of the answer fill the player's.
SPECIFICATION FairSpec
CONSTANTS
  CaptureLimit = 2
  Output = 2
  Prebuffer = 1
  MaxCalls = 0
  MaxSpeech = 3
  MaxAnswer = 3
  MaxInbox = 1
INVARIANT DoneIsWhole
PROPERTY TurnEnds
CHECK_DEADLOCK FALSE
