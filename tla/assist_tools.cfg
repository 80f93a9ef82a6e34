\* A turn with a call of a tool, repeated and cancelled at any time.
SPECIFICATION Spec
CONSTANTS
  CaptureLimit = 2
  Output = 2
  Prebuffer = 1
  MaxCalls = 1
  MaxSpeech = 1
  MaxAnswer = 1
  MaxInbox = 1
INVARIANTS  ImplInv
PROPERTY CancelForbidsPost
CHECK_DEADLOCK FALSE
