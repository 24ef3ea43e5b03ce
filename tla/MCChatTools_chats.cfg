\* Two tools, one after the other or at once, on one chat.
SPECIFICATION Spec
CONSTANTS
  Text <- Texts
  Limit = 3
  MaxReplies = 1
  MaxEvents = 9
INVARIANTS TypeOK OneReplyPerInbound LoopBreakerHolds JudgedOnce
PROPERTIES InboundIsHeard
\* A behaviour stops where the bounds stop it.
CHECK_DEADLOCK FALSE
