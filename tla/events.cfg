\* Three lines, two addresses, failing look-ups, connections and sends.
\* The calls of sendEvent are bounded, so the model comes to an end.
SPECIFICATION FairSpec
CONSTANTS
  MaxEvents = 3
  Blocks = {b1, b2, b3}
  NoBlock = NoBlock
  StreamCounts = {1, 2}
  logHost = TRUE
  eventHost = TRUE
INVARIANTS
  EventTypeOK
  LinesOnce
  LostIsReported
  MessagesOwned
PROPERTIES
  MainGoesOn
  ThreadsEnd
CHECK_DEADLOCK FALSE
