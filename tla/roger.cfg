\* Late, broken and lost answers, ignored commands and a hang-up.
SPECIFICATION FairSpec
CONSTANTS
  Kinds = {"pin", "both"}
  MaxShown = 2
  MaxOwed = 2
  BUF_FRAGMENTS = 8
INVARIANTS
  EpsoTypeOK
PROPERTIES
  EpsoImplementsChannel
  PollEnds
  GoodLineDelivers
