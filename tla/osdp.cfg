\* Late, lost and unreadable answers, and a line that is unplugged.
SPECIFICATION FairSpec
CONSTANTS
  Kinds = {"card", "pin"}
  MaxShown = 2
  MaxOwed = 2
  CrcDamage = FALSE
INVARIANTS
  OsdpTypeOK
PROPERTIES
  OsdpImplementsChannel
  GoodLineDelivers
