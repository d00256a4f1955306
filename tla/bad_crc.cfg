\* The line damages packets behind their first byte.
SPECIFICATION Spec
CONSTANTS
  Kinds = {"card"}
  MaxShown = 1
  MaxOwed = 1
  CrcDamage = TRUE
PROPERTIES
  HandedAnswerIsIntact
