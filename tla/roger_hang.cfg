\* A command is answered: epso_write_read without a buffer.
SPECIFICATION FairSpec
CONSTANTS
  Kinds = {"card"}
  MaxShown = 1
  MaxOwed = 1
  BUF_FRAGMENTS = 6
PROPERTIES
  CallEnds
