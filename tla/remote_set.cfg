\* Two airlock doors, every command, failing statements and restarts.
SPECIFICATION RCSpec
CONSTANTS
  DoorNum = 2
  ConfigFile = TRUE
  maskFull <- OneBit
  maskOffset <- OwnOutput
  airLockPartnerLocal <- Pair
  DOOR_OPEN_TIME = 1
  ALARM_RESEND_TIMER = 1
  Grants <- NoGrants
  Inputs <- ButtonEvents
  GpioMayFail = FALSE
  PowerUp <- PowerUpReleased
  Commands <- AllCommands
  DbMayFail = TRUE
INVARIANTS
  RCTypeOK
  AckedSetDurable
PROPERTIES
  AdmFreezes
  BlockHolds
