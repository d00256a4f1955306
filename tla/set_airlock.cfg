\* "set" and "unset" on airlock doors.
SPECIFICATION RCSpec
CONSTANTS
  DoorNum = 2
  ConfigFile = TRUE
  maskFull <- OneBit
  maskOffset <- OwnOutput
  airLockPartnerLocal <- Pair
  DOOR_OPEN_TIME = 2
  ALARM_RESEND_TIMER = 1
  Grants <- GrantOne
  Inputs <- ClosedOrOpen
  GpioMayFail = FALSE
  PowerUp <- PowerUpLocked
  Commands <- SetCommands
  DbMayFail = FALSE
INVARIANTS
  AirlockBackAfterUnset
