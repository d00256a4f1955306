\* No reader, no button: only a failing read of the input lines.
SPECIFICATION Spec
CONSTANTS
  DoorNum = 1
  ConfigFile = TRUE
  maskFull <- SoloMaskFull
  maskOffset <- SoloOffset
  airLockPartnerLocal <- NoPartner
  DOOR_OPEN_TIME = 2
  ALARM_RESEND_TIMER = 2
  Grants <- NoGrants
  Inputs <- ClosedOrOpen
  GpioMayFail = TRUE
  PowerUp <- AllOrNothing
PROPERTIES
  ManualOpenNeedsButton
