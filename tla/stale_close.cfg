\* A door that is opened and closed after its timer ran out.
SPECIFICATION Spec
CONSTANTS
  DoorNum = 2
  ConfigFile = TRUE
  maskFull <- PairMaskFull
  maskOffset <- PairOffset
  airLockPartnerLocal <- PairPartner
  DOOR_OPEN_TIME = 2
  ALARM_RESEND_TIMER = 2
  Grants <- NoGrants
  Inputs <- DoorEvents
  GpioMayFail = FALSE
  PowerUp <- AllOrNothing
INVARIANTS
  ReleasedWhenLockedAndClosed
