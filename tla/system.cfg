\* An airlock with readers, buttons, sensors, "do" commands and restarts.
SPECIFICATION ACSpec
CONSTANTS
  DoorNum = 2
  ConfigFile = TRUE
  maskFull <- OneBit
  maskOffset <- OwnOutput
  airLockPartnerLocal <- Pair
  DOOR_OPEN_TIME = 1
  ALARM_RESEND_TIMER = 1
  Grants <- GrantOne
  Inputs <- DoorEvents
  GpioMayFail = FALSE
  PowerUp <- AllReleased
  Commands <- DoCommands
  DbMayFail = FALSE
  c1 = c1
  Card = {c1}
  NoCard = NoCard
  Digit = {1}
  RowsOf <- OneUser
  TWO_FACTOR_TIME = 2
  MAX_PIN_LEN = 1
  PIN_BUF_LEN = 1
  LongCards = {}
  MaxTime = 0
  doorA = 0
  doorB = 1
  modesA = {48}
  modesB = {1}
INVARIANTS
  AirlockExclusion
  PartnerBlocked
PROPERTIES
  ReleasesAreAuthorised
