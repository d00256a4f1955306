\* Two airlock doors of two sub-doors each, all input events, failing reads;
\* fairness for the liveness properties at the end.
SPECIFICATION FairSpec
CONSTANTS
  DoorNum = 2
  ConfigFile = TRUE
  maskFull <- SubMaskFull
  maskOffset <- SubOffset
  airLockPartnerLocal <- PairPartner
  DOOR_OPEN_TIME = 3
  ALARM_RESEND_TIMER = 2
  Grants <- SubGrants
  Inputs <- AllEvents
  GpioMayFail = TRUE
  PowerUp <- AllOrNothing
INVARIANTS
  TypeOK
  AirlockExclusion
  PartnerBlocked
  AirlockInv
  TimerMeansUnlocked
  LedOpenMeansUnlocked
PROPERTIES
  ImplementsInterlock
  UnlockRespectsPartner
  ManualOpenIsEdge
  StartLocks
  LocksAgain
  AlarmRepeats
  BlockadeEnds
