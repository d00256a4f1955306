-------------------------------- MODULE Door --------------------------------
(***************************************************************************)
(* The Door structure of door_controller.h and the functions that change   *)
(* it: unlock_door, lock_door, airLockOnPartner, the per-door part of      *)
(* check_inputs, and the GPIO layer they drive.                            *)
(*                                                                         *)
(* The controller is one thread, so a C function is modelled as an         *)
(* operator from the state before the call to the state after it; the      *)
(* state machines of DoorController and RemoteControl chain these          *)
(* operators in the order of the calls.                                    *)
(*                                                                         *)
(* A uint32_t mask is the set of the numbers of its bits that are one:     *)
(* & is \cap, | is \cup, & ~ is \, and -1 is the set of all bits.          *)
(***************************************************************************)
EXTENDS Integers

CONSTANTS
  DoorNum,              \* number of Door structures main() allocates
  ConfigFile,           \* TRUE: started with -c, FALSE: with -n, -m and -s
  maskFull,             \* [Door -> mask]: sub-doors of a door
  maskOffset,           \* [Door -> Bit]: first GPIO output of a door
  airLockPartnerLocal,  \* [Door -> Door or NoDoor]
  DOOR_OPEN_TIME,       \* main loop cycles a door stays unlocked
  ALARM_RESEND_TIMER    \* cycles between two door-open alarms

Door == 0 .. DoorNum - 1
NoDoor == -1            \* the NULL airLockPartnerLocal
Bit == 0 .. 31

ASSUME DoorAssumption ==
  /\ DoorNum \in Nat \ {0}
  /\ ConfigFile \in BOOLEAN
  /\ maskFull \in [Door -> SUBSET Bit]
  /\ maskOffset \in [Door -> Bit]
  /\ airLockPartnerLocal \in [Door -> Door \cup {NoDoor}]
  /\ DOOR_OPEN_TIME \in Nat \ {0}
  /\ ALARM_RESEND_TIMER \in Nat \ {0}

(* doorsCount is a zero-initialised global; only the configuration-file    *)
(* branch of main() counts the doors into it.                              *)
doorsCount == IF ConfigFile THEN DoorNum ELSE 0

(* The doors the loops of mainLoop and check_inputs visit. *)
Polled == 0 .. doorsCount - 1

(* m << k on 32 bits: bits shifted past the last one are lost. *)
ShiftLeft(m, k) == {b \in Bit : b - k \in m}

(***************************************************************************)
(* GPIO.  Outputs are held by the relay, not by the program: they keep     *)
(* their value across a restart.  Input bytes are sets of bit numbers.     *)
(***************************************************************************)
DOOR_OUTPUTS_NUM == 4
INPUTS_DOORS == 2
Output == 0 .. DOOR_OUTPUTS_NUM - 1

DI_MANUAL_OPEN == 0
DI_IS_EMERGENCY_OPEN == 1
DI_IS_DOOR_CLOSE == 2
DI_IS_DOOR_LOCK == 3
DI_STATE_IS_DIFF == 7
InputBit == 0 .. 7
AllInputs == {DI_MANUAL_OPEN, DI_IS_EMERGENCY_OPEN, DI_IS_DOOR_CLOSE,
              DI_IS_DOOR_LOCK}

set_door_state(out, operation, mask) ==
  [o \in Output |-> IF o \in mask THEN operation ELSE out[o]]

(* What get_input_state may leave in values[d], inputs being the bytes the *)
(* lines may show.  The result of the read is ignored: after a failed one  *)
(* the fill pattern 0x13131313 remains, whose four shifted copies set      *)
(* every bit.  Only the first INPUTS_DOORS entries are written; the others *)
(* are uninitialised stack bytes.                                          *)
get_input_state(d, failed, inputs) ==
  IF d >= INPUTS_DOORS THEN SUBSET InputBit
  ELSE IF failed THEN {InputBit} ELSE inputs

(***************************************************************************)
(* The state: the fields of every Door, the GPIO outputs, and the last     *)
(* status signal sent to the readers of each door (its LED).               *)
(***************************************************************************)
LockState == {"unlock", "lock"}
Led == {"open", "lock", "blocked", "unblocked", "none"}

State ==
  [lastInput       : [Door -> SUBSET InputBit],
   alarm_timers    : [Door -> 0 .. ALARM_RESEND_TIMER],
   door_lock_timer : [Door -> 0 .. DOOR_OPEN_TIME],
   admDisableMask  : [Door -> SUBSET Bit],
   airLockMask     : [Door -> SUBSET Bit],
   output          : [Output -> LockState],
   led             : [Door -> Led]]

(* lastInput of a door whose inputs were never read: 0x80 | 0x0f. *)
InitialInput == {DI_STATE_IS_DIFF} \cup AllInputs

(* Mutant: the timer that locks the doors after a start is not set. *)
StartState_timer_zero(out, leds) ==
  [lastInput       |-> [d \in Door |-> InitialInput],
   alarm_timers    |-> [d \in Door |-> 0],
   door_lock_timer |-> [d \in Door |-> 0],
   admDisableMask  |-> [d \in Door |-> {}],
   airLockMask     |-> [d \in Door |-> {}],
   output          |-> out,
   led             |-> leds]

(* The state main() builds before the first loop; out and leds are what    *)
(* the relays and the readers hold at that moment.                         *)
StartState(out, leds) ==
  [lastInput       |-> [d \in Door |-> InitialInput],
   alarm_timers    |-> [d \in Door |-> 0],
   door_lock_timer |-> [d \in Door |-> 1],
   admDisableMask  |-> [d \in Door |-> {}],
   airLockMask     |-> [d \in Door |-> {}],
   output          |-> out,
   led             |-> leds]

(***************************************************************************)
(* door_controller.c                                                       *)
(***************************************************************************)
signalDoorStatus(s, d) ==
  [s EXCEPT !.led[d] =
     IF s.admDisableMask[d] \cup s.airLockMask[d] # {} THEN "blocked"
                                                       ELSE "unblocked"]

(* Mutant: the door sensor is not asked. *)
Locked_only(s, d) == s.door_lock_timer[d] <= 0

(* Locked for the airlock means the timer ran out, closed means the last   *)
(* input byte said so.                                                     *)
LockedAndClosed(s, d) ==
  /\ s.door_lock_timer[d] <= 0
  /\ DI_IS_DOOR_CLOSE \in s.lastInput[d]

airLockOnPartner(s, d, mask) ==
  LET p == airLockPartnerLocal[d]
      air == IF mask # {} THEN maskFull[p] \cap mask
             ELSE IF LockedAndClosed(s, d) THEN {} ELSE s.airLockMask[p]
  IN IF p = NoDoor THEN s
     ELSE signalDoorStatus([s EXCEPT !.airLockMask[p] = air], d)

(* Mutants: the airlock block, the administrative block is not looked at. *)
unlock_mask_no_airlock(s, d, mask) ==
  ShiftLeft((mask \cap maskFull[d]) \ s.admDisableMask[d], maskOffset[d])
lock_mask_no_adm(s, d, mask) == ShiftLeft(mask \cap maskFull[d], maskOffset[d])

(* The outputs unlock_door and lock_door work on: their return values. *)
unlock_mask(s, d, mask) ==
  ShiftLeft(((mask \cap maskFull[d]) \ s.airLockMask[d]) \ s.admDisableMask[d],
            maskOffset[d])
lock_mask(s, d, mask) ==
  ShiftLeft((mask \cap maskFull[d]) \ s.admDisableMask[d], maskOffset[d])

(* Mutants: the partner is not blocked; the signal is sent outside the if. *)
unlock_door_no_partner(s, d, mask) ==
  LET m == unlock_mask(s, d, mask)
  IN IF m = {} THEN s
     ELSE [s EXCEPT !.output = set_door_state(s.output, "unlock", m),
                    !.door_lock_timer[d] = DOOR_OPEN_TIME,
                    !.led[d] = "open"]
unlock_door_always_signals(s, d, mask) ==
  LET m == unlock_mask(s, d, mask)
      a == airLockOnPartner(s, d, Bit)
  IN IF m = {} THEN [s EXCEPT !.led[d] = "open"]
     ELSE [a EXCEPT !.output = set_door_state(a.output, "unlock", m),
                    !.door_lock_timer[d] = DOOR_OPEN_TIME,
                    !.led[d] = "open"]

unlock_door(s, d, mask) ==
  LET m == unlock_mask(s, d, mask)
      a == airLockOnPartner(s, d, Bit)
  IN IF m = {} THEN s
     ELSE [a EXCEPT !.output = set_door_state(a.output, "unlock", m),
                    !.door_lock_timer[d] = DOOR_OPEN_TIME,
                    !.led[d] = "open"]

(* Mutant: the partner is not freed. *)
lock_door_no_release(s, d, mask) ==
  LET m == lock_mask(s, d, mask)
  IN IF m = {} THEN s
     ELSE [s EXCEPT !.output = set_door_state(s.output, "lock", m),
                    !.led[d] = "lock"]

(* lock_door leaves door_lock_timer as it is. *)
lock_door(s, d, mask) ==
  LET m == lock_mask(s, d, mask)
      o == [s EXCEPT !.output = set_door_state(s.output, "lock", m)]
  IN IF m = {} THEN s
     ELSE [airLockOnPartner(o, d, {}) EXCEPT !.led[d] = "lock"]

(* Mutants: a timer of zero is counted down; only sub-door 0 is locked;    *)
(* < 0 in the place of <= 0.                                               *)
door_timer_unguarded(s, d) ==
  LET t == s.door_lock_timer[d] - 1
      c == [s EXCEPT !.door_lock_timer[d] = t]
  IN IF t <= 0 THEN lock_door(c, d, maskFull[d]) ELSE c
door_timer_first_subdoor(s, d) ==
  LET t == s.door_lock_timer[d] - 1
      c == [s EXCEPT !.door_lock_timer[d] = t]
  IN IF s.door_lock_timer[d] = 0 THEN s
     ELSE IF t <= 0 THEN lock_door(c, d, {0}) ELSE c
door_timer_off_by_one(s, d) ==
  LET t == s.door_lock_timer[d] - 1
      c == [s EXCEPT !.door_lock_timer[d] = t]
  IN IF s.door_lock_timer[d] = 0 THEN s
     ELSE IF t < 0 THEN lock_door(c, d, maskFull[d]) ELSE c

(* The close-door timer of mainLoop. *)
door_timer(s, d) ==
  LET t == s.door_lock_timer[d] - 1
      c == [s EXCEPT !.door_lock_timer[d] = t]
  IN IF s.door_lock_timer[d] = 0 THEN s
     ELSE IF t <= 0 THEN lock_door(c, d, maskFull[d]) ELSE c

(* Mutant: the level of the inputs is taken for their edge. *)
InputDiff_level(s, d, input) == input

(* check_inputs: the edges of the input byte of door d, handled in the     *)
(* order of the code.  lastInput is assigned after the handlers ran.       *)
InputDiff(s, d, input) ==
  LET last == s.lastInput[d]
  IN IF DI_STATE_IS_DIFF \in last THEN last
     ELSE (input \ last) \cup (last \ input)

manual_open(s, d, input) ==
  IF DI_MANUAL_OPEN \in InputDiff(s, d, input) \cap input
  THEN unlock_door(s, d, {0}) ELSE s

emergency_open(s, d, diff, input) ==
  IF DI_IS_EMERGENCY_OPEN \in diff \cap input
  THEN airLockOnPartner(s, d, Bit) ELSE s

(* Mutant: opening the door does not block the partner. *)
door_close_no_block(s, d, diff, input) ==
  IF DI_IS_DOOR_CLOSE \in diff \cap input
  THEN airLockOnPartner(s, d, {}) ELSE s

door_close(s, d, diff, input) ==
  IF DI_IS_DOOR_CLOSE \notin diff THEN s
  ELSE airLockOnPartner(s, d, IF DI_IS_DOOR_CLOSE \in input THEN {} ELSE Bit)

(* ALARM_MASK hides a missing DI_IS_DOOR_LOCK from the alarm. *)
Alarm(input) ==
  \/ DI_IS_EMERGENCY_OPEN \in input
  \/ DI_IS_DOOR_CLOSE \notin input

(* Mutant: the count-down is started again in every cycle. *)
alarm_timer_restarts(t, input) ==
  IF ~Alarm(input) THEN 0 ELSE ALARM_RESEND_TIMER

(* An alarm event is sent when the count-down reaches zero, which starts   *)
(* it again.                                                               *)
alarm_timer(t, input) ==
  IF ~Alarm(input) THEN 0
  ELSE IF t <= 1 THEN ALARM_RESEND_TIMER ELSE t - 1

check_input(s, d, input) ==
  LET diff == InputDiff(s, d, input)
      opened == emergency_open(manual_open(s, d, input), d, diff, input)
      closed == door_close(opened, d, diff, input)
  IN [closed EXCEPT !.lastInput[d] = input,
                    !.alarm_timers[d] = alarm_timer(s.alarm_timers[d], input)]

(***************************************************************************)
(* What the properties speak of.                                           *)
(***************************************************************************)
OutputsOf(d) == ShiftLeft(maskFull[d], maskOffset[d]) \cap Output

Unlocked(s, d) == \E o \in OutputsOf(d) : s.output[o] = "unlock"

Opened(s, d) == DI_IS_DOOR_CLOSE \notin s.lastInput[d]

HasPartner(d) == airLockPartnerLocal[d] # NoDoor

Blocked(s, d) == maskFull[d] \subseteq s.airLockMask[d]

(* The airlock discipline, V being the doors whose timer ran at least      *)
(* once: a released lock has a running timer, a running timer or an open   *)
(* door blocks the partner, and only one of two partners has a timer.      *)
Protected(s, V) ==
  /\ \A d \in Door : s.admDisableMask[d] = {}
  /\ \A d \in V : Unlocked(s, d) => s.door_lock_timer[d] > 0
  /\ \A d \in V : s.door_lock_timer[d] > 0 /\ HasPartner(d)
                  => Blocked(s, airLockPartnerLocal[d])
  /\ \A d \in V : airLockPartnerLocal[d] \in V
                  => s.door_lock_timer[d] = 0
                       \/ s.door_lock_timer[airLockPartnerLocal[d]] = 0
  /\ \A d \in Door : Opened(s, d) /\ HasPartner(d)
                  => Blocked(s, airLockPartnerLocal[d])

(* A configuration in which no two doors drive the same output.            *)
DisjointOutputs ==
  \A d, e \in Door : d # e => OutputsOf(d) \cap OutputsOf(e) = {}

(* A configuration in which a relay belongs to every sub-door.             *)
RelaysExist ==
  \A d \in Door :
    OutputsOf(d) # {} /\ ShiftLeft(maskFull[d], maskOffset[d]) \subseteq Output

(* A configuration in which airlock partners name each other.              *)
AirlockPairs ==
  \A d \in Door : HasPartner(d) =>
    /\ airLockPartnerLocal[d] # d
    /\ airLockPartnerLocal[airLockPartnerLocal[d]] = d
=============================================================================
