------------------------ MODULE DoorController_proofs ------------------------
(***************************************************************************)
(* Proofs about the main loop: what each function of door_controller.c     *)
(* does to the fields of the doors, the type invariant, and that lock,     *)
(* close-door timer and LED of a door agree and its button acts once.      *)
(***************************************************************************)
EXTENDS DoorController, TLAPS

-----------------------------------------------------------------------------
(* The functions, field by field. *)

(* signalDoorStatus writes the LED and nothing else. *)
LEMMA SignalFields ==
  ASSUME NEW s \in State, NEW d \in Door
  PROVE  LET t == signalDoorStatus(s, d)
         IN /\ t \in State
            /\ t.lastInput = s.lastInput
            /\ t.alarm_timers = s.alarm_timers
            /\ t.door_lock_timer = s.door_lock_timer
            /\ t.admDisableMask = s.admDisableMask
            /\ t.airLockMask = s.airLockMask
            /\ t.output = s.output
  BY DEF signalDoorStatus, State, Led

(* The blockade airLockOnPartner leaves on the partner of door d. *)
PartnerMask(s, d, mask) ==
  IF mask # {} THEN maskFull[airLockPartnerLocal[d]] \cap mask
  ELSE IF LockedAndClosed(s, d) THEN {} ELSE s.airLockMask[airLockPartnerLocal[d]]

(* airLockOnPartner changes the blockade of the partner and the LED. *)
LEMMA AirLockFields ==
  ASSUME NEW s \in State, NEW d \in Door, NEW mask \in SUBSET Bit
  PROVE  LET t == airLockOnPartner(s, d, mask)
         IN /\ t \in State
            /\ t.lastInput = s.lastInput
            /\ t.alarm_timers = s.alarm_timers
            /\ t.door_lock_timer = s.door_lock_timer
            /\ t.admDisableMask = s.admDisableMask
            /\ t.output = s.output
            /\ t.airLockMask =
                 IF HasPartner(d)
                 THEN [s.airLockMask EXCEPT ![airLockPartnerLocal[d]] =
                         PartnerMask(s, d, mask)]
                 ELSE s.airLockMask
  <1> DEFINE p == airLockPartnerLocal[d]
             u == [s EXCEPT !.airLockMask[p] = PartnerMask(s, d, mask)]
  <1>1. CASE p = NoDoor
    BY <1>1 DEF airLockOnPartner, HasPartner
  <1>2. CASE p # NoDoor
    <2>1. p \in Door
      BY <1>2, DoorAssumption
    <2>2. PartnerMask(s, d, mask) \in SUBSET Bit
      BY <2>1, DoorAssumption DEF PartnerMask, State
    <2>3. u \in State /\ u.airLockMask = [s.airLockMask EXCEPT ![p] = PartnerMask(s, d, mask)]
      BY <2>1, <2>2 DEF State
    <2>4. /\ u.lastInput = s.lastInput
          /\ u.alarm_timers = s.alarm_timers
          /\ u.door_lock_timer = s.door_lock_timer
          /\ u.admDisableMask = s.admDisableMask
          /\ u.output = s.output
      BY <2>1 DEF State
    <2>5. airLockOnPartner(s, d, mask) = signalDoorStatus(u, d)
      BY <1>2 DEF airLockOnPartner, PartnerMask
    <2> HIDE DEF u
    <2>6. QED
      BY <1>2, <2>3, <2>4, <2>5, SignalFields DEF HasPartner
  <1>3. QED
    BY <1>1, <1>2

(* set_door_state keeps the outputs outside the mask. *)
LEMMA OutputType ==
  ASSUME NEW out \in [Output -> LockState], NEW op \in LockState, NEW m
  PROVE  set_door_state(out, op, m) \in [Output -> LockState]
  BY DEF set_door_state

(* unlock_door: nothing, or the outputs of the mask released, the timer    *)
(* started and the partner blocked.                                        *)
LEMMA UnlockFields ==
  ASSUME NEW s \in State, NEW d \in Door, NEW mask \in SUBSET Bit
  PROVE  LET t == unlock_door(s, d, mask)
             m == unlock_mask(s, d, mask)
         IN /\ t \in State
            /\ t.lastInput = s.lastInput
            /\ t.alarm_timers = s.alarm_timers
            /\ t.admDisableMask = s.admDisableMask
            /\ m = {} => t = s
            /\ m # {} =>
                 /\ t.door_lock_timer = [s.door_lock_timer EXCEPT ![d] = DOOR_OPEN_TIME]
                 /\ t.output = set_door_state(s.output, "unlock", m)
                 /\ t.airLockMask = airLockOnPartner(s, d, Bit).airLockMask
  <1> DEFINE a == airLockOnPartner(s, d, Bit)
             m == unlock_mask(s, d, mask)
             t == [a EXCEPT !.output = set_door_state(a.output, "unlock", m),
                            !.door_lock_timer[d] = DOOR_OPEN_TIME,
                            !.led[d] = "open"]
  <1>1. CASE m = {}
    BY <1>1 DEF unlock_door
  <1>2. CASE m # {}
    <2>1. /\ a \in State
          /\ a.lastInput = s.lastInput
          /\ a.alarm_timers = s.alarm_timers
          /\ a.door_lock_timer = s.door_lock_timer
          /\ a.admDisableMask = s.admDisableMask
          /\ a.output = s.output
      <3>1. Bit \in SUBSET Bit
        OBVIOUS
      <3>2. QED
        BY <3>1, AirLockFields
    <2>2. unlock_door(s, d, mask) = t
      BY <1>2 DEF unlock_door
    <2>3. s.output \in [Output -> LockState] /\ "unlock" \in LockState
      BY DEF State, LockState
    <2>4. set_door_state(a.output, "unlock", m) \in [Output -> LockState]
      BY <2>1, <2>3, OutputType
    <2> HIDE DEF a, m
    <2>5. t \in State
      <3>1. DOOR_OPEN_TIME \in 0 .. DOOR_OPEN_TIME /\ "open" \in Led
        BY DoorAssumption DEF Led
      <3>2. QED
        BY <2>1, <2>4, <3>1 DEF State
    <2>6. /\ t.lastInput = a.lastInput
          /\ t.alarm_timers = a.alarm_timers
          /\ t.admDisableMask = a.admDisableMask
          /\ t.airLockMask = a.airLockMask
          /\ t.door_lock_timer = [a.door_lock_timer EXCEPT ![d] = DOOR_OPEN_TIME]
          /\ t.output = set_door_state(a.output, "unlock", m)
      BY <2>1 DEF State
    <2>7. QED
      BY <1>2, <2>1, <2>2, <2>5, <2>6 DEF a, m
  <1>3. QED
    BY <1>1, <1>2

(* lock_door: nothing, or the outputs of the mask locked and the partner   *)
(* freed if the door is also closed; the timer is left alone.              *)
LEMMA LockFields ==
  ASSUME NEW s \in State, NEW d \in Door, NEW mask \in SUBSET Bit
  PROVE  LET t == lock_door(s, d, mask)
             m == lock_mask(s, d, mask)
         IN /\ t \in State
            /\ t.lastInput = s.lastInput
            /\ t.alarm_timers = s.alarm_timers
            /\ t.admDisableMask = s.admDisableMask
            /\ t.door_lock_timer = s.door_lock_timer
            /\ m = {} => t = s
            /\ m # {} =>
                 /\ t.output = set_door_state(s.output, "lock", m)
                 /\ t.airLockMask = airLockOnPartner(s, d, {}).airLockMask
  <1> DEFINE m == lock_mask(s, d, mask)
             o == [s EXCEPT !.output = set_door_state(s.output, "lock", m)]
             a == airLockOnPartner(o, d, {})
             t == [a EXCEPT !.led[d] = "lock"]
  <1>1. CASE m = {}
    BY <1>1 DEF lock_door
  <1>2. CASE m # {}
    <2>1. set_door_state(s.output, "lock", m) \in [Output -> LockState]
      <3>1. s.output \in [Output -> LockState] /\ "lock" \in LockState
        BY DEF State, LockState
      <3>2. QED
        BY <3>1, OutputType
    <2>2. /\ o \in State
          /\ o.lastInput = s.lastInput
          /\ o.alarm_timers = s.alarm_timers
          /\ o.door_lock_timer = s.door_lock_timer
          /\ o.admDisableMask = s.admDisableMask
          /\ o.airLockMask = s.airLockMask
          /\ o.output = set_door_state(s.output, "lock", m)
      <3> HIDE DEF m
      <3>1. QED
        BY <2>1 DEF State
    <2>3. lock_door(s, d, mask) = t
      BY <1>2 DEF lock_door
    <2> HIDE DEF m, o
    <2>4. {} \in SUBSET Bit
      OBVIOUS
    <2>5. /\ a \in State
          /\ a.lastInput = s.lastInput
          /\ a.alarm_timers = s.alarm_timers
          /\ a.door_lock_timer = s.door_lock_timer
          /\ a.admDisableMask = s.admDisableMask
          /\ a.output = o.output
      BY <2>2, <2>4, AirLockFields
    <2>6. PartnerMask(o, d, {}) = PartnerMask(s, d, {})
      BY <2>2 DEF PartnerMask, LockedAndClosed
    <2>7. a.airLockMask = airLockOnPartner(s, d, {}).airLockMask
      <3>1. a.airLockMask = IF HasPartner(d)
              THEN [o.airLockMask EXCEPT ![airLockPartnerLocal[d]] = PartnerMask(o, d, {})]
              ELSE o.airLockMask
        BY <2>2, <2>4, AirLockFields
      <3>2. airLockOnPartner(s, d, {}).airLockMask = IF HasPartner(d)
              THEN [s.airLockMask EXCEPT ![airLockPartnerLocal[d]] = PartnerMask(s, d, {})]
              ELSE s.airLockMask
        BY <2>4, AirLockFields
      <3>3. QED
        BY <2>2, <2>6, <3>1, <3>2
    <2> HIDE DEF a
    <2>8. "lock" \in Led
      BY DEF Led
    <2>9. /\ t \in State
          /\ t.lastInput = a.lastInput
          /\ t.alarm_timers = a.alarm_timers
          /\ t.admDisableMask = a.admDisableMask
          /\ t.airLockMask = a.airLockMask
          /\ t.door_lock_timer = a.door_lock_timer
          /\ t.output = a.output
      BY <2>5, <2>8 DEF State
    <2>10. QED
      BY <1>2, <2>2, <2>3, <2>5, <2>7, <2>9 DEF m
  <1>3. QED
    BY <1>1, <1>2

(* One tick of the close-door timer of mainLoop. *)
LEMMA TimerFields ==
  ASSUME NEW s \in State, NEW d \in Door
  PROVE  LET c == [s EXCEPT !.door_lock_timer[d] = s.door_lock_timer[d] - 1]
             t == door_timer(s, d)
         IN /\ t \in State
            /\ s.door_lock_timer[d] = 0 => t = s
            /\ s.door_lock_timer[d] # 0 =>
                 /\ c \in State
                 /\ c.lastInput = s.lastInput
                 /\ c.alarm_timers = s.alarm_timers
                 /\ c.admDisableMask = s.admDisableMask
                 /\ c.airLockMask = s.airLockMask
                 /\ c.output = s.output
                 /\ c.door_lock_timer =
                      [s.door_lock_timer EXCEPT ![d] = s.door_lock_timer[d] - 1]
                 /\ t = IF s.door_lock_timer[d] = 1
                        THEN lock_door(c, d, maskFull[d]) ELSE c
  <1> DEFINE c == [s EXCEPT !.door_lock_timer[d] = s.door_lock_timer[d] - 1]
  <1>1. /\ s.door_lock_timer \in [Door -> 0 .. DOOR_OPEN_TIME]
        /\ s.door_lock_timer[d] \in 0 .. DOOR_OPEN_TIME
    BY DEF State
  <1>2. CASE s.door_lock_timer[d] = 0
    BY <1>2 DEF door_timer
  <1>3. CASE s.door_lock_timer[d] # 0
    <2>1. s.door_lock_timer[d] - 1 \in 0 .. DOOR_OPEN_TIME
      BY <1>1, <1>3, DoorAssumption
    <2>2. /\ c \in State
          /\ c.lastInput = s.lastInput
          /\ c.alarm_timers = s.alarm_timers
          /\ c.admDisableMask = s.admDisableMask
          /\ c.airLockMask = s.airLockMask
          /\ c.output = s.output
          /\ c.door_lock_timer =
               [s.door_lock_timer EXCEPT ![d] = s.door_lock_timer[d] - 1]
      BY <2>1 DEF State
    <2>3. s.door_lock_timer[d] - 1 <= 0 <=> s.door_lock_timer[d] = 1
      BY <1>1, <1>3, DoorAssumption
    <2>4. door_timer(s, d) = IF s.door_lock_timer[d] = 1
                             THEN lock_door(c, d, maskFull[d]) ELSE c
      BY <1>3, <2>3 DEF door_timer
    <2> HIDE DEF c
    <2>5. maskFull[d] \in SUBSET Bit
      BY DoorAssumption
    <2>6. door_timer(s, d) \in State
      BY <2>2, <2>4, <2>5, LockFields
    <2>7. QED
      BY <1>3, <2>2, <2>4, <2>6 DEF c
  <1>4. QED
    BY <1>2, <1>3

(* The handlers of check_inputs run before lastInput is assigned. *)
LEMMA HandlerFields ==
  ASSUME NEW s \in State, NEW d \in Door, NEW input \in SUBSET InputBit
  PROVE  LET diff == InputDiff(s, d, input)
             m == manual_open(s, d, input)
             e == emergency_open(m, d, diff, input)
             c == door_close(e, d, diff, input)
         IN /\ m \in State /\ m.lastInput = s.lastInput
            /\ m.alarm_timers = s.alarm_timers
            /\ e \in State /\ e.lastInput = s.lastInput
            /\ e.alarm_timers = s.alarm_timers
            /\ c \in State /\ c.lastInput = s.lastInput
            /\ c.alarm_timers = s.alarm_timers
  <1> DEFINE diff == InputDiff(s, d, input)
             m == manual_open(s, d, input)
             e == emergency_open(m, d, diff, input)
             c == door_close(e, d, diff, input)
  <1>1. {0} \in SUBSET Bit /\ {} \in SUBSET Bit /\ Bit \in SUBSET Bit
    BY DEF Bit
  <1>2. m \in State /\ m.lastInput = s.lastInput /\ m.alarm_timers = s.alarm_timers
    BY <1>1, UnlockFields DEF manual_open
  <1> HIDE DEF m, diff
  <1>3. e \in State /\ e.lastInput = s.lastInput /\ e.alarm_timers = s.alarm_timers
    BY <1>1, <1>2, AirLockFields DEF emergency_open
  <1> HIDE DEF e
  <1>4. c \in State /\ c.lastInput = s.lastInput /\ c.alarm_timers = s.alarm_timers
    BY <1>1, <1>3, AirLockFields DEF door_close
  <1>5. QED
    BY <1>2, <1>3, <1>4 DEF m, diff, e

(* The step of check_inputs for one door. *)
LEMMA CheckFields ==
  ASSUME NEW s \in State, NEW d \in Door, NEW input \in SUBSET InputBit
  PROVE  LET diff == InputDiff(s, d, input)
             e == emergency_open(manual_open(s, d, input), d, diff, input)
             c == door_close(e, d, diff, input)
             t == check_input(s, d, input)
         IN /\ t \in State
            /\ t.lastInput = [s.lastInput EXCEPT ![d] = input]
            /\ t.door_lock_timer = c.door_lock_timer
            /\ t.admDisableMask = c.admDisableMask
            /\ t.airLockMask = c.airLockMask
            /\ t.output = c.output
  <1> DEFINE diff == InputDiff(s, d, input)
             e == emergency_open(manual_open(s, d, input), d, diff, input)
             c == door_close(e, d, diff, input)
             n == alarm_timer(s.alarm_timers[d], input)
             t == [c EXCEPT !.lastInput[d] = input, !.alarm_timers[d] = n]
  <1>1. c \in State /\ c.lastInput = s.lastInput
    BY HandlerFields
  <1>2. n \in 0 .. ALARM_RESEND_TIMER
    <2>1. s.alarm_timers[d] \in 0 .. ALARM_RESEND_TIMER
      BY DEF State
    <2>2. QED
      BY <2>1, DoorAssumption DEF alarm_timer
  <1>3. check_input(s, d, input) = t
    BY DEF check_input
  <1> HIDE DEF c, n
  <1>4. /\ t \in State
        /\ t.lastInput = [c.lastInput EXCEPT ![d] = input]
        /\ t.door_lock_timer = c.door_lock_timer
        /\ t.admDisableMask = c.admDisableMask
        /\ t.airLockMask = c.airLockMask
        /\ t.output = c.output
    BY <1>1, <1>2 DEF State
  <1>5. QED
    BY <1>1, <1>3, <1>4 DEF c

-----------------------------------------------------------------------------
(* Types *)

(* The state main() builds is well typed. *)
LEMMA StartType ==
  ASSUME NEW out \in [Output -> LockState], NEW leds \in [Door -> Led]
  PROVE  StartState(out, leds) \in State
  BY DoorAssumption
  DEF StartState, State, InitialInput, AllInputs, InputBit, DI_MANUAL_OPEN,
      DI_IS_EMERGENCY_OPEN, DI_IS_DOOR_CLOSE, DI_IS_DOOR_LOCK, DI_STATE_IS_DIFF

(* The loop index the program uses is the index of an allocated door. *)
LEMMA DoorsCount ==
  /\ doorsCount \in Nat /\ doorsCount <= DoorNum
  /\ Polled \subseteq Door
  /\ 0 \in Door
  BY DoorAssumption DEF doorsCount, Polled, Door

(* An index one further, below doorsCount, is still the index of a door.   *)
LEMMA NextIndex ==
  ASSUME NEW c \in Door, c + 1 < doorsCount
  PROVE  c + 1 \in Door
  BY DoorsCount, DoorAssumption DEF Door

(* The state before the first cycle is well typed. *)
LEMMA InitType == Init => TypeOK
  <1> SUFFICES ASSUME Init PROVE TypeOK
    OBVIOUS
  <1>1. PICK out \in PowerUp : \E leds \in [Door -> {"open", "none"}] :
          st = StartState(out, leds)
    BY DEF Init
  <1>2. PICK leds \in [Door -> {"open", "none"}] : st = StartState(out, leds)
    BY <1>1
  <1>3. out \in [Output -> LockState] /\ leds \in [Door -> Led]
    BY ControllerAssumption DEF Led
  <1>4. QED
    BY <1>2, <1>3, StartType, DoorsCount DEF Init, TypeOK, Phase, LoopStart

(* Every step of the main loop keeps the types. *)
LEMMA NextType == TypeOK /\ [Next]_vars => TypeOK'
  <1> SUFFICES ASSUME TypeOK, [Next]_vars PROVE TypeOK'
    OBVIOUS
  <1> USE DEF TypeOK, Phase
  <1>1. CASE DoorTimer
    BY <1>1, TimerFields DEF DoorTimer
  <1>2. CASE Grant
    <2>1. PICK m \in Grants[cur] : st' = unlock_door(st, cur, m)
      BY <1>2 DEF Grant
    <2>2. m \in SUBSET Bit
      BY ControllerAssumption
    <2>3. QED
      BY <1>2, <2>1, <2>2, UnlockFields DEF Grant
  <1>3. CASE NextDoor
    <2>1. cur' \in Door
      BY <1>3, DoorsCount, NextIndex DEF NextDoor
    <2>2. phase' \in Phase /\ booted' \in BOOLEAN /\ st' \in State
      BY <1>3 DEF NextDoor
    <2>3. QED
      BY <2>1, <2>2
  <1>4. CASE ReadInputs
    BY <1>4 DEF ReadInputs
  <1>5. CASE CheckInput
    <2>1. PICK i \in get_input_state(cur, phase = "inputFailed", Inputs) :
            st' = check_input(st, cur, i)
      BY <1>5 DEF CheckInput
    <2>2. i \in SUBSET InputBit
      BY ControllerAssumption DEF get_input_state
    <2>3. st' \in State
      BY <2>1, <2>2, CheckFields
    <2>4. cur' \in Door
      BY <1>5, DoorsCount, NextIndex DEF CheckInput
    <2>5. phase' \in Phase /\ booted' \in BOOLEAN
      BY <1>5 DEF CheckInput
    <2>6. QED
      BY <2>3, <2>4, <2>5
  <1>6. CASE NoDatagram
    BY <1>6 DEF NoDatagram, LoopStart
  <1>7. CASE UNCHANGED vars
    BY <1>7 DEF vars
  <1>8. QED
    BY <1>1, <1>2, <1>3, <1>4, <1>5, <1>6, <1>7 DEF Next, LoopStep

(* The Door structures of the main loop stay well typed for every          *)
(* configuration: in particular the timers never go below zero and the     *)
(* index never leaves the array.                                           *)
THEOREM TypeCorrect == Spec => []TypeOK
  BY InitType, NextType, PTL DEF Spec

-----------------------------------------------------------------------------
(* What the operations do to the locks of a door. *)

(* The outputs an operation on door d reaches belong to door d. *)
LEMMA UnlockOutputs ==
  ASSUME NEW s \in State, NEW d \in Door, NEW mask \in SUBSET Bit
  PROVE  unlock_mask(s, d, mask) \cap Output \subseteq OutputsOf(d)
  BY DEF unlock_mask, ShiftLeft, OutputsOf

(* Without an administrative block lock_door(door, maskFull) reaches every *)
(* output of the door.                                                     *)
LEMMA LockOutputs ==
  ASSUME NEW s \in State, NEW d \in Door, s.admDisableMask[d] = {}
  PROVE  lock_mask(s, d, maskFull[d]) \cap Output = OutputsOf(d)
  BY DEF lock_mask, ShiftLeft, OutputsOf

(* A mask that unlocks something meets a door that is not blocked. *)
LEMMA UnlockNeedsFree ==
  ASSUME NEW s \in State, NEW d \in Door, NEW mask \in SUBSET Bit,
         unlock_mask(s, d, mask) # {}
  PROVE  ~Blocked(s, d)
  BY DEF unlock_mask, ShiftLeft, Blocked

(* An operation on the outputs of one door leaves the other locks alone. *)
LEMMA OtherLocks ==
  ASSUME DisjointOutputs, NEW d \in Door, NEW e \in Door, e # d,
         NEW s \in State, NEW t \in State, NEW op \in LockState, NEW m,
         m \cap Output \subseteq OutputsOf(d),
         t.output = set_door_state(s.output, op, m)
  PROVE  Unlocked(t, e) <=> Unlocked(s, e)
  <1>1. \A o \in OutputsOf(e) : o \in Output /\ o \notin m
    BY DEF OutputsOf, DisjointOutputs
  <1>2. \A o \in OutputsOf(e) : t.output[o] = s.output[o]
    BY <1>1 DEF set_door_state
  <1>3. QED
    BY <1>2 DEF Unlocked

(* The timer locks the door when it runs out and otherwise moves no lock. *)
LEMMA TimerLocks ==
  ASSUME DisjointOutputs, NEW s \in State, NEW d \in Door,
         s.admDisableMask[d] = {}
  PROVE  LET t == door_timer(s, d)
         IN /\ t.lastInput = s.lastInput
            /\ s.door_lock_timer[d] # 1 => t.output = s.output
            /\ s.door_lock_timer[d] = 1 => ~Unlocked(t, d)
            /\ \A e \in Door : e # d => (Unlocked(t, e) <=> Unlocked(s, e))
  <1> DEFINE t == door_timer(s, d)
             c == [s EXCEPT !.door_lock_timer[d] = s.door_lock_timer[d] - 1]
             m == lock_mask(c, d, maskFull[d])
  <1>1. CASE s.door_lock_timer[d] = 0
    <2>1. t = s
      BY <1>1, TimerFields
    <2>2. QED
      BY <1>1, <2>1
  <1>2. CASE s.door_lock_timer[d] # 0
    <2>1. /\ c \in State /\ t \in State
          /\ c.lastInput = s.lastInput
          /\ c.admDisableMask = s.admDisableMask
          /\ c.output = s.output
          /\ t = IF s.door_lock_timer[d] = 1
                 THEN lock_door(c, d, maskFull[d]) ELSE c
      BY <1>2, TimerFields
    <2> HIDE DEF c
    <2>2. CASE s.door_lock_timer[d] # 1
      BY <2>1, <2>2 DEF Unlocked
    <2>3. CASE s.door_lock_timer[d] = 1
      <3>1. maskFull[d] \in SUBSET Bit /\ t = lock_door(c, d, maskFull[d])
        BY <2>1, <2>3, DoorAssumption
      <3>2. /\ t.lastInput = s.lastInput
            /\ m = {} => t.output = s.output
            /\ m # {} => t.output = set_door_state(s.output, "lock", m)
        BY <2>1, <3>1, LockFields
      <3>3. m \cap Output = OutputsOf(d)
        BY <2>1, LockOutputs
      <3> HIDE DEF t, m
      <3>4. t.output = set_door_state(s.output, "lock", m)
        <4>1. CASE m = {}
          <5>1. s.output \in [Output -> LockState]
            BY DEF State
          <5>2. set_door_state(s.output, "lock", m) = s.output
            BY <4>1, <5>1 DEF set_door_state
          <5>3. QED
            BY <3>2, <4>1, <5>2
        <4>2. QED
          BY <3>2, <4>1
      <3>5. ~Unlocked(t, d)
        <4>1. \A o \in OutputsOf(d) : t.output[o] = "lock"
          BY <3>3, <3>4 DEF set_door_state
        <4>2. "lock" # "unlock"
          OBVIOUS
        <4>3. QED
          BY <4>1, <4>2 DEF Unlocked
      <3>6. \A e \in Door : e # d => (Unlocked(t, e) <=> Unlocked(s, e))
        <4>1. t \in State /\ "lock" \in LockState
          BY <2>1 DEF t, LockState
        <4>2. QED
          BY <3>3, <3>4, <4>1, OtherLocks
      <3>7. QED
        BY <2>3, <3>2, <3>5, <3>6 DEF t
    <2>4. QED
      BY <2>2, <2>3
  <1>3. QED
    BY <1>1, <1>2

(* unlock_door moves the lock of its own door only, never locks it, and    *)
(* does nothing to a door that is blocked.                                 *)
LEMMA UnlockLocks ==
  ASSUME DisjointOutputs, NEW s \in State, NEW d \in Door,
         NEW mask \in SUBSET Bit
  PROVE  LET t == unlock_door(s, d, mask)
         IN /\ t.lastInput = s.lastInput
            /\ Blocked(s, d) => t.output = s.output
            /\ Unlocked(s, d) => Unlocked(t, d)
            /\ \A e \in Door : e # d => (Unlocked(t, e) <=> Unlocked(s, e))
  <1> DEFINE t == unlock_door(s, d, mask)
             m == unlock_mask(s, d, mask)
  <1>1. CASE m = {}
    <2>1. t = s
      BY <1>1, UnlockFields
    <2>2. QED
      BY <2>1
  <1>2. CASE m # {}
    <2>1. /\ t \in State
          /\ t.lastInput = s.lastInput
          /\ t.output = set_door_state(s.output, "unlock", m)
      BY <1>2, UnlockFields
    <2>2. ~Blocked(s, d)
      BY <1>2, UnlockNeedsFree
    <2>3. m \cap Output \subseteq OutputsOf(d)
      BY UnlockOutputs
    <2> HIDE DEF t, m
    <2>4. Unlocked(s, d) => Unlocked(t, d)
      BY <2>1 DEF Unlocked, OutputsOf, set_door_state
    <2>5. \A e \in Door : e # d => (Unlocked(t, e) <=> Unlocked(s, e))
      <3>1. "unlock" \in LockState
        BY DEF LockState
      <3>2. QED
        BY <2>1, <2>3, <3>1, OtherLocks
    <2>6. QED
      BY <2>1, <2>2, <2>4, <2>5 DEF t
  <1>3. QED
    BY <1>1, <1>2

(* The one way to release a lock is unlock_door on the door it belongs to. *)
LEMMA ReleaseByUnlock ==
  ASSUME DisjointOutputs, NEW s \in State, NEW d \in Door, NEW e \in Door,
         NEW mask \in SUBSET Bit, NEW o \in OutputsOf(e),
         s.output[o] = "lock", unlock_door(s, d, mask).output[o] = "unlock"
  PROVE  e = d /\ ~Blocked(s, d)
  <1> DEFINE m == unlock_mask(s, d, mask)
  <1>1. o \in Output
    BY DEF OutputsOf
  <1>2. m # {}
    BY UnlockFields
  <1>3. unlock_door(s, d, mask).output = set_door_state(s.output, "unlock", m)
    BY <1>2, UnlockFields
  <1>4. o \in m
    BY <1>1, <1>3 DEF set_door_state
  <1>5. o \in OutputsOf(d)
    BY <1>1, <1>4, UnlockOutputs
  <1>6. e = d
    BY <1>5 DEF DisjointOutputs
  <1>7. QED
    BY <1>2, <1>6, UnlockNeedsFree

(* The close-door timer releases nothing. *)
LEMMA TimerReleasesNothing ==
  ASSUME NEW s \in State, NEW d \in Door, NEW o \in Output,
         door_timer(s, d).output[o] = "unlock"
  PROVE  s.output[o] = "unlock"
  <1> DEFINE c == [s EXCEPT !.door_lock_timer[d] = s.door_lock_timer[d] - 1]
             m == lock_mask(c, d, maskFull[d])
  <1>1. CASE s.door_lock_timer[d] = 0
    BY <1>1, TimerFields
  <1>2. CASE s.door_lock_timer[d] # 0
    <2>1. c \in State /\ c.output = s.output
      BY <1>2, TimerFields
    <2>2. maskFull[d] \in SUBSET Bit
      BY DoorAssumption
    <2>3. \/ door_timer(s, d) = c
          \/ door_timer(s, d) = lock_door(c, d, maskFull[d])
      BY <1>2, TimerFields DEF door_timer
    <2>4. CASE door_timer(s, d) = c
      BY <2>1, <2>4
    <2>5. CASE door_timer(s, d) = lock_door(c, d, maskFull[d])
      <3>1. \/ lock_door(c, d, maskFull[d]) = c
            \/ lock_door(c, d, maskFull[d]).output = set_door_state(c.output, "lock", m)
        BY <2>1, <2>2, LockFields
      <3>2. QED
        BY <2>1, <2>5, <3>1 DEF set_door_state
    <2>6. QED
      BY <2>3, <2>4, <2>5
  <1>3. QED
    BY <1>1, <1>2

(* check_inputs releases a lock through the button only. *)
LEMMA CheckReleases ==
  ASSUME NEW s \in State, NEW d \in Door, NEW input \in SUBSET InputBit
  PROVE  \/ check_input(s, d, input).output = s.output
         \/ check_input(s, d, input).output = unlock_door(s, d, {0}).output
  <1> DEFINE diff == InputDiff(s, d, input)
             m == manual_open(s, d, input)
             e == emergency_open(m, d, diff, input)
             c == door_close(e, d, diff, input)
  <1>1. m \in State /\ e \in State
    BY HandlerFields
  <1>2. m = s \/ m = unlock_door(s, d, {0})
    BY DEF manual_open
  <1>3. Bit \in SUBSET Bit /\ {} \in SUBSET Bit
    OBVIOUS
  <1>4. e.output = m.output
    BY <1>1, <1>3, AirLockFields DEF emergency_open
  <1>5. c.output = e.output
    BY <1>1, <1>3, AirLockFields DEF door_close
  <1>6. check_input(s, d, input).output = c.output
    BY CheckFields
  <1>7. QED
    BY <1>2, <1>4, <1>5, <1>6

(* What the operations leave alone: the administrative blocks, and the     *)
(* timers of the other doors.                                              *)
Aside(s, t, d) ==
  /\ t.admDisableMask = s.admDisableMask
  /\ \A e \in Door : e # d => t.door_lock_timer[e] = s.door_lock_timer[e]

LEMMA UnlockAside ==
  ASSUME NEW s \in State, NEW d \in Door, NEW mask \in SUBSET Bit
  PROVE  Aside(s, unlock_door(s, d, mask), d)
  <1> DEFINE t == unlock_door(s, d, mask)
  <1>1. /\ t.admDisableMask = s.admDisableMask
        /\ \/ t = s
           \/ t.door_lock_timer = [s.door_lock_timer EXCEPT ![d] = DOOR_OPEN_TIME]
    BY UnlockFields
  <1>2. s.door_lock_timer \in [Door -> 0 .. DOOR_OPEN_TIME]
    BY DEF State
  <1> HIDE DEF t
  <1>3. QED
    BY <1>1, <1>2 DEF Aside, t

LEMMA TimerAside ==
  ASSUME NEW s \in State, NEW d \in Door
  PROVE  Aside(s, door_timer(s, d), d)
  <1> DEFINE t == door_timer(s, d)
             c == [s EXCEPT !.door_lock_timer[d] = s.door_lock_timer[d] - 1]
  <1>1. CASE s.door_lock_timer[d] = 0
    BY <1>1, TimerFields DEF Aside
  <1>2. CASE s.door_lock_timer[d] # 0
    <2>1. /\ c \in State /\ c.admDisableMask = s.admDisableMask
          /\ c.door_lock_timer =
               [s.door_lock_timer EXCEPT ![d] = s.door_lock_timer[d] - 1]
          /\ t = IF s.door_lock_timer[d] = 1 THEN lock_door(c, d, maskFull[d]) ELSE c
      BY <1>2, TimerFields
    <2>2. maskFull[d] \in SUBSET Bit
      BY DoorAssumption
    <2> HIDE DEF c, t
    <2>3. t.admDisableMask = c.admDisableMask /\ t.door_lock_timer = c.door_lock_timer
      BY <2>1, <2>2, LockFields
    <2>4. s.door_lock_timer \in [Door -> 0 .. DOOR_OPEN_TIME]
      BY DEF State
    <2>5. QED
      BY <2>1, <2>3, <2>4 DEF Aside, t
  <1>3. QED
    BY <1>1, <1>2

LEMMA CheckAside ==
  ASSUME NEW s \in State, NEW d \in Door, NEW input \in SUBSET InputBit
  PROVE  Aside(s, check_input(s, d, input), d)
  <1> DEFINE diff == InputDiff(s, d, input)
             m == manual_open(s, d, input)
             e == emergency_open(m, d, diff, input)
             c == door_close(e, d, diff, input)
             t == check_input(s, d, input)
  <1>1. m \in State /\ e \in State
    BY HandlerFields
  <1>2. {0} \in SUBSET Bit /\ {} \in SUBSET Bit /\ Bit \in SUBSET Bit
    BY DEF Bit
  <1>3. m = s \/ m = unlock_door(s, d, {0})
    BY DEF manual_open
  <1>4. Aside(s, m, d)
    BY <1>2, <1>3, UnlockAside DEF Aside
  <1> HIDE DEF m
  <1>5. e.admDisableMask = m.admDisableMask /\ e.door_lock_timer = m.door_lock_timer
    BY <1>1, <1>2, AirLockFields DEF emergency_open
  <1> HIDE DEF e
  <1>6. c.admDisableMask = e.admDisableMask /\ c.door_lock_timer = e.door_lock_timer
    BY <1>1, <1>2, AirLockFields DEF door_close
  <1>7. t.admDisableMask = c.admDisableMask /\ t.door_lock_timer = c.door_lock_timer
    BY CheckFields DEF e, m
  <1> HIDE DEF t, c
  <1>8. QED
    BY <1>4, <1>5, <1>6, <1>7 DEF Aside, t

-----------------------------------------------------------------------------
(* The place in the loop *)

(* Inputs are handled, and commands taken, only after every door was       *)
(* visited.                                                                *)
Place ==
  /\ phase \in {"timer", "readers", "input", "inputFailed"} => cur \in Polled
  /\ phase \in {"gpio", "network"} => cur = 0
  /\ phase \in {"gpio", "input", "inputFailed", "network"} => booted \/ doorsCount = 0

(* With doors to poll, every allocated door is polled. *)
LEMMA AllPolled == doorsCount # 0 => Polled = Door
  BY DoorAssumption DEF doorsCount, Polled, Door

(* The loop starts at its first step with no door visited. *)
LEMMA PlaceInit ==
  ASSUME phase = LoopStart, cur = 0, booted = FALSE
  PROVE  Place /\ Visited = {}
  <1>1. phase = "gpio" => doorsCount = 0
    BY DEF LoopStart
  <1>2. phase \in {"timer", "gpio"}
    BY DEF LoopStart
  <1>3. phase = "timer" => cur \in Polled
    BY DoorsCount DEF LoopStart, Polled
  <1>4. QED
    BY <1>1, <1>2, <1>3, DoorsCount DEF Place, Visited, Polled

(* A step of the loop visits a door by its timer; the other steps that     *)
(* change a door change one that is visited.                               *)
LEMMA PlaceNext ==
  ASSUME cur \in Door, Place, Next
  PROVE  /\ Place'
         /\ \/ /\ DoorTimer
               /\ cur \in Polled /\ Visited' = Visited \cup {cur}
            \/ /\ Grant \/ CheckInput
               /\ cur \in Visited /\ Visited' = Visited
            \/ /\ NextDoor \/ ReadInputs \/ NoDatagram
               /\ st' = st /\ Visited' = Visited
  <1>1. CASE DoorTimer
    <2>1. /\ cur \in Polled /\ phase = "timer" /\ phase' = "readers"
          /\ cur' = cur /\ booted' = booted
      BY <1>1 DEF DoorTimer, Place
    <2>2. Visited' = Visited \cup {cur}
      BY <2>1 DEF Visited
    <2>3. QED
      BY <1>1, <2>1, <2>2 DEF Place
  <1>2. CASE Grant
    <2>1. /\ phase = "readers" /\ phase' = phase /\ cur' = cur /\ booted' = booted
          /\ cur \in Polled
      BY <1>2 DEF Grant, Place
    <2>2. Visited' = Visited /\ cur \in Visited
      BY <2>1 DEF Visited
    <2>3. QED
      BY <1>2, <2>1, <2>2 DEF Place
  <1>3. CASE NextDoor
    <2>1. st' = st /\ phase = "readers" /\ cur \in Polled
      BY <1>3 DEF NextDoor, Place
    <2>2. doorsCount \in Nat /\ cur \in 0 .. doorsCount - 1 /\ cur \in Int
      BY <2>1, DoorsCount DEF Polled
    <2>3. CASE cur + 1 < doorsCount
      <3>1. cur' = cur + 1 /\ phase' = "timer" /\ booted' = booted
        BY <1>3, <2>3 DEF NextDoor
      <3>2. {d \in Polled : d < cur \/ d = cur} = {d \in Polled : d < cur + 1}
        BY <2>2 DEF Polled
      <3>3. Visited' = Visited
        BY <2>1, <3>1, <3>2 DEF Visited
      <3>4. cur' \in Polled
        BY <2>2, <2>3, <3>1 DEF Polled
      <3>5. QED
        BY <1>3, <2>1, <3>1, <3>3, <3>4 DEF Place
    <2>4. CASE ~(cur + 1 < doorsCount)
      <3>1. cur' = 0 /\ phase' = "gpio" /\ booted' = TRUE
        BY <1>3, <2>4 DEF NextDoor
      <3>2. {d \in Polled : d < cur \/ d = cur} = Polled
        BY <2>2, <2>4 DEF Polled
      <3>3. Visited' = Visited
        BY <2>1, <3>1, <3>2 DEF Visited
      <3>4. QED
        BY <1>3, <2>1, <3>1, <3>3 DEF Place
    <2>5. QED
      BY <2>3, <2>4
  <1>4. CASE ReadInputs
    <2>1. st' = st /\ cur' = cur /\ booted' = booted /\ cur = 0 /\ phase = "gpio"
      BY <1>4 DEF ReadInputs, Place
    <2>2. phase' \in {"input", "inputFailed", "network"}
      BY <1>4 DEF ReadInputs
    <2>3. Visited' = Visited
      BY <2>1, <2>2 DEF Visited
    <2>4. phase' # "network" => cur \in Polled
      BY <1>4, <2>1, DoorsCount DEF ReadInputs, Polled
    <2>5. QED
      BY <1>4, <2>1, <2>2, <2>3, <2>4 DEF Place
  <1>5. CASE CheckInput
    <2>1. /\ phase \in {"input", "inputFailed"} /\ cur \in Polled
          /\ booted \/ doorsCount = 0
      BY <1>5 DEF CheckInput, Place
    <2>2. doorsCount # 0 /\ booted
      BY <2>1, DoorsCount DEF Polled
    <2>3. Visited = Polled /\ Visited' = Polled /\ booted' = booted
      BY <1>5, <2>2 DEF CheckInput, Visited
    <2>4. \/ phase' = phase /\ cur' = cur + 1 /\ cur + 1 < doorsCount
          \/ phase' = "network" /\ cur' = 0
      BY <1>5 DEF CheckInput
    <2>5. phase' # "network" => cur' \in Polled
      BY <2>1, <2>4, DoorsCount DEF Polled
    <2>6. QED
      BY <1>5, <2>1, <2>2, <2>3, <2>4, <2>5 DEF Place
  <1>6. CASE NoDatagram
    <2>1. st' = st /\ cur' = cur /\ booted' = booted /\ cur = 0 /\ phase = "network"
      BY <1>6 DEF NoDatagram, Place
    <2>2. phase' = IF doorsCount = 0 THEN "gpio" ELSE "timer"
      BY <1>6 DEF NoDatagram, LoopStart
    <2>3. Visited' = Visited
      BY <2>1, <2>2 DEF Visited
    <2>4. phase' = "timer" => cur \in Polled
      BY <2>1, <2>2, DoorsCount DEF Polled
    <2>5. QED
      BY <1>6, <2>1, <2>2, <2>3, <2>4 DEF Place
  <1>7. QED
    BY <1>1, <1>2, <1>3, <1>4, <1>5, <1>6 DEF Next, LoopStep

-----------------------------------------------------------------------------
(* The timer, the LED and the lock of a door agree. *)

(* What TimerMeansUnlocked and LedOpenMeansUnlocked say of one door. *)
Agree(s, d) ==
  /\ s.door_lock_timer[d] > 0 <=> Unlocked(s, d)
  /\ s.led[d] = "open" => Unlocked(s, d)

(* airLockOnPartner signals its own door, and never SIGNAL_DOOR_OPEN. *)
LEMMA AirLockLed ==
  ASSUME NEW s \in State, NEW d \in Door, NEW mask \in SUBSET Bit
  PROVE  LET t == airLockOnPartner(s, d, mask)
         IN /\ t.led[d] = "open" => s.led[d] = "open"
            /\ \A e \in Door : e # d => t.led[e] = s.led[e]
  <1> DEFINE p == airLockPartnerLocal[d]
             u == [s EXCEPT !.airLockMask[p] = PartnerMask(s, d, mask)]
  <1>1. CASE p = NoDoor
    BY <1>1 DEF airLockOnPartner
  <1>2. CASE p # NoDoor
    <2>1. airLockOnPartner(s, d, mask) = signalDoorStatus(u, d)
      BY <1>2 DEF airLockOnPartner, PartnerMask
    <2>2. u.led = s.led /\ u.led \in [Door -> Led]
      BY DEF State
    <2> HIDE DEF u
    <2>3. signalDoorStatus(u, d).led \in
            {[u.led EXCEPT ![d] = "blocked"], [u.led EXCEPT ![d] = "unblocked"]}
      <3>1. "led" \in DOMAIN u
        BY DEF u, State
      <3>2. QED
        BY <3>1 DEF signalDoorStatus
    <2>4. QED
      BY <2>1, <2>2, <2>3
  <1>3. QED
    BY <1>1, <1>2

(* A blockade of the partner leaves every lock, timer and green LED.       *)
LEMMA AirLockAgrees ==
  ASSUME NEW s \in State, NEW d \in Door, NEW mask \in SUBSET Bit, NEW e \in Door,
         Agree(s, e)
  PROVE  Agree(airLockOnPartner(s, d, mask), e)
  <1> DEFINE t == airLockOnPartner(s, d, mask)
  <1>1. t.door_lock_timer = s.door_lock_timer /\ t.output = s.output
    BY AirLockFields
  <1>2. t.led[e] = "open" => s.led[e] = "open"
    BY AirLockLed
  <1> HIDE DEF t
  <1>3. QED
    BY <1>1, <1>2 DEF Agree, Unlocked, t

(* The LED after unlock_door has released something, and after lock_door   *)
(* has locked something.                                                   *)
LEMMA UnlockLed ==
  ASSUME NEW s \in State, NEW d \in Door, NEW mask \in SUBSET Bit, NEW e \in Door,
         e # d
  PROVE  unlock_door(s, d, mask).led[e] = s.led[e]
  <1> DEFINE a == airLockOnPartner(s, d, Bit)
  <1>1. a \in State /\ a.led[e] = s.led[e]
    <2>1. Bit \in SUBSET Bit
      OBVIOUS
    <2>2. QED
      BY <2>1, AirLockFields, AirLockLed
  <1> HIDE DEF a
  <1>2. unlock_door(s, d, mask).led \in {s.led, [a.led EXCEPT ![d] = "open"]}
    BY <1>1 DEF unlock_door, State, a
  <1>3. a.led \in [Door -> Led]
    BY <1>1 DEF State
  <1>4. QED
    BY <1>1, <1>2, <1>3

LEMMA LockLed ==
  ASSUME NEW s \in State, NEW d \in Door, NEW mask \in SUBSET Bit,
         lock_mask(s, d, mask) # {}
  PROVE  LET t == lock_door(s, d, mask)
         IN /\ t.led[d] = "lock"
            /\ \A e \in Door : e # d => t.led[e] = s.led[e]
  <1> DEFINE m == lock_mask(s, d, mask)
             o == [s EXCEPT !.output = set_door_state(s.output, "lock", m)]
             a == airLockOnPartner(o, d, {})
  <1>1. o \in State /\ o.led = s.led
    <2>1. set_door_state(s.output, "lock", m) \in [Output -> LockState]
      BY OutputType DEF State, LockState
    <2>2. QED
      BY <2>1 DEF State
  <1>2. lock_door(s, d, mask) = [a EXCEPT !.led[d] = "lock"]
    BY DEF lock_door
  <1> HIDE DEF o
  <1>3. a \in State /\ \A e \in Door : e # d => a.led[e] = o.led[e]
    <2>1. {} \in SUBSET Bit
      OBVIOUS
    <2>2. QED
      BY <1>1, <2>1, AirLockFields, AirLockLed
  <1> HIDE DEF a
  <1>4. lock_door(s, d, mask).led = [a.led EXCEPT ![d] = "lock"]
    BY <1>2, <1>3 DEF State
  <1>5. a.led \in [Door -> Led]
    BY <1>3 DEF State
  <1>6. QED
    BY <1>1, <1>3, <1>4, <1>5

(* unlock_door releases something exactly if it starts the timer. *)
LEMMA UnlockAgrees ==
  ASSUME DisjointOutputs, RelaysExist,
         NEW s \in State, NEW d \in Door, NEW mask \in SUBSET Bit, NEW e \in Door,
         Agree(s, e)
  PROVE  Agree(unlock_door(s, d, mask), e)
  <1> DEFINE t == unlock_door(s, d, mask)
             m == unlock_mask(s, d, mask)
  <1>1. CASE m = {}
    BY <1>1, UnlockFields
  <1>2. CASE m # {} /\ e # d
    <2>1. t.door_lock_timer = [s.door_lock_timer EXCEPT ![d] = DOOR_OPEN_TIME]
      BY <1>2, UnlockFields
    <2>2. s.door_lock_timer \in [Door -> 0 .. DOOR_OPEN_TIME]
      BY DEF State
    <2>3. t.door_lock_timer[e] = s.door_lock_timer[e]
      BY <1>2, <2>1, <2>2
    <2>4. Unlocked(t, e) <=> Unlocked(s, e)
      BY <1>2, UnlockLocks
    <2>5. t.led[e] = s.led[e]
      BY <1>2, UnlockLed
    <2> HIDE DEF t
    <2>6. QED
      BY <2>3, <2>4, <2>5 DEF Agree, t
  <1>3. CASE m # {} /\ e = d
    <2>1. /\ t.door_lock_timer = [s.door_lock_timer EXCEPT ![d] = DOOR_OPEN_TIME]
          /\ t.output = set_door_state(s.output, "unlock", m)
      BY <1>3, UnlockFields
    <2>2. s.door_lock_timer \in [Door -> 0 .. DOOR_OPEN_TIME]
      BY DEF State
    <2>3. t.door_lock_timer[d] > 0
      BY <2>1, <2>2, DoorAssumption
    <2>4. m \subseteq ShiftLeft(maskFull[d], maskOffset[d])
      BY DEF unlock_mask, ShiftLeft
    <2>5. PICK o \in m : o \in Output /\ o \in OutputsOf(d)
      BY <1>3, <2>4 DEF RelaysExist, OutputsOf
    <2> HIDE DEF t, m
    <2>6. Unlocked(t, d)
      BY <2>1, <2>5 DEF Unlocked, set_door_state
    <2>7. QED
      BY <1>3, <2>3, <2>6 DEF Agree, t
  <1>4. QED
    BY <1>1, <1>2, <1>3

(* A tick of the timer; the first one, which locks, makes a door agree     *)
(* whatever its relays and its LED showed before.                          *)
LEMMA TimerAgrees ==
  ASSUME DisjointOutputs, RelaysExist,
         NEW s \in State, NEW d \in Door, s.admDisableMask[d] = {}, NEW e \in Door,
         Agree(s, e) \/ (e = d /\ s.door_lock_timer[d] = 1)
  PROVE  Agree(door_timer(s, d), e)
  <1> DEFINE t == door_timer(s, d)
             c == [s EXCEPT !.door_lock_timer[d] = s.door_lock_timer[d] - 1]
             m == lock_mask(c, d, maskFull[d])
  <1>1. s.door_lock_timer \in [Door -> 0 .. DOOR_OPEN_TIME]
    BY DEF State
  <1>2. CASE s.door_lock_timer[d] = 0
    <2>1. door_timer(s, d) = s
      BY <1>2, TimerFields
    <2>2. Agree(s, e)
      BY <1>2
    <2>3. QED
      BY <2>1, <2>2
  <1>3. CASE s.door_lock_timer[d] # 0
    <2>1. /\ c \in State /\ c.output = s.output
          /\ c.admDisableMask = s.admDisableMask
          /\ c.door_lock_timer =
               [s.door_lock_timer EXCEPT ![d] = s.door_lock_timer[d] - 1]
          /\ t = IF s.door_lock_timer[d] = 1 THEN lock_door(c, d, maskFull[d]) ELSE c
      BY <1>3, TimerFields
    <2>2. c.led = s.led
      BY DEF State
    <2>3. maskFull[d] \in SUBSET Bit
      BY DoorAssumption
    <2>4. m # {}
      BY <2>1, LockOutputs DEF RelaysExist
    <2> HIDE DEF c, t
    <2>5. t.door_lock_timer = [s.door_lock_timer EXCEPT ![d] = s.door_lock_timer[d] - 1]
      BY <2>1, <2>3, LockFields
    <2>6. t.output = s.output \/ s.door_lock_timer[d] = 1
      BY <2>1
    <2>7. CASE e # d
      <3>1. t.door_lock_timer[e] = s.door_lock_timer[e]
        BY <1>1, <2>5, <2>7
      <3>2. Unlocked(t, e) <=> Unlocked(s, e)
        BY <2>7, TimerLocks DEF t
      <3>3. t.led[e] = s.led[e]
        BY <2>1, <2>2, <2>3, <2>4, <2>7, LockLed
      <3>4. QED
        BY <2>7, <3>1, <3>2, <3>3 DEF Agree, t
    <2>8. CASE e = d /\ s.door_lock_timer[d] = 1
      <3>1. t.door_lock_timer[d] = 0
        BY <1>1, <2>5, <2>8
      <3>2. ~Unlocked(t, d)
        BY <2>8, TimerLocks DEF t
      <3>3. t.led[d] = "lock"
        BY <2>1, <2>3, <2>4, <2>8, LockLed
      <3>4. QED
        BY <2>8, <3>1, <3>2, <3>3 DEF Agree, t
    <2>9. CASE e = d /\ s.door_lock_timer[d] # 1
      <3>1. t.door_lock_timer[d] > 0 /\ s.door_lock_timer[d] > 0
        <4>1. s.door_lock_timer[d] \in 0 .. DOOR_OPEN_TIME
          BY <1>1
        <4>2. t.door_lock_timer[d] = s.door_lock_timer[d] - 1
          BY <1>1, <2>5
        <4>3. QED
          BY <1>3, <2>9, <4>1, <4>2, DoorAssumption
      <3>2. t.output = s.output /\ t.led = s.led
        BY <2>1, <2>2, <2>9
      <3>3. QED
        BY <2>9, <3>1, <3>2 DEF Agree, Unlocked, t
    <2>10. QED
      BY <2>7, <2>8, <2>9
  <1>4. QED
    BY <1>2, <1>3

(* The handlers of check_inputs. *)
LEMMA CheckAgrees ==
  ASSUME DisjointOutputs, RelaysExist,
         NEW s \in State, NEW d \in Door, NEW input \in SUBSET InputBit, NEW e \in Door,
         Agree(s, e)
  PROVE  Agree(check_input(s, d, input), e)
  <1> DEFINE diff == InputDiff(s, d, input)
             m == manual_open(s, d, input)
             o == emergency_open(m, d, diff, input)
             c == door_close(o, d, diff, input)
             t == check_input(s, d, input)
  <1>1. m \in State /\ o \in State /\ c \in State
    BY HandlerFields
  <1>2. {0} \in SUBSET Bit /\ {} \in SUBSET Bit /\ Bit \in SUBSET Bit
    BY DEF Bit
  <1>3. Agree(m, e)
    BY <1>2, UnlockAgrees DEF manual_open
  <1> HIDE DEF m, diff
  <1>4. Agree(o, e)
    BY <1>1, <1>2, <1>3, AirLockAgrees DEF emergency_open
  <1> HIDE DEF o
  <1>5. Agree(c, e)
    BY <1>1, <1>2, <1>4, AirLockAgrees DEF door_close
  <1>6. t.door_lock_timer = c.door_lock_timer /\ t.output = c.output
    BY CheckFields DEF m, o, diff
  <1>7. t.led = c.led
    <2> HIDE DEF c
    <2>1. t = [c EXCEPT !.lastInput[d] = input,
                        !.alarm_timers[d] = alarm_timer(s.alarm_timers[d], input)]
      BY DEF check_input, c, o, m, diff
    <2>2. QED
      BY <1>1, <2>1 DEF State
  <1> HIDE DEF t, c
  <1>8. QED
    BY <1>5, <1>6, <1>7 DEF Agree, Unlocked, t

(* The inductive invariant: the visited doors agree, the others wait for   *)
(* the timer of main() that will lock them, and nothing is blocked by an   *)
(* administrator.                                                          *)
TimerInv ==
  /\ Place
  /\ \A d \in Door : st.admDisableMask[d] = {}
  /\ \A d \in Visited : Agree(st, d)
  /\ \A d \in Door \ Visited : st.door_lock_timer[d] = 1

LEMMA TimerInit == Init => TimerInv
  <1> SUFFICES ASSUME Init PROVE TimerInv
    OBVIOUS
  <1>1. PICK out \in PowerUp : \E leds \in [Door -> {"open", "none"}] :
          st = StartState(out, leds)
    BY DEF Init
  <1>2. PICK leds \in [Door -> {"open", "none"}] : st = StartState(out, leds)
    BY <1>1
  <1>3. \A d \in Door : st.admDisableMask[d] = {} /\ st.door_lock_timer[d] = 1
    BY <1>2 DEF StartState
  <1>4. Place /\ Visited = {}
    BY PlaceInit DEF Init
  <1>5. QED
    BY <1>3, <1>4 DEF TimerInv

(* Every step of the main loop keeps timer, LED and lock in agreement. *)
LEMMA TimerNext ==
  ASSUME DisjointOutputs, RelaysExist, TypeOK, TimerInv, [Next]_vars
  PROVE  TimerInv'
  <1>1. Visited \in SUBSET Door /\ Polled \in SUBSET Door
    BY DoorsCount DEF Visited
  <1>2. st \in State /\ cur \in Door
    BY DEF TypeOK
  <1>3. CASE Next
    <2>1. Place'
      BY <1>2, <1>3, PlaceNext DEF TimerInv
    <2>2. CASE DoorTimer /\ cur \in Polled /\ Visited' = Visited \cup {cur}
      <3>1. st' = door_timer(st, cur)
        BY <2>2 DEF DoorTimer
      <3>2. \A d \in Visited' : Agree(st', d)
        BY <1>1, <1>2, <2>2, <3>1, TimerAgrees DEF TimerInv
      <3>3. st'.admDisableMask = st.admDisableMask
        BY <1>2, <3>1, TimerAside DEF Aside
      <3>4. \A d \in Door : d # cur => st'.door_lock_timer[d] = st.door_lock_timer[d]
        BY <1>2, <3>1, TimerAside DEF Aside
      <3>5. QED
        BY <2>1, <2>2, <3>2, <3>3, <3>4 DEF TimerInv
    <2>3. CASE Grant /\ cur \in Visited /\ Visited' = Visited
      <3>1. PICK m \in Grants[cur] : st' = unlock_door(st, cur, m)
        BY <2>3 DEF Grant
      <3>2. m \in SUBSET Bit
        BY <1>2, ControllerAssumption
      <3>3. \A d \in Visited : Agree(st', d)
        BY <1>1, <1>2, <3>1, <3>2, UnlockAgrees DEF TimerInv
      <3>4. /\ st'.admDisableMask = st.admDisableMask
            /\ \A d \in Door : d # cur => st'.door_lock_timer[d] = st.door_lock_timer[d]
        BY <1>2, <3>1, <3>2, UnlockAside DEF Aside
      <3>5. QED
        BY <2>1, <2>3, <3>3, <3>4 DEF TimerInv
    <2>4. CASE CheckInput /\ cur \in Visited /\ Visited' = Visited
      <3>1. PICK i \in get_input_state(cur, phase = "inputFailed", Inputs) :
              st' = check_input(st, cur, i)
        BY <2>4 DEF CheckInput
      <3>2. i \in SUBSET InputBit
        BY ControllerAssumption DEF get_input_state
      <3>3. \A d \in Visited : Agree(st', d)
        BY <1>1, <1>2, <3>1, <3>2, CheckAgrees DEF TimerInv
      <3>4. /\ st'.admDisableMask = st.admDisableMask
            /\ \A d \in Door : d # cur => st'.door_lock_timer[d] = st.door_lock_timer[d]
        BY <1>2, <3>1, <3>2, CheckAside DEF Aside
      <3>5. QED
        BY <2>1, <2>4, <3>3, <3>4 DEF TimerInv
    <2>5. CASE st' = st /\ Visited' = Visited
      BY <2>1, <2>5 DEF TimerInv
    <2>6. QED
      BY <1>2, <1>3, <2>2, <2>3, <2>4, <2>5, PlaceNext DEF TimerInv
  <1>4. CASE UNCHANGED vars
    BY <1>4 DEF vars, TimerInv, Place, Visited
  <1>5. QED
    BY <1>3, <1>4

(* The close-door timer of a visited door runs exactly while one of its    *)
(* locks is released: none stays released once it has run out, and none is *)
(* locked by the loop before.                                              *)
THEOREM TimerTellsLock ==
  ASSUME DisjointOutputs, RelaysExist
  PROVE  Spec => []TimerMeansUnlocked
  <1>1. TypeOK /\ TimerInv /\ [Next]_vars => TimerInv'
    BY TimerNext
  <1>2. TimerInv => TimerMeansUnlocked
    BY DEF TimerInv, TimerMeansUnlocked, Agree
  <1>3. QED
    BY <1>1, <1>2, TimerInit, TypeCorrect, PTL DEF Spec

(* A reader shows the permanent green of an open door only while a lock of *)
(* its door is released.                                                   *)
THEOREM LedTellsLock ==
  ASSUME DisjointOutputs, RelaysExist
  PROVE  Spec => []LedOpenMeansUnlocked
  <1>1. TypeOK /\ TimerInv /\ [Next]_vars => TimerInv'
    BY TimerNext
  <1>2. TimerInv => LedOpenMeansUnlocked
    BY DEF TimerInv, LedOpenMeansUnlocked, Agree
  <1>3. QED
    BY <1>1, <1>2, TimerInit, TypeCorrect, PTL DEF Spec

-----------------------------------------------------------------------------
(* The button *)

(* check_inputs releases a lock only on the edge of the button. *)
LEMMA CheckReleasesOnEdge ==
  ASSUME NEW s \in State, NEW d \in Door, NEW input \in SUBSET InputBit,
         check_input(s, d, input).output # s.output
  PROVE  /\ check_input(s, d, input).output = unlock_door(s, d, {0}).output
         /\ DI_MANUAL_OPEN \in input
         /\ DI_MANUAL_OPEN \notin s.lastInput[d] \/ DI_STATE_IS_DIFF \in s.lastInput[d]
  <1> DEFINE diff == InputDiff(s, d, input)
             m == manual_open(s, d, input)
             e == emergency_open(m, d, diff, input)
             c == door_close(e, d, diff, input)
  <1>1. m \in State /\ e \in State
    BY HandlerFields
  <1>2. Bit \in SUBSET Bit /\ {} \in SUBSET Bit
    OBVIOUS
  <1>3. e.output = m.output
    BY <1>1, <1>2, AirLockFields DEF emergency_open
  <1>4. c.output = e.output
    BY <1>1, <1>2, AirLockFields DEF door_close
  <1>5. check_input(s, d, input).output = c.output
    BY CheckFields
  <1>6. m # s
    BY <1>3, <1>4, <1>5
  <1>7. DI_MANUAL_OPEN \in diff \cap input /\ m = unlock_door(s, d, {0})
    BY <1>6 DEF manual_open
  <1>8. QED
    BY <1>3, <1>4, <1>5, <1>7 DEF InputDiff

(* Where the byte of a door on the board comes from. *)
SampleInv ==
  /\ phase = "inputFailed" => GpioMayFail
  /\ \A d \in Door : d < INPUTS_DOORS => st.lastInput[d] \in Inputs \/ NotSampled(d)

LEMMA SampleInit == Init => SampleInv
  <1> SUFFICES ASSUME Init PROVE SampleInv
    OBVIOUS
  <1>1. st.lastInput = [d \in Door |-> InitialInput]
    BY DEF Init, StartState
  <1>2. phase # "inputFailed"
    BY DEF Init, LoopStart
  <1>3. QED
    BY <1>1, <1>2 DEF SampleInv, NotSampled

(* A tick of the timer leaves the input bytes alone. *)
LEMMA TimerKeepsInput ==
  ASSUME NEW s \in State, NEW d \in Door
  PROVE  door_timer(s, d).lastInput = s.lastInput
  <1> DEFINE c == [s EXCEPT !.door_lock_timer[d] = s.door_lock_timer[d] - 1]
  <1>1. CASE s.door_lock_timer[d] = 0
    BY <1>1, TimerFields
  <1>2. CASE s.door_lock_timer[d] # 0
    <2>1. /\ c \in State /\ c.lastInput = s.lastInput
          /\ door_timer(s, d) = IF s.door_lock_timer[d] = 1
                                THEN lock_door(c, d, maskFull[d]) ELSE c
      BY <1>2, TimerFields
    <2> HIDE DEF c
    <2>2. maskFull[d] \in SUBSET Bit
      BY DoorAssumption
    <2>3. lock_door(c, d, maskFull[d]).lastInput = c.lastInput
      BY <2>1, <2>2, LockFields
    <2>4. QED
      BY <2>1, <2>3
  <1>3. QED
    BY <1>1, <1>2

(* Only CheckInput changes an input byte, and a failed read is the only    *)
(* other source of one.                                                    *)
LEMMA SampleNext == TypeOK /\ SampleInv /\ [Next]_vars => SampleInv'
  <1> SUFFICES ASSUME TypeOK, SampleInv, [Next]_vars PROVE SampleInv'
    OBVIOUS
  <1>1. st \in State /\ cur \in Door /\ st.lastInput \in [Door -> SUBSET InputBit]
    BY DEF TypeOK, State
  <1>2. phase' = "inputFailed" => GpioMayFail
    BY DEF SampleInv, Next, LoopStep, DoorTimer, Grant, NextDoor, ReadInputs,
           CheckInput, NoDatagram, LoopStart, vars
  <1>3. CASE st'.lastInput = st.lastInput
    BY <1>2, <1>3 DEF SampleInv, NotSampled
  <1>4. CASE CheckInput
    <2>1. PICK i \in get_input_state(cur, phase = "inputFailed", Inputs) :
            st' = check_input(st, cur, i)
      BY <1>4 DEF CheckInput
    <2>2. i \in SUBSET InputBit
      BY ControllerAssumption DEF get_input_state
    <2>3. st'.lastInput = [st.lastInput EXCEPT ![cur] = i]
      BY <1>1, <2>1, <2>2, CheckFields
    <2>4. /\ st'.lastInput[cur] = i
          /\ \A d \in Door : d # cur => st'.lastInput[d] = st.lastInput[d]
      BY <1>1, <2>3
    <2>5. cur < INPUTS_DOORS => i \in Inputs \/ (phase = "inputFailed" /\ i = InputBit)
      <3>1. ASSUME cur < INPUTS_DOORS PROVE ~(cur >= INPUTS_DOORS)
        BY <1>1, <3>1, DoorAssumption DEF Door, INPUTS_DOORS
      <3>2. QED
        BY <2>1, <3>1 DEF get_input_state
    <2>6. QED
      BY <1>2, <2>4, <2>5 DEF SampleInv, NotSampled
  <1>5. CASE DoorTimer
    BY <1>1, <1>3, <1>5, TimerKeepsInput DEF DoorTimer
  <1>6. CASE Grant
    <2>1. PICK m \in Grants[cur] : st' = unlock_door(st, cur, m)
      BY <1>6 DEF Grant
    <2>2. m \in SUBSET Bit
      BY <1>1, <2>1, ControllerAssumption
    <2>3. QED
      BY <1>1, <1>3, <2>1, <2>2, UnlockFields
  <1>7. CASE NextDoor \/ ReadInputs \/ NoDatagram \/ UNCHANGED vars
    BY <1>3, <1>7 DEF NextDoor, ReadInputs, NoDatagram, vars
  <1>8. QED
    BY <1>4, <1>5, <1>6, <1>7 DEF Next, LoopStep

(* The button releases a lock on its edge only: if the lines showed it     *)
(* pressed, the next read does not release the lock, whether it succeeds   *)
(* or not.  After a start or a failed read the next one may.               *)
THEOREM ButtonNeedsEdge ==
  ASSUME DisjointOutputs, FourLines
  PROVE  Spec => ManualOpenIsEdge
  <1> DEFINE Step == \A d \in Door :
               phase \in {"input", "inputFailed"} /\ d < INPUTS_DOORS /\ Unlocks(d) =>
                 /\ DI_MANUAL_OPEN \in st'.lastInput[d]
                 /\ DI_MANUAL_OPEN \in st.lastInput[d] => NotSampled(d)
  <1>1. TypeOK /\ SampleInv /\ [Next]_vars => [Step]_vars
    <2>1. SUFFICES ASSUME TypeOK, SampleInv, Next, NEW d \in Door,
                          phase \in {"input", "inputFailed"}, d < INPUTS_DOORS, Unlocks(d)
                   PROVE  /\ DI_MANUAL_OPEN \in st'.lastInput[d]
                          /\ DI_MANUAL_OPEN \in st.lastInput[d] => NotSampled(d)
      OBVIOUS
    <2>2. st \in State /\ cur \in Door
      BY <2>1 DEF TypeOK
    <2>3. CheckInput
      BY <2>1 DEF Next, LoopStep, DoorTimer, Grant, NextDoor, ReadInputs, NoDatagram
    <2>4. PICK i \in get_input_state(cur, phase = "inputFailed", Inputs) :
            st' = check_input(st, cur, i)
      BY <2>3 DEF CheckInput
    <2>5. i \in SUBSET InputBit /\ {0} \in SUBSET Bit
      BY ControllerAssumption DEF get_input_state, Bit
    <2>6. PICK o \in OutputsOf(d) : st.output[o] = "lock" /\ st'.output[o] = "unlock"
      BY <2>1 DEF Unlocks
    <2>7. st'.output # st.output
      BY <2>6
    <2>8. /\ st'.output = unlock_door(st, cur, {0}).output
          /\ DI_MANUAL_OPEN \in i
          /\ DI_MANUAL_OPEN \notin st.lastInput[cur] \/ DI_STATE_IS_DIFF \in st.lastInput[cur]
      BY <2>2, <2>4, <2>5, <2>7, CheckReleasesOnEdge
    <2>9. d = cur
      BY <2>2, <2>5, <2>6, <2>8, ReleaseByUnlock
    <2>10. st'.lastInput[cur] = i
      <3>1. st'.lastInput = [st.lastInput EXCEPT ![cur] = i]
        BY <2>2, <2>4, <2>5, CheckFields
      <3>2. st.lastInput \in [Door -> SUBSET InputBit]
        BY <2>2 DEF State
      <3>3. QED
        BY <2>2, <3>1, <3>2
    <2>11. DI_STATE_IS_DIFF \in st.lastInput[d] => NotSampled(d)
      <3>1. DI_STATE_IS_DIFF \notin AllInputs
        BY DEF DI_STATE_IS_DIFF, AllInputs, DI_MANUAL_OPEN, DI_IS_EMERGENCY_OPEN,
               DI_IS_DOOR_CLOSE, DI_IS_DOOR_LOCK
      <3>2. st.lastInput[d] \in Inputs => DI_STATE_IS_DIFF \notin st.lastInput[d]
        BY <3>1 DEF FourLines
      <3>3. QED
        BY <2>1, <3>2 DEF SampleInv
    <2>12. QED
      BY <2>8, <2>9, <2>10, <2>11
  <1>2. SampleInv /\ TypeOK /\ [Next]_vars => SampleInv'
    BY SampleNext
  <1>3. Spec => []SampleInv
    BY <1>2, SampleInit, TypeCorrect, PTL DEF Spec
  <1>4. QED
    BY <1>1, <1>3, TypeCorrect, PTL DEF Spec, ManualOpenIsEdge
=============================================================================
