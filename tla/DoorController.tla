--------------------------- MODULE DoorController ---------------------------
(***************************************************************************)
(* mainLoop: one cycle visits every door (its close-door timer, then its   *)
(* readers), then reads the inputs of all doors and handles them door by   *)
(* door.  The environment chooses which readers grant access and what the  *)
(* input lines show.  The authorisation behind a grant is in ReaderAuth,   *)
(* the remote commands between two cycles are in RemoteControl.            *)
(***************************************************************************)
EXTENDS Door

CONSTANTS
  Grants,       \* [Door -> set of masks]: what the readers may be granted
  Inputs,       \* the input bytes the lines of a door may show
  GpioMayFail,  \* can reading the input lines fail?
  PowerUp       \* the relay states the program may find when it starts

ASSUME ControllerAssumption ==
  /\ Grants \in [Door -> SUBSET (SUBSET Bit)]
  /\ Inputs \in SUBSET (SUBSET InputBit)
  /\ GpioMayFail \in BOOLEAN
  /\ PowerUp \in SUBSET [Output -> LockState]

VARIABLES
  st,      \* the Door structures, the outputs and the LEDs (Door!State)
  phase,   \* the place in the loop body
  cur,     \* the index of the for loop that is running
  booted   \* history: every door was visited since the program started

vars == <<st, phase, cur, booted>>

Phase == {"timer", "readers", "gpio", "input", "inputFailed", "network"}

(* The doors whose close-door timer ran at least once since the start.     *)
Visited ==
  IF booted THEN Polled
  ELSE {d \in Polled : d < cur \/ (d = cur /\ phase = "readers")}

(* The first step of a cycle; with no door to poll the loop over the doors *)
(* is skipped.                                                             *)
LoopStart == IF doorsCount = 0 THEN "gpio" ELSE "timer"

Init ==
  /\ \E out \in PowerUp : \E leds \in [Door -> {"open", "none"}] :
       st = StartState(out, leds)
  /\ phase = LoopStart
  /\ cur = 0
  /\ booted = FALSE

(* if (door_lock_timer && --door_lock_timer <= 0) lock_door(...)           *)
DoorTimer ==
  /\ phase = "timer"
  /\ st' = door_timer(st, cur)
  /\ phase' = "readers"
  /\ UNCHANGED <<cur, booted>>

(* get_reader_data of a reader of the door calls process_user_info, which  *)
(* grants mask m.  One poll may deliver several PINs, so several grants.   *)
Grant ==
  /\ phase = "readers"
  /\ \E m \in Grants[cur] : st' = unlock_door(st, cur, m)
  /\ UNCHANGED <<phase, cur, booted>>

(* Both readers of the door were polled: next door, or the inputs.         *)
NextDoor ==
  /\ phase = "readers"
  /\ IF cur + 1 < doorsCount
     THEN cur' = cur + 1 /\ phase' = "timer" /\ UNCHANGED booted
     ELSE cur' = 0 /\ phase' = "gpio" /\ booted' = TRUE
  /\ UNCHANGED st

(* The one read of all input lines at the start of check_inputs.           *)
ReadInputs ==
  /\ phase = "gpio"
  /\ IF doorsCount = 0 THEN phase' = "network"
     ELSE phase' = "input" \/ (GpioMayFail /\ phase' = "inputFailed")
  /\ UNCHANGED <<st, cur, booted>>

CheckInput ==
  /\ phase \in {"input", "inputFailed"}
  /\ \E i \in get_input_state(cur, phase = "inputFailed", Inputs) :
       st' = check_input(st, cur, i)
  /\ IF cur + 1 < doorsCount
     THEN cur' = cur + 1 /\ UNCHANGED phase
     ELSE cur' = 0 /\ phase' = "network"
  /\ UNCHANGED booted

(* Without a port, or with no datagram waiting, the next cycle begins.     *)
NoDatagram ==
  /\ phase = "network"
  /\ phase' = LoopStart
  /\ UNCHANGED <<st, cur, booted>>

LoopStep == DoorTimer \/ Grant \/ NextDoor \/ ReadInputs \/ CheckInput

Next == LoopStep \/ NoDatagram

Spec == Init /\ [][Next]_vars

(* The loop never blocks, and one poll of the readers ends: a packet holds *)
(* finitely many key presses.                                              *)
Fairness == WF_vars(Next) /\ WF_vars(NextDoor)

FairSpec == Spec /\ Fairness

-----------------------------------------------------------------------------
(* Properties *)

(* The Door structures keep their types: the timers of door_controller.h   *)
(* never leave their range and the loop index stays inside the door array. *)
TypeOK ==
  /\ st \in State
  /\ phase \in Phase
  /\ cur \in Door
  /\ booted \in BOOLEAN

(* The purpose of airLockOnPartner: once both doors of an airlock were     *)
(* visited, at most one of them has a released lock, whatever the readers, *)
(* buttons, door sensors and timers do.                                    *)
AirlockExclusion ==
  \A d, p \in Visited :
    airLockPartnerLocal[d] = p => ~(Unlocked(st, d) /\ Unlocked(st, p))

(* door_controller.h on airLockPartner: "used to set lock on it when our   *)
(* door is unlock or open".                                                *)
PartnerBlocked ==
  \A d \in Visited :
    (Unlocked(st, d) \/ Opened(st, d)) /\ HasPartner(d)
      => Blocked(st, airLockPartnerLocal[d])

(* The strengthening of the two that is inductive: the discipline holds    *)
(* for the visited doors, the others still have the timer of main(), and   *)
(* the loop reaches check_inputs only after it visited every door.         *)
AirlockInv ==
  /\ Protected(st, Visited)
  /\ \A d \in Door \ Visited : st.door_lock_timer[d] = 1
  /\ phase \in {"timer", "readers", "input", "inputFailed"} => cur \in Polled
  /\ phase \in {"gpio", "network"} => cur = 0
  /\ phase \in {"gpio", "input", "inputFailed", "network"} =>
       booted \/ doorsCount = 0

(* Does the step release the lock of door d?                               *)
Unlocks(d) ==
  \E o \in OutputsOf(d) : st.output[o] = "lock" /\ st'.output[o] = "unlock"

(* No step releases the lock of a door while its airlock partner is seen   *)
(* open or is itself released.                                             *)
UnlockRespectsPartner ==
  [][\A d \in Visited : Unlocks(d) /\ HasPartner(d) =>
       LET p == airLockPartnerLocal[d]
       IN ~Opened(st, p) /\ (p \in Visited => ~Unlocked(st, p))]_vars

(* door_controller.h: "when >0 door are unlock and door_lock_timer         *)
(* contains number of main loop cycles until door will be locked"; and     *)
(* no lock stays released once the timer has run out.                      *)
TimerMeansUnlocked ==
  \A d \in Visited : st.door_lock_timer[d] > 0 <=> Unlocked(st, d)

(* A reader shows the permanent green of SIGNAL_DOOR_OPEN only while the   *)
(* lock of its door is released.                                           *)
LedOpenMeansUnlocked ==
  \A d \in Visited : st.led[d] = "open" => Unlocked(st, d)

(* A read that succeeds shows the four lines of a door and nothing else.   *)
FourLines == \A i \in Inputs : i \subseteq AllInputs

(* lastInput is no byte the lines of the door have shown: it comes from    *)
(* main() or from a failed read.                                           *)
NotSampled(d) ==
  st.lastInput[d] = InitialInput \/ (GpioMayFail /\ st.lastInput[d] = InputBit)

(* check_inputs releases a lock only on the edge of its button: the byte   *)
(* just read has the bit, and the one before had not, or was no sample of  *)
(* the lines.  So a button that is held acts once, and once more at the    *)
(* read after every failed one; the failed read itself has every bit and   *)
(* acts like a press of a button that was up.                              *)
ManualOpenIsEdge ==
  [][\A d \in Door :
       phase \in {"input", "inputFailed"} /\ d < INPUTS_DOORS /\ Unlocks(d) =>
         /\ DI_MANUAL_OPEN \in st'.lastInput[d]
         /\ DI_MANUAL_OPEN \in st.lastInput[d] => NotSampled(d)]_vars

(* A lock is released by check_inputs only if the button line can be       *)
(* active at all.                                                          *)
ManualOpenNeedsButton ==
  [][\A d \in Door :
       phase \in {"input", "inputFailed"} /\ Unlocks(d)
         => \E i \in Inputs : DI_MANUAL_OPEN \in i]_vars

(* What the loop implements: the abstract airlock.  A door counts as       *)
(* released once its timer ran for the first time, which locks it.         *)
IL == INSTANCE Interlock WITH
        Doors <- Door,
        partner <- airLockPartnerLocal,
        released <- {d \in Visited : Unlocked(st, d)},
        open <- {d \in Door : Opened(st, d)}

(* Seen from outside, the locks and the door sensors behave as the         *)
(* specification of an airlock allows: no step of the loop releases a door *)
(* whose partner is released or open, and none releases two doors.         *)
ImplementsInterlock == IL!Spec

(* airLockOnPartner: "our door are locked AND closed", then "remove        *)
(* airlock blockade from partner".  At the end of a cycle a door that is   *)
(* locked and closed leaves its partner usable.                            *)
ReleasedWhenLockedAndClosed ==
  phase = "network" =>
    \A d \in Polled : LockedAndClosed(st, d) /\ HasPartner(d)
      => st.airLockMask[airLockPartnerLocal[d]] = {}

(* The blockade of the partner does not last: if a door stays closed from  *)
(* some time on and is still used, its partner is usable again and again.  *)
BlockadeEnds ==
  \A d \in Polled :
    HasPartner(d) /\ <>[]~Opened(st, d)
      /\ []<>Unlocked(st, d) /\ []<>~Unlocked(st, d)
    => []<>~Blocked(st, airLockPartnerLocal[d])

(* Whatever the relays did before, the program locks every door it was     *)
(* started for.                                                            *)
StartLocks == \A d \in Door : <>(~Unlocked(st, d))

(* A released lock is locked again unless the door is granted anew for     *)
(* ever.                                                                   *)
LocksAgain ==
  \A d \in Polled :
    []<>(~Unlocked(st, d)) \/ []<>(st.door_lock_timer[d] = DOOR_OPEN_TIME)

(* A door left open, or an emergency opening left active, raises the       *)
(* door-open alarm again and again.                                        *)
SendsAlarm(d) ==
  /\ phase \in {"input", "inputFailed"} /\ cur = d
  /\ st.alarm_timers[d] = 1
  /\ st'.alarm_timers[d] = ALARM_RESEND_TIMER
AlarmRepeats ==
  \A d \in Polled :
    <>[]Alarm(st.lastInput[d]) => []<><<SendsAlarm(d)>>_vars
=============================================================================
