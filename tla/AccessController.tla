-------------------------- MODULE AccessController --------------------------
(***************************************************************************)
(* The whole program: the doors and the remote control of RemoteControl    *)
(* with two readers of ReaderAuth in the place of the grants it leaves     *)
(* open.  A step of a reader and what it does to its door are one step, as *)
(* in the code, where process_user_info calls unlock_door.                 *)
(***************************************************************************)
EXTENDS RemoteControl

CONSTANTS
  Card, NoCard, Digit,          \* as in UserDb
  RowsOf,                       \* [Door -> rows of the users database]
  TWO_FACTOR_TIME, MAX_PIN_LEN, PIN_BUF_LEN, LongCards, MaxTime,
                                \* as in ReaderAuth
  doorA, doorB,                 \* the doors the two readers belong to; if it
                                \* is the same, A is its readerA, B readerB
  modesA, modesB                \* the access modes they may have

ASSUME AccessAssumption ==
  /\ doorA \in Door /\ doorB \in Door
  /\ RowsOf \in [Door -> SUBSET [card : Card, pin : Seq(Digit), expire : Nat,
                                 allow_no_pin : BOOLEAN, subdoor : 0 .. 31]]
  /\ NoCard \notin Card /\ LongCards \subseteq Card
  /\ modesA \cup modesB \subseteq {1, 2, 16, 32, 48, 64}  \* those of user_db.h
  /\ TWO_FACTOR_TIME \in Nat \ {0} /\ MaxTime \in Nat
  /\ MAX_PIN_LEN \in Nat \ {0} /\ PIN_BUF_LEN \in Nat \ {0}

VARIABLES
  now,                              \* time(0)
  rA, pinA, phaseA, grantA, seenA,  \* reader A, as in ReaderAuth
  rB, pinB, phaseB, grantB, seenB   \* reader B

varsA == <<rA, pinA, phaseA, grantA, seenA>>
varsB == <<rB, pinB, phaseB, grantB, seenB>>
acvars == <<rcvars, now, varsA, varsB>>

A == INSTANCE ReaderAuth WITH
       Rows <- RowsOf[doorA], AccessModes <- modesA,
       r <- rA, pin_buf <- pinA, phase <- phaseA, granted <- grantA, seen <- seenA
B == INSTANCE ReaderAuth WITH
       Rows <- RowsOf[doorB], AccessModes <- modesB,
       r <- rB, pin_buf <- pinB, phase <- phaseB, granted <- grantB, seen <- seenB

ACInit == RCInit /\ A!Init /\ B!Init

-----------------------------------------------------------------------------
(* mainLoop: the timers of the door and of its readers.                    *)
Timers ==
  /\ DoorTimer
  /\ IF cur = doorA THEN A!TwoFactorTimer ELSE UNCHANGED varsA
  /\ IF cur = doorB THEN B!TwoFactorTimer ELSE UNCHANGED varsB
  /\ cur \notin {doorA, doorB} => UNCHANGED now
  /\ UNCHANGED rest

(* Mutant: the mask is granted on the partner as well. *)
unlock_both(s, d, mask) ==
  LET one == unlock_door(s, d, mask)
  IN IF HasPartner(d) THEN unlock_door(one, airLockPartnerLocal[d], mask) ELSE one

unlock_granted(s, d, mask) == unlock_door(s, d, mask)

(* The end of process_user_info.                                           *)
Conclusion(mask) ==
  /\ st' = IF mask = {} THEN st ELSE unlock_granted(st, cur, mask)
  /\ UNCHANGED <<phase, cur, booted, rest>>

PolledA == cur # doorA \/ phaseA = "timer"
PolledB == cur # doorB \/ phaseB = "timer"

(* get_reader_data of the two readers, readerA first.                      *)
PollA ==
  /\ phase = "readers" /\ cur = doorA
  /\ \/ A!PollCard \/ A!PollShortCard
     \/ A!KeyClear \/ A!KeyDone \/ A!KeyDigit \/ A!PollDone
  /\ Conclusion(grantA')
  /\ UNCHANGED varsB

PollB ==
  /\ phase = "readers" /\ cur = doorB /\ PolledA
  /\ \/ B!PollCard \/ B!PollShortCard
     \/ B!KeyClear \/ B!KeyDone \/ B!KeyDigit \/ B!PollDone
  /\ Conclusion(grantB')
  /\ UNCHANGED varsA

(* The rest of the loop, which the readers have no part in.                *)
Rest ==
  /\ \/ PolledA /\ PolledB /\ NextDoor /\ UNCHANGED rest
     \/ (ReadInputs \/ CheckInput \/ NoDatagram) /\ UNCHANGED rest
     \/ check_network
  /\ UNCHANGED <<now, varsA, varsB>>

(* A restart initialises the readers again.                                *)
FreshA ==
  /\ rA' = A!NewReader(rA.accessMode) /\ pinA' = <<>> /\ phaseA' = "timer"
  /\ grantA' = {} /\ seenA' = A!NotSeen
FreshB ==
  /\ rB' = B!NewReader(rB.accessMode) /\ pinB' = <<>> /\ phaseB' = "timer"
  /\ grantB' = {} /\ seenB' = B!NotSeen
PowerCycle == Restart /\ FreshA /\ FreshB /\ UNCHANGED now

ACNext == Timers \/ PollA \/ PollB \/ Rest \/ PowerCycle

ACSpec == ACInit /\ [][ACNext]_acvars

-----------------------------------------------------------------------------
(* Properties *)

(* The output o of door d was the one of sub-door b.                       *)
IsSubdoor(o, d, b) == b \in maskFull[d] /\ o = maskOffset[d] + b

(* A user stands at a reader of door d: a row of the users of that door    *)
(* for this sub-door, every factor shown at this one reader.               *)
UserAt(o) ==
  phase = "readers" /\
    \/ /\ cur = doorA
       /\ \E row \in RowsOf[doorA] : IsSubdoor(o, doorA, row.subdoor) /\ A!Entitled(row)
    \/ /\ cur = doorB
       /\ \E row \in RowsOf[doorB] : IsSubdoor(o, doorB, row.subdoor) /\ B!Entitled(row)

(* The button of the door was pressed, or a command named the sub-door.    *)
ButtonAt(o) ==
  /\ phase = "input" /\ IsSubdoor(o, cur, 0)
  /\ DI_MANUAL_OPEN \in st'.lastInput[cur]
CommandFor(o) ==
  \E c \in Commands :
    /\ c.arg1 = "unlock" /\ (DoUnlock(c) \/ Set(c))
    /\ \E b \in c.arg2 : IsSubdoor(o, c.door, b)

(* End to end: no lock is released but by a user entitled to that sub-door *)
(* whose factors, all of them shown at one reader of that door and in      *)
(* time, are those of one row; by the button of the door; by a command; or *)
(* by what a restart finds.  Two readers of a door never pool factors.     *)
ReleasesAreAuthorised ==
  [][\A o \in Output :
       st.output[o] = "lock" /\ st'.output[o] = "unlock" =>
         UserAt(o) \/ ButtonAt(o) \/ CommandFor(o) \/ Restart]_acvars

(* The composition does nothing to the doors that RemoteControl with its   *)
(* open grants does not allow: what holds of it holds of the program.      *)
ImplementsRemoteControl == RCSpec
=============================================================================
