----------------------------- MODULE ReaderAuth -----------------------------
(***************************************************************************)
(* One DoorReader: the Idesco reader behind it (its PIN buffer and the     *)
(* packets of a poll), two_factor_timer, and process_user_info, which      *)
(* collects the factors of an authorisation and asks the users database.   *)
(* The readers of the doors share nothing but the door they unlock, so     *)
(* one reader is modelled.                                                 *)
(***************************************************************************)
EXTENDS UserDb

CONSTANTS
  AccessModes,      \* the modes the reader may be configured with
  TWO_FACTOR_TIME,  \* cycles a first factor is kept
  MAX_PIN_LEN,      \* longest PIN a DoorReader stores
  PIN_BUF_LEN,      \* longest PIN the reader driver collects (MAX_PIN_LEN
                    \* of reader-idesco.c)
  LongCards,        \* cards of more than MAX_CARD_LEN bytes
  MaxTime           \* bound on the clock

ASSUME ReaderAssumption ==
  /\ AccessModes \subseteq {MODE_CARD, MODE_PIN, MODE_CARD_OR_PIN, MODE_CARD_AND_PIN,
                            MODE_CARD_AND_PIN_ALWAYS, MODE_TWO_CARDS}
  /\ TWO_FACTOR_TIME \in Nat \ {0}
  /\ MAX_PIN_LEN \in Nat \ {0}
  /\ PIN_BUF_LEN \in Nat \ {0}
  /\ LongCards \subseteq Card
  /\ MaxTime \in Nat

VARIABLES
  r,        \* the DoorReader
  pin_buf,  \* digits collected by the reader driver
  phase,    \* "timer", "poll" or, inside a packet of key presses, "keys"
  now,      \* time(0)
  granted,  \* the auth_mask of the last process_user_info
  seen      \* history: the last card and the last PIN that were presented,
            \* and how many cycles ago

vars == <<r, pin_buf, phase, now, granted, seen>>

DoorReader ==
  [accessMode : AccessModes,
   card : Card \cup {NoCard}, card2 : Card \cup {NoCard}, pin : Seq(Digit),
   two_factor_timer : 0 .. TWO_FACTOR_TIME]

NewReader(mode) ==
  [accessMode |-> mode, card |-> NoCard, card2 |-> NoCard, pin |-> <<>>,
   two_factor_timer |-> 0]

(* Mutant: the PIN is not forgotten. *)
resetDoorAuth_keeps_pin(x) == [x EXCEPT !.card = NoCard, !.two_factor_timer = 0]

resetDoorAuth(x) ==
  [x EXCEPT !.card = NoCard, !.pin = <<>>, !.two_factor_timer = 0]

HasCard(x) == x.card # NoCard
HasPin(x) == x.pin # <<>>

-----------------------------------------------------------------------------
(* process_user_info *)

(* Mutant: every call starts the timer again. *)
StartTimer_restarts(x) == [x EXCEPT !.two_factor_timer = TWO_FACTOR_TIME]

(* The switch over the access mode: the mask, and the reader after it.     *)
StartTimer(x) ==
  [x EXCEPT !.two_factor_timer = IF @ = 0 THEN TWO_FACTOR_TIME ELSE @]

StopTimer(x) == [x EXCEPT !.two_factor_timer = 0]

Decision(mask, x) == [mask |-> mask, r |-> x]

Access(x, mode) == getAccessMask2(x.pin, x.card, mode, now)

one_factor(x) ==
  CASE HasCard(x) /\ x.accessMode \in {MODE_CARD, MODE_CARD_OR_PIN} ->
         Decision(Access(x, MODE_CARD), x)
    [] /\ HasPin(x)
       /\ x.accessMode = MODE_PIN \/ (x.accessMode = MODE_CARD_OR_PIN /\ ~HasCard(x)) ->
         Decision(Access(x, MODE_PIN), x)
    [] OTHER -> Decision({}, x)

card_and_pin(x) ==
  LET alone == IF HasCard(x) /\ x.accessMode = MODE_CARD_AND_PIN
               THEN Access(x, MODE_CARD_AND_PIN) ELSE {}
  IN IF HasCard(x) /\ HasPin(x)
     THEN Decision(Access(x, MODE_CARD_AND_PIN_ALWAYS), StopTimer(x))
     ELSE IF alone # {} THEN Decision(alone, StopTimer(x))
     ELSE Decision({}, StartTimer(x))

two_cards(x) ==
  IF HasCard(x) /\ x.card2 # NoCard
  THEN Decision(checkKeyAccess2(x.card, x.card2),
                [StopTimer(x) EXCEPT !.card2 = NoCard])
  ELSE Decision({}, StartTimer(x))

decide(x) ==
  CASE x.accessMode \in {MODE_CARD, MODE_PIN, MODE_CARD_OR_PIN} -> one_factor(x)
    [] x.accessMode \in {MODE_CARD_AND_PIN, MODE_CARD_AND_PIN_ALWAYS} -> card_and_pin(x)
    [] x.accessMode = MODE_TWO_CARDS -> two_cards(x)

(* The end of process_user_info: a grant or a refusal forgets the factors, *)
(* a running two factor timer keeps them.                                  *)
conclude(x) ==
  LET v == decide(x)
  IN IF v.mask # {} \/ v.r.two_factor_timer = 0
     THEN Decision(v.mask, resetDoorAuth(v.r)) ELSE v

(* Mutant: the length of the PIN is not checked. *)
process_pin_unchecked(x, pin) ==
  IF HasPin(x) THEN Decision({}, resetDoorAuth(x))
  ELSE conclude([x EXCEPT !.pin = pin])

process_pin(x, pin) ==
  IF Len(pin) > MAX_PIN_LEN \/ HasPin(x) THEN Decision({}, resetDoorAuth(x))
  ELSE conclude([x EXCEPT !.pin = pin])

process_card(x, card) ==
  CASE \/ card \in LongCards
       \/ HasCard(x) /\ (x.accessMode # MODE_TWO_CARDS \/ x.card2 # NoCard) ->
         Decision({}, resetDoorAuth(x))
    [] card \notin LongCards /\ ~HasCard(x) -> conclude([x EXCEPT !.card = card])
    [] OTHER -> conclude([x EXCEPT !.card2 = card])

(* DATA_OUT_OF_BUF *)
process_out_of_buf(x) == Decision({}, resetDoorAuth(x))

-----------------------------------------------------------------------------
(* History: what was presented at the reader, counted from outside, for as *)
(* long as it may count.                                                   *)
Age == 0 .. TWO_FACTOR_TIME
Aged(a) == IF a = TWO_FACTOR_TIME THEN a ELSE a + 1
NotSeen ==
  [card |-> NoCard, cardAge |-> TWO_FACTOR_TIME, pin |-> <<>>, pinAge |-> TWO_FACTOR_TIME]
Older(s) ==
  [card |-> IF Aged(s.cardAge) = TWO_FACTOR_TIME THEN NoCard ELSE s.card,
   cardAge |-> Aged(s.cardAge),
   pin |-> IF Aged(s.pinAge) = TWO_FACTOR_TIME THEN <<>> ELSE s.pin,
   pinAge |-> Aged(s.pinAge)]

Init ==
  /\ \E mode \in AccessModes : r = NewReader(mode)
  /\ pin_buf = <<>>
  /\ phase = "timer"
  /\ now = 0
  /\ granted = {}
  /\ seen = NotSeen

(* Mutant: < 0 in the place of <= 0, the factors are never reset. *)
TwoFactorTimer_off_by_one ==
  /\ phase = "timer"
  /\ r' = [r EXCEPT !.two_factor_timer = IF @ = 0 THEN 0 ELSE @ - 1]
  /\ phase' = "poll"
  /\ now' \in {t \in now .. now + 1 : t <= MaxTime}
  /\ granted' = {}
  /\ seen' = Older(seen)
  /\ UNCHANGED pin_buf

(* two_factor_timer at the start of a cycle; time may have passed since    *)
(* the last one.                                                           *)
TwoFactorTimer ==
  /\ phase = "timer"
  /\ IF r.two_factor_timer = 1
     THEN r' = resetDoorAuth(r) /\ pin_buf' = <<>>
     ELSE /\ r' = [r EXCEPT !.two_factor_timer = IF @ = 0 THEN 0 ELSE @ - 1]
          /\ UNCHANGED pin_buf
  /\ phase' = "poll"
  /\ now' \in {t \in now .. now + 1 : t <= MaxTime}
  /\ granted' = {}
  /\ seen' = Older(seen)

Conclude(v) == r' = v.r /\ granted' = v.mask

(* osdp_RAW: a card; afterwards the PIN entry is broken off.               *)
PollCard ==
  /\ phase = "poll"
  /\ \E c \in Card :
       /\ Conclude(process_card(r, c))
       /\ seen' = [seen EXCEPT !.card = c, !.cardAge = 0]
  /\ pin_buf' = <<>>
  /\ phase' = "timer"
  /\ UNCHANGED now

(* osdp_RAW with no more than CARD_ID_OFFSET bytes: only a warning, but    *)
(* the PIN entry is broken off all the same.                               *)
PollShortCard ==
  /\ phase = "poll"
  /\ pin_buf' = <<>>
  /\ phase' = "timer"
  /\ granted' = {}
  /\ UNCHANGED <<r, now, seen>>

(* osdp_KPD: the key presses of one packet, one at a time.                 *)
Keys ==
  /\ phase \in {"poll", "keys"}
  /\ phase' = "keys"
  /\ UNCHANGED now

KeyClear ==
  /\ Keys
  /\ pin_buf' = <<>>
  /\ granted' = {}
  /\ UNCHANGED <<r, seen>>

KeyDone ==
  /\ Keys
  /\ Conclude(process_pin(r, pin_buf))
  /\ seen' = [seen EXCEPT !.pin = pin_buf, !.pinAge = 0]
  /\ pin_buf' = <<>>

(* The digit that does not fit makes process_user_info start over, and     *)
(* then becomes the first digit of a new PIN.                              *)
KeyDigit ==
  /\ Keys
  /\ \E k \in Digit :
       IF Len(pin_buf) = PIN_BUF_LEN
       THEN Conclude(process_out_of_buf(r)) /\ pin_buf' = <<k>>
       ELSE /\ pin_buf' = Append(pin_buf, k)
            /\ granted' = {} /\ UNCHANGED r
  /\ UNCHANGED seen

(* osdp_ACK, osdp_NACK, no answer or a bad packet, or the end of the key   *)
(* presses.  mainLoop polls with input_timeout false, so neither branch of *)
(* the osdp_ACK case touches a PIN that was begun.                         *)
PollDone ==
  /\ phase \in {"poll", "keys"}
  /\ phase' = "timer"
  /\ granted' = {}
  /\ UNCHANGED <<r, pin_buf, now, seen>>

Next ==
  \/ TwoFactorTimer \/ PollCard \/ PollShortCard
  \/ KeyClear \/ KeyDone \/ KeyDigit \/ PollDone

Spec == Init /\ [][Next]_vars

(* The main loop never blocks and a packet holds finitely many keys.       *)
FairSpec == Spec /\ WF_vars(Next) /\ WF_vars(PollDone)

-----------------------------------------------------------------------------
(* Properties *)

(* The fields of the DoorReader and of the driver's buffer keep their      *)
(* types and lengths; a second card is never kept between two calls.       *)
TypeOK ==
  /\ r \in DoorReader /\ r.card2 = NoCard
  /\ Len(r.pin) <= MAX_PIN_LEN
  /\ pin_buf \in Seq(Digit) /\ Len(pin_buf) <= PIN_BUF_LEN
  /\ phase \in {"timer", "poll", "keys"}
  /\ now \in 0 .. MaxTime
  /\ granted \in SUBSET (0 .. 31)
  /\ seen \in [card : Card \cup {NoCard}, cardAge : Age,
               pin : Seq(Digit), pinAge : Age]

(* A factor process_user_info keeps is the last one presented, its timer   *)
(* runs, and it is never older than the time the timer has used up; the    *)
(* modes that ask for one factor never wait for a second.                  *)
FactorsAreFresh ==
  /\ HasCard(r) => /\ r.card = seen.card
                   /\ r.two_factor_timer > 0
                   /\ seen.cardAge + r.two_factor_timer <= TWO_FACTOR_TIME
  /\ HasPin(r) => /\ r.pin = seen.pin
                  /\ r.two_factor_timer > 0
                  /\ seen.pinAge + r.two_factor_timer <= TWO_FACTOR_TIME
  /\ r.accessMode \in {MODE_CARD, MODE_PIN, MODE_CARD_OR_PIN} =>
       r.two_factor_timer = 0

(* What the access modes of user_db.h promise, told from what was          *)
(* presented at the reader instead of from the program's own fields.       *)
ShownCard(row, age) == seen'.card = row.card /\ seen'.cardAge <= age
ShownPin(row, age) == seen'.pin = row.pin /\ seen'.pinAge <= age
Entitled(row) ==
  /\ now <= row.expire
  /\ CASE r.accessMode = MODE_CARD -> ShownCard(row, 0)
       [] r.accessMode = MODE_PIN -> ShownPin(row, 0)
       [] r.accessMode = MODE_CARD_OR_PIN -> ShownCard(row, 0) \/ ShownPin(row, 0)
       [] r.accessMode = MODE_CARD_AND_PIN ->
            /\ ShownCard(row, TWO_FACTOR_TIME - 1)
            /\ \/ ShownPin(row, TWO_FACTOR_TIME - 1)
               \/ row.allow_no_pin \/ row.pin = <<>>
       [] r.accessMode = MODE_CARD_AND_PIN_ALWAYS ->
            /\ ShownCard(row, TWO_FACTOR_TIME - 1)
            /\ ShownPin(row, TWO_FACTOR_TIME - 1)
       [] OTHER -> FALSE

(* Every sub-door that is granted belongs to a user who is not expired and *)
(* whose factors, all the mode asks for, were the last ones presented and  *)
(* within the two factor time.                                             *)
GrantNeedsFactors ==
  [][\A b \in granted' : \E row \in Rows : row.subdoor = b /\ Entitled(row)]_vars

(* A first factor is not kept for ever: it is used or it times out.        *)
FactorsForgotten == HasCard(r) \/ HasPin(r) ~> ~HasCard(r) /\ ~HasPin(r)
=============================================================================
