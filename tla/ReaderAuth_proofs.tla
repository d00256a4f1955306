-------------------------- MODULE ReaderAuth_proofs --------------------------
(***************************************************************************)
(* The authorisation at a reader, for every users database, every set of   *)
(* cards and digits and every length of the timers and buffers.            *)
(***************************************************************************)
EXTENDS ReaderAuth, TLAPS

(* The modes that decide at the first factor, and those that wait for a    *)
(* second one (the PIN, or the second card).                               *)
OneFactorModes == {MODE_CARD, MODE_PIN, MODE_CARD_OR_PIN}
PinModes == {MODE_CARD_AND_PIN, MODE_CARD_AND_PIN_ALWAYS}
TwoFactorModes == PinModes \cup {MODE_TWO_CARDS}

(* y is x after it forgot its factors. *)
Forgot(y, x) ==
  /\ y \in DoorReader
  /\ y.accessMode = x.accessMode
  /\ y.card = NoCard /\ y.card2 = NoCard /\ y.pin = <<>>
  /\ y.two_factor_timer = 0

(* y is x waiting for the second factor. *)
Waits(y, x) ==
  /\ y \in DoorReader
  /\ y.accessMode = x.accessMode /\ x.accessMode \in TwoFactorModes
  /\ x.card2 = NoCard
  /\ y.card = x.card /\ y.card2 = NoCard /\ y.pin = x.pin
  /\ y.two_factor_timer =
       IF x.two_factor_timer = 0 THEN TWO_FACTOR_TIME ELSE x.two_factor_timer

-----------------------------------------------------------------------------
(* The operators *)

(* A mask the users database returns is a set of sub-doors. *)
LEMMA AccessType ==
  ASSUME NEW pin, NEW card, NEW mode, NEW t
  PROVE  getAccessMask2(pin, card, mode, t) \in SUBSET (0 .. 31)
  BY UserDbAssumption DEF getAccessMask2, UserRow

(* The modes are six different numbers, so exactly one case of the switch  *)
(* applies.                                                                *)
LEMMA Switch ==
  ASSUME NEW x \in DoorReader
  PROVE  /\ x.accessMode \in OneFactorModes \cup TwoFactorModes
         /\ x.accessMode \in OneFactorModes =>
              decide(x) = one_factor(x) /\ x.accessMode \notin TwoFactorModes
         /\ x.accessMode \in PinModes =>
              decide(x) = card_and_pin(x) /\ x.accessMode # MODE_TWO_CARDS
         /\ x.accessMode = MODE_TWO_CARDS => decide(x) = two_cards(x)
  <1>1. x.accessMode \in AccessModes
    BY DEF DoorReader
  <1>2. QED
    BY <1>1, ReaderAssumption DEF decide, OneFactorModes, PinModes, TwoFactorModes,
       MODE_CARD, MODE_PIN, MODE_CARD_OR_PIN, MODE_CARD_AND_PIN,
       MODE_CARD_AND_PIN_ALWAYS, MODE_TWO_CARDS

(* resetDoorAuth leaves the second card and the mode alone. *)
LEMMA ResetFields ==
  ASSUME NEW x \in DoorReader
  PROVE  LET y == resetDoorAuth(x)
         IN /\ y \in DoorReader
            /\ y.accessMode = x.accessMode
            /\ y.card = NoCard /\ y.card2 = x.card2 /\ y.pin = <<>>
            /\ y.two_factor_timer = 0
  <1>1. <<>> \in Seq(Digit) /\ 0 \in 0 .. TWO_FACTOR_TIME
    BY ReaderAssumption
  <1>2. QED
    BY <1>1 DEF DoorReader, resetDoorAuth

(* StartTimer does not prolong a timer that runs. *)
LEMMA StartFields ==
  ASSUME NEW x \in DoorReader
  PROVE  LET y == StartTimer(x)
         IN /\ y \in DoorReader
            /\ y.accessMode = x.accessMode
            /\ y.card = x.card /\ y.card2 = x.card2 /\ y.pin = x.pin
            /\ y.two_factor_timer =
                 IF x.two_factor_timer = 0 THEN TWO_FACTOR_TIME ELSE x.two_factor_timer
  BY ReaderAssumption DEF DoorReader, StartTimer

(* StopTimer, without and with the second card cleared. *)
LEMMA StopFields ==
  ASSUME NEW x \in DoorReader
  PROVE  LET y == StopTimer(x)
             z == [StopTimer(x) EXCEPT !.card2 = NoCard]
         IN /\ y \in DoorReader
            /\ y.accessMode = x.accessMode /\ y.card2 = x.card2
            /\ y.two_factor_timer = 0
            /\ z \in DoorReader
            /\ z.accessMode = x.accessMode /\ z.card2 = NoCard
            /\ z.two_factor_timer = 0
  <1> DEFINE y == StopTimer(x)
  <1>1. 0 \in 0 .. TWO_FACTOR_TIME
    BY ReaderAssumption
  <1>2. /\ y \in DoorReader
        /\ y.accessMode = x.accessMode /\ y.card2 = x.card2
        /\ y.two_factor_timer = 0
    BY <1>1 DEF DoorReader, StopTimer
  <1> HIDE DEF y
  <1>3. /\ [y EXCEPT !.card2 = NoCard] \in DoorReader
        /\ [y EXCEPT !.card2 = NoCard].accessMode = y.accessMode
        /\ [y EXCEPT !.card2 = NoCard].card2 = NoCard
        /\ [y EXCEPT !.card2 = NoCard].two_factor_timer = y.two_factor_timer
    BY <1>2 DEF DoorReader
  <1>4. QED
    BY <1>2, <1>3 DEF y

(* The switch of process_user_info. *)
LEMMA DecideCases ==
  ASSUME NEW x \in DoorReader,
         x.card2 = NoCard \/ (HasCard(x) /\ x.accessMode = MODE_TWO_CARDS)
  PROVE  LET v == decide(x)
         IN /\ v.mask \in SUBSET (0 .. 31)
            /\ \/ v.r = x /\ x.card2 = NoCard /\ x.accessMode \in OneFactorModes
               \/ v.r = StopTimer(x) /\ x.card2 = NoCard
               \/ v.r = [StopTimer(x) EXCEPT !.card2 = NoCard]
               \/ /\ v.r = StartTimer(x) /\ v.mask = {} /\ x.card2 = NoCard
                  /\ x.accessMode \in TwoFactorModes
  <1>1. CASE x.accessMode \in OneFactorModes
    <2>1. decide(x) = one_factor(x) /\ x.card2 = NoCard
      BY <1>1, Switch DEF TwoFactorModes
    <2>2. one_factor(x).r = x /\ one_factor(x).mask \in SUBSET (0 .. 31)
      BY AccessType DEF one_factor, Decision, Access
    <2>3. QED
      BY <1>1, <2>1, <2>2
  <1>2. CASE x.accessMode \in PinModes
    <2>1. decide(x) = card_and_pin(x) /\ x.card2 = NoCard
      BY <1>2, Switch
    <2>2. /\ card_and_pin(x).mask \in SUBSET (0 .. 31)
          /\ \/ card_and_pin(x).r = StopTimer(x)
             \/ card_and_pin(x).r = StartTimer(x) /\ card_and_pin(x).mask = {}
      BY AccessType DEF card_and_pin, Decision, Access
    <2>3. QED
      BY <1>2, <2>1, <2>2 DEF TwoFactorModes
  <1>3. CASE x.accessMode = MODE_TWO_CARDS
    <2>1. decide(x) = two_cards(x)
      BY <1>3, Switch
    <2>2. /\ two_cards(x).mask = {}
          /\ \/ two_cards(x).r = [StopTimer(x) EXCEPT !.card2 = NoCard]
             \/ two_cards(x).r = StartTimer(x) /\ x.card2 = NoCard
      BY DEF two_cards, Decision, checkKeyAccess2
    <2>3. QED
      BY <1>3, <2>1, <2>2 DEF TwoFactorModes
  <1>4. QED
    BY <1>1, <1>2, <1>3, Switch DEF TwoFactorModes

(* The end of process_user_info: the factors are forgotten, or nothing is  *)
(* granted, the mode asks for two factors and the timer is running.        *)
LEMMA ConcludeCases ==
  ASSUME NEW x \in DoorReader,
         x.card2 = NoCard \/ (HasCard(x) /\ x.accessMode = MODE_TWO_CARDS),
         x.accessMode \in OneFactorModes => x.two_factor_timer = 0
  PROVE  /\ conclude(x).mask = decide(x).mask
         /\ conclude(x).mask \in SUBSET (0 .. 31)
         /\ \/ Forgot(conclude(x).r, x)
            \/ Waits(conclude(x).r, x) /\ conclude(x).mask = {}
  <1> DEFINE v == decide(x)
  <1>1. /\ v.mask \in SUBSET (0 .. 31)
        /\ \/ v.r = x /\ x.card2 = NoCard /\ x.accessMode \in OneFactorModes
           \/ v.r = StopTimer(x) /\ x.card2 = NoCard
           \/ v.r = [StopTimer(x) EXCEPT !.card2 = NoCard]
           \/ /\ v.r = StartTimer(x) /\ v.mask = {} /\ x.card2 = NoCard
              /\ x.accessMode \in TwoFactorModes
    BY DecideCases
  <1>2. conclude(x) = IF v.mask # {} \/ v.r.two_factor_timer = 0
                      THEN Decision(v.mask, resetDoorAuth(v.r)) ELSE v
    BY DEF conclude
  <1> HIDE DEF v
  <1>3. conclude(x).mask = v.mask
    BY <1>2 DEF Decision
  <1>4. v.r \in DoorReader /\ v.r.accessMode = x.accessMode /\ v.r.card2 = NoCard
    <2>1. CASE v.r = x /\ x.card2 = NoCard
      BY <2>1
    <2>2. CASE v.r = StopTimer(x) /\ x.card2 = NoCard
      BY <2>2, StopFields
    <2>3. CASE v.r = [StopTimer(x) EXCEPT !.card2 = NoCard]
      BY <2>3, StopFields
    <2>4. CASE v.r = StartTimer(x) /\ x.card2 = NoCard
      BY <2>4, StartFields
    <2>5. QED
      BY <1>1, <2>1, <2>2, <2>3, <2>4
  <1>5. CASE v.mask # {} \/ v.r.two_factor_timer = 0
    <2>1. conclude(x).r = resetDoorAuth(v.r)
      BY <1>2, <1>5 DEF Decision
    <2>2. QED
      BY <1>1, <1>3, <1>4, <2>1, ResetFields DEF Forgot, v
  <1>6. CASE v.mask = {} /\ v.r.two_factor_timer # 0
    <2>1. conclude(x).r = v.r
      BY <1>2, <1>6
    <2>2. v.r = StartTimer(x) /\ x.card2 = NoCard /\ x.accessMode \in TwoFactorModes
      BY <1>1, <1>6, StopFields
    <2>3. Waits(v.r, x)
      BY <2>2, StartFields DEF Waits
    <2>4. QED
      BY <1>1, <1>3, <1>6, <2>1, <2>3 DEF v
  <1>7. QED
    BY <1>5, <1>6

(* What a poll may meet in the DoorReader.                                 *)
Ready(x) ==
  /\ x \in DoorReader /\ x.card2 = NoCard
  /\ x.accessMode \in OneFactorModes => x.two_factor_timer = 0

(* A PIN is refused, or it is the PIN the reader goes on with. *)
LEMMA PinCases ==
  ASSUME Ready(r), NEW pin \in Seq(Digit)
  PROVE  LET v == process_pin(r, pin)
             x == [r EXCEPT !.pin = pin]
         IN /\ x \in DoorReader
            /\ x.accessMode = r.accessMode /\ x.card = r.card /\ x.pin = pin
            /\ x.two_factor_timer = r.two_factor_timer
            /\ v.mask \in SUBSET (0 .. 31)
            /\ v.mask # {} => v.mask = decide(x).mask
            /\ \/ Forgot(v.r, r)
               \/ Waits(v.r, x) /\ v.mask = {} /\ Len(pin) <= MAX_PIN_LEN
  <1> DEFINE x == [r EXCEPT !.pin = pin]
  <1>1. /\ x \in DoorReader /\ x.card2 = NoCard
        /\ x.accessMode = r.accessMode /\ x.card = r.card /\ x.pin = pin
        /\ x.two_factor_timer = r.two_factor_timer
    BY DEF Ready, DoorReader
  <1> HIDE DEF x
  <1>2. CASE Len(pin) > MAX_PIN_LEN \/ HasPin(r)
    <2>1. process_pin(r, pin) = Decision({}, resetDoorAuth(r))
      BY <1>2 DEF process_pin
    <2>2. Forgot(resetDoorAuth(r), r)
      BY ResetFields DEF Ready, Forgot
    <2>3. QED
      BY <1>1, <2>1, <2>2 DEF Decision, x
  <1>3. CASE ~(Len(pin) > MAX_PIN_LEN \/ HasPin(r))
    <2>1. process_pin(r, pin) = conclude(x)
      BY <1>3 DEF process_pin, x
    <2>2. /\ conclude(x).mask = decide(x).mask
          /\ conclude(x).mask \in SUBSET (0 .. 31)
          /\ \/ Forgot(conclude(x).r, x)
             \/ Waits(conclude(x).r, x) /\ conclude(x).mask = {}
      BY <1>1, ConcludeCases DEF Ready
    <2>3. Forgot(conclude(x).r, x) => Forgot(conclude(x).r, r)
      BY <1>1 DEF Forgot
    <2>4. Len(pin) <= MAX_PIN_LEN
      BY <1>3, ReaderAssumption
    <2>5. QED
      BY <1>1, <2>1, <2>2, <2>3, <2>4 DEF x
  <1>4. QED
    BY <1>2, <1>3

(* A card is refused, or it is the card the reader goes on with; a second  *)
(* card ends the authorisation and grants nothing.                         *)
LEMMA CardCases ==
  ASSUME Ready(r), NEW c \in Card
  PROVE  LET v == process_card(r, c)
             x == [r EXCEPT !.card = c]
         IN /\ x \in DoorReader
            /\ x.accessMode = r.accessMode /\ x.card = c /\ x.pin = r.pin
            /\ x.two_factor_timer = r.two_factor_timer
            /\ v.mask \in SUBSET (0 .. 31)
            /\ v.mask # {} => v.mask = decide(x).mask
            /\ \/ Forgot(v.r, r)
               \/ Waits(v.r, x) /\ v.mask = {}
  <1> DEFINE x == [r EXCEPT !.card = c]
             y == [r EXCEPT !.card2 = c]
             bad == \/ c \in LongCards
                    \/ HasCard(r) /\ (r.accessMode # MODE_TWO_CARDS \/ r.card2 # NoCard)
  <1>1. /\ x \in DoorReader /\ x.card2 = NoCard
        /\ x.accessMode = r.accessMode /\ x.card = c /\ x.pin = r.pin
        /\ x.two_factor_timer = r.two_factor_timer
    BY DEF Ready, DoorReader
  <1>2. /\ y \in DoorReader /\ y.card2 = c
        /\ y.accessMode = r.accessMode /\ y.card = r.card /\ y.pin = r.pin
        /\ y.two_factor_timer = r.two_factor_timer
    BY DEF Ready, DoorReader
  <1>3. c # NoCard
    BY UserDbAssumption
  <1> HIDE DEF x, y
  <1>4. CASE bad
    <2>1. process_card(r, c) = Decision({}, resetDoorAuth(r))
      BY <1>4 DEF process_card
    <2>2. Forgot(resetDoorAuth(r), r)
      BY ResetFields DEF Ready, Forgot
    <2>3. QED
      BY <1>1, <2>1, <2>2 DEF Decision, x
  <1>5. CASE ~bad /\ ~HasCard(r)
    <2>1. process_card(r, c) = conclude(x)
      BY <1>5 DEF process_card, x
    <2>2. /\ conclude(x).mask = decide(x).mask
          /\ conclude(x).mask \in SUBSET (0 .. 31)
          /\ \/ Forgot(conclude(x).r, x)
             \/ Waits(conclude(x).r, x) /\ conclude(x).mask = {}
      BY <1>1, ConcludeCases DEF Ready
    <2>3. Forgot(conclude(x).r, x) => Forgot(conclude(x).r, r)
      BY <1>1 DEF Forgot
    <2>4. QED
      BY <1>1, <2>1, <2>2, <2>3 DEF x
  <1>6. CASE ~bad /\ HasCard(r)
    <2>1. process_card(r, c) = conclude(y) /\ r.accessMode = MODE_TWO_CARDS
      BY <1>6 DEF process_card, y
    <2>2. HasCard(y) /\ y.accessMode = MODE_TWO_CARDS
      BY <1>2, <1>6, <2>1 DEF HasCard
    <2>3. /\ conclude(y).mask = decide(y).mask
          /\ Forgot(conclude(y).r, y) \/ Waits(conclude(y).r, y)
      BY <1>2, <2>2, ConcludeCases DEF Ready
    <2>4. Forgot(conclude(y).r, r)
      BY <1>2, <1>3, <2>3 DEF Forgot, Waits
    <2>5. decide(y).mask = {}
      BY <1>2, <1>3, <2>2, Switch DEF two_cards, Decision, checkKeyAccess2
    <2>6. QED
      BY <1>1, <2>1, <2>3, <2>4, <2>5 DEF x
  <1>7. QED
    BY <1>4, <1>5, <1>6

-----------------------------------------------------------------------------
(* The invariant *)

(* The inductive invariant: types, and the freshness of the factors held.  *)
AuthInv == TypeOK /\ FactorsAreFresh

(* The invariant gives a poll what it needs. *)
LEMMA InvReady ==
  ASSUME AuthInv
  PROVE  Ready(r)
  BY DEF AuthInv, TypeOK, FactorsAreFresh, Ready, OneFactorModes

(* A reader without factors satisfies all the invariant says of it. *)
LEMMA ForgotIsFresh ==
  ASSUME NEW y, NEW x, Forgot(y, x)
  PROVE  /\ y \in DoorReader /\ y.card2 = NoCard
         /\ Len(y.pin) <= MAX_PIN_LEN
         /\ ~HasCard(y) /\ ~HasPin(y)
         /\ y.two_factor_timer = 0
  BY ReaderAssumption DEF Forgot, HasCard, HasPin

(* Ages stay in their range, and count one cycle. *)
LEMMA AgedType ==
  ASSUME NEW a \in Age
  PROVE  Aged(a) \in Age /\ (a < TWO_FACTOR_TIME => Aged(a) = a + 1)
  BY ReaderAssumption DEF Age, Aged

(* A reader that was just set up has no factor to be stale. *)
LEMMA AuthInit == Init => AuthInv
  <1> SUFFICES ASSUME Init PROVE AuthInv
    OBVIOUS
  <1>1. PICK mode \in AccessModes : r = NewReader(mode)
    BY DEF Init
  <1>2. <<>> \in Seq(Digit) /\ Len(<<>>) = 0 /\ 0 \in 0 .. TWO_FACTOR_TIME
        /\ TWO_FACTOR_TIME \in Age /\ 0 \in 0 .. MaxTime
        /\ 0 <= MAX_PIN_LEN /\ 0 <= PIN_BUF_LEN
    BY ReaderAssumption DEF Age
  <1>3. /\ r \in DoorReader /\ r.card = NoCard /\ r.card2 = NoCard /\ r.pin = <<>>
        /\ r.two_factor_timer = 0
    BY <1>1, <1>2 DEF NewReader, DoorReader
  <1>4. TypeOK
    BY <1>2, <1>3 DEF Init, NotSeen, TypeOK
  <1>5. FactorsAreFresh
    BY <1>3 DEF FactorsAreFresh, HasCard, HasPin
  <1>6. QED
    BY <1>4, <1>5 DEF AuthInv

(* The two-factor timer ages the factors as fast as it counts down. *)
LEMMA TimerKeepsInv ==
  ASSUME AuthInv, TwoFactorTimer
  PROVE  AuthInv'
  <1>1. /\ r \in DoorReader /\ r.two_factor_timer \in 0 .. TWO_FACTOR_TIME
        /\ seen.cardAge \in Age /\ seen.pinAge \in Age
        /\ TypeOK /\ FactorsAreFresh
    BY DEF AuthInv, TypeOK, DoorReader
  <1>2. /\ seen' \in [card : Card \cup {NoCard}, cardAge : Age, pin : Seq(Digit), pinAge : Age]
        /\ seen'.cardAge = Aged(seen.cardAge) /\ seen'.pinAge = Aged(seen.pinAge)
        /\ seen'.cardAge < TWO_FACTOR_TIME => seen'.card = seen.card
        /\ seen'.pinAge < TWO_FACTOR_TIME => seen'.pin = seen.pin
    <2> DEFINE old == Older(seen)
    <2>1. /\ seen.card \in Card \cup {NoCard} /\ seen.pin \in Seq(Digit) /\ <<>> \in Seq(Digit)
          /\ Aged(seen.cardAge) \in Age /\ Aged(seen.pinAge) \in Age
      BY <1>1, AgedType DEF TypeOK
    <2>2. /\ old \in [card : Card \cup {NoCard}, cardAge : Age, pin : Seq(Digit), pinAge : Age]
          /\ old.cardAge = Aged(seen.cardAge) /\ old.pinAge = Aged(seen.pinAge)
          /\ old.cardAge # TWO_FACTOR_TIME => old.card = seen.card
          /\ old.pinAge # TWO_FACTOR_TIME => old.pin = seen.pin
      BY <2>1 DEF Older
    <2>3. seen' = old
      BY DEF TwoFactorTimer
    <2> HIDE DEF old
    <2>4. QED
      BY <2>1, <2>2, <2>3, ReaderAssumption DEF Age
  <1>3. phase' = "poll" /\ now' \in 0 .. MaxTime /\ granted' = {}
    BY <1>1, ReaderAssumption DEF TwoFactorTimer, TypeOK
  <1>4. CASE r.two_factor_timer = 1
    <2>1. r' = resetDoorAuth(r) /\ pin_buf' = <<>>
      BY <1>4 DEF TwoFactorTimer
    <2>2. Forgot(r', r)
      BY <2>1, <1>1, ResetFields DEF Forgot, TypeOK
    <2>3. <<>> \in Seq(Digit) /\ Len(<<>>) <= PIN_BUF_LEN
      BY ReaderAssumption
    <2>4. TypeOK'
      BY <1>2, <1>3, <2>1, <2>2, <2>3, ForgotIsFresh DEF TypeOK
    <2>5. FactorsAreFresh'
      BY <2>2, ForgotIsFresh DEF FactorsAreFresh
    <2>6. QED
      BY <2>4, <2>5 DEF AuthInv
  <1>5. CASE r.two_factor_timer # 1
    <2> DEFINE t == IF r.two_factor_timer = 0 THEN 0 ELSE r.two_factor_timer - 1
    <2>1. r' = [r EXCEPT !.two_factor_timer = t] /\ pin_buf' = pin_buf
      BY <1>5 DEF TwoFactorTimer
    <2>2. t \in 0 .. TWO_FACTOR_TIME
      BY <1>1, ReaderAssumption
    <2> HIDE DEF t
    <2>3. /\ r' \in DoorReader /\ r'.card = r.card /\ r'.card2 = r.card2 /\ r'.pin = r.pin
          /\ r'.two_factor_timer = t /\ r'.accessMode = r.accessMode
      BY <1>1, <2>1, <2>2 DEF DoorReader
    <2>4. TypeOK'
      BY <1>1, <1>2, <1>3, <2>1, <2>3 DEF TypeOK
    <2>5. \A a \in Age : r.two_factor_timer > 0 /\ a + r.two_factor_timer <= TWO_FACTOR_TIME
                        => t > 0 /\ Aged(a) + t <= TWO_FACTOR_TIME /\ Aged(a) < TWO_FACTOR_TIME
      BY <1>1, <1>5, AgedType, ReaderAssumption DEF t, Age
    <2>6. r.two_factor_timer = 0 => t = 0
      BY DEF t
    <2>7. FactorsAreFresh'
      BY <1>1, <1>2, <2>3, <2>5, <2>6 DEF FactorsAreFresh, HasCard, HasPin
    <2>8. QED
      BY <2>4, <2>7 DEF AuthInv
  <1>6. QED
    BY <1>4, <1>5

(* A card that is kept is the one just presented; a PIN that is kept has   *)
(* the timer it had before.                                                *)
LEMMA CardKeepsInv ==
  ASSUME AuthInv, PollCard
  PROVE  AuthInv'
  <1>1. /\ TypeOK /\ FactorsAreFresh /\ Ready(r)
        /\ r \in DoorReader /\ r.two_factor_timer \in 0 .. TWO_FACTOR_TIME
    BY InvReady DEF AuthInv, TypeOK, DoorReader
  <1>2. PICK c \in Card : /\ r' = process_card(r, c).r
                          /\ granted' = process_card(r, c).mask
                          /\ seen' = [seen EXCEPT !.card = c, !.cardAge = 0]
    BY Zenon DEF PollCard, Conclude
  <1> DEFINE x == [r EXCEPT !.card = c]
             v == process_card(r, c)
  <1>3. /\ x.accessMode = r.accessMode /\ x.card = c /\ x.pin = r.pin
        /\ x.two_factor_timer = r.two_factor_timer
        /\ v.mask \in SUBSET (0 .. 31)
        /\ \/ Forgot(v.r, r)
           \/ Waits(v.r, x) /\ v.mask = {}
    BY <1>1, CardCases
  <1> HIDE DEF x, v
  <1>4. r' = v.r /\ granted' = v.mask
    BY <1>2 DEF v
  <1>5. pin_buf' = <<>> /\ phase' = "timer" /\ now' = now
    BY DEF PollCard
  <1>6. 0 \in Age /\ <<>> \in Seq(Digit) /\ Len(<<>>) <= PIN_BUF_LEN
    BY ReaderAssumption DEF Age
  <1>7. /\ seen' \in [card : Card \cup {NoCard}, cardAge : Age, pin : Seq(Digit), pinAge : Age]
        /\ seen'.card = c /\ seen'.pin = seen.pin
        /\ seen'.cardAge = 0 /\ seen'.pinAge = seen.pinAge
    BY <1>1, <1>2, <1>6 DEF TypeOK
  <1>8. CASE Forgot(v.r, r)
    <2>1. TypeOK'
      BY <1>1, <1>3, <1>4, <1>5, <1>6, <1>7, <1>8, ForgotIsFresh DEF TypeOK
    <2>2. FactorsAreFresh'
      BY <1>4, <1>8, ForgotIsFresh DEF FactorsAreFresh
    <2>3. QED
      BY <2>1, <2>2 DEF AuthInv
  <1>9. CASE Waits(v.r, x)
    <2>1. /\ r' \in DoorReader /\ r'.card2 = NoCard /\ r'.card = c /\ r'.pin = r.pin
          /\ r'.accessMode = r.accessMode /\ r.accessMode \in TwoFactorModes
          /\ r'.two_factor_timer = IF r.two_factor_timer = 0
                                   THEN TWO_FACTOR_TIME ELSE r.two_factor_timer
      BY <1>3, <1>4, <1>9 DEF Waits
    <2>2. TypeOK'
      BY <1>1, <1>3, <1>4, <1>5, <1>6, <1>7, <2>1 DEF TypeOK
    <2>3. r'.two_factor_timer > 0 /\ r'.two_factor_timer <= TWO_FACTOR_TIME
      BY <1>1, <2>1, ReaderAssumption
    <2>4. r'.accessMode \notin OneFactorModes
      BY <1>1, <2>1, Switch
    <2>5. FactorsAreFresh'
      BY <1>1, <1>7, <2>1, <2>3, <2>4, ReaderAssumption
      DEF FactorsAreFresh, HasCard, HasPin, OneFactorModes
    <2>6. QED
      BY <2>2, <2>5 DEF AuthInv
  <1>10. QED
    BY <1>3, <1>8, <1>9

(* The same for a PIN. *)
LEMMA PinKeepsInv ==
  ASSUME AuthInv, KeyDone
  PROVE  AuthInv'
  <1>1. /\ TypeOK /\ FactorsAreFresh /\ Ready(r) /\ pin_buf \in Seq(Digit)
        /\ r \in DoorReader /\ r.two_factor_timer \in 0 .. TWO_FACTOR_TIME
    BY InvReady DEF AuthInv, TypeOK, DoorReader
  <1> DEFINE x == [r EXCEPT !.pin = pin_buf]
             v == process_pin(r, pin_buf)
  <1>2. /\ x.accessMode = r.accessMode /\ x.card = r.card /\ x.pin = pin_buf
        /\ x.two_factor_timer = r.two_factor_timer
        /\ v.mask \in SUBSET (0 .. 31)
        /\ \/ Forgot(v.r, r)
           \/ Waits(v.r, x) /\ v.mask = {} /\ Len(pin_buf) <= MAX_PIN_LEN
    BY <1>1, PinCases
  <1> HIDE DEF x, v
  <1>3. r' = v.r /\ granted' = v.mask
    BY DEF KeyDone, Conclude, v
  <1>4. pin_buf' = <<>> /\ phase' = "keys" /\ now' = now
    BY DEF KeyDone, Keys
  <1>5. 0 \in Age /\ <<>> \in Seq(Digit) /\ Len(<<>>) <= PIN_BUF_LEN
    BY ReaderAssumption DEF Age
  <1>6. /\ seen' \in [card : Card \cup {NoCard}, cardAge : Age, pin : Seq(Digit), pinAge : Age]
        /\ seen'.card = seen.card /\ seen'.pin = pin_buf
        /\ seen'.cardAge = seen.cardAge /\ seen'.pinAge = 0
    BY <1>1, <1>5 DEF TypeOK, KeyDone
  <1>7. CASE Forgot(v.r, r)
    <2>1. TypeOK'
      BY <1>1, <1>2, <1>3, <1>4, <1>5, <1>6, <1>7, ForgotIsFresh DEF TypeOK
    <2>2. FactorsAreFresh'
      BY <1>3, <1>7, ForgotIsFresh DEF FactorsAreFresh
    <2>3. QED
      BY <2>1, <2>2 DEF AuthInv
  <1>8. CASE Waits(v.r, x) /\ Len(pin_buf) <= MAX_PIN_LEN
    <2>1. /\ r' \in DoorReader /\ r'.card2 = NoCard /\ r'.card = r.card
          /\ r'.pin = pin_buf /\ Len(r'.pin) <= MAX_PIN_LEN
          /\ r'.accessMode = r.accessMode /\ r.accessMode \in TwoFactorModes
          /\ r'.two_factor_timer = IF r.two_factor_timer = 0
                                   THEN TWO_FACTOR_TIME ELSE r.two_factor_timer
      BY <1>2, <1>3, <1>8 DEF Waits
    <2>2. TypeOK'
      BY <1>1, <1>2, <1>3, <1>4, <1>5, <1>6, <2>1 DEF TypeOK
    <2>3. r'.two_factor_timer > 0 /\ r'.two_factor_timer <= TWO_FACTOR_TIME
      BY <1>1, <2>1, ReaderAssumption
    <2>4. r'.accessMode \notin OneFactorModes
      BY <1>1, <2>1, Switch
    <2>5. FactorsAreFresh'
      BY <1>1, <1>6, <2>1, <2>3, <2>4, ReaderAssumption
      DEF FactorsAreFresh, HasCard, HasPin, OneFactorModes
    <2>6. QED
      BY <2>2, <2>5 DEF AuthInv
  <1>9. QED
    BY <1>2, <1>7, <1>8

(* The buffer that starts over with one digit is a sequence of digits. *)
LEMMA OneKey ==
  ASSUME NEW S, NEW k \in S
  PROVE  <<k>> \in Seq(S) /\ Len(<<k>>) = 1
  OBVIOUS

(* The length of a sequence is a natural number. *)
LEMMA LenNat ==
  ASSUME NEW S, NEW q \in Seq(S)
  PROVE  Len(q) \in Nat
  OBVIOUS

(* A digit moves no factor, unless it does not fit into the buffer. *)
LEMMA DigitKeepsInv ==
  ASSUME AuthInv, KeyDigit
  PROVE  AuthInv'
  <1>1. /\ TypeOK /\ FactorsAreFresh /\ Ready(r) /\ pin_buf \in Seq(Digit)
        /\ Len(pin_buf) \in Nat /\ Len(pin_buf) <= PIN_BUF_LEN
    <2>1. TypeOK /\ FactorsAreFresh
      BY DEF AuthInv
    <2>2. pin_buf \in Seq(Digit) /\ Len(pin_buf) <= PIN_BUF_LEN
      BY <2>1 DEF TypeOK
    <2>3. Len(pin_buf) \in Nat
      BY <2>2, LenNat
    <2>4. QED
      BY <2>1, <2>2, <2>3, InvReady
  <1>2. phase' = "keys" /\ now' = now /\ seen' = seen
    BY DEF KeyDigit, Keys
  <1>3. PICK k \in Digit :
          \/ /\ Len(pin_buf) = PIN_BUF_LEN
             /\ r' = resetDoorAuth(r) /\ granted' = {} /\ pin_buf' = <<k>>
          \/ /\ Len(pin_buf) # PIN_BUF_LEN
             /\ r' = r /\ granted' = {} /\ pin_buf' = Append(pin_buf, k)
    BY DEF KeyDigit, Conclude, process_out_of_buf, Decision
  <1>4. pin_buf' \in Seq(Digit) /\ Len(pin_buf') <= PIN_BUF_LEN
    <2>1. <<k>> \in Seq(Digit) /\ Len(<<k>>) = 1
      BY OneKey
    <2>2. /\ Append(pin_buf, k) \in Seq(Digit)
          /\ Len(Append(pin_buf, k)) = Len(pin_buf) + 1
      BY <1>1
    <2>3. PIN_BUF_LEN \in Nat /\ PIN_BUF_LEN >= 1
      BY ReaderAssumption
    <2>4. pin_buf' = <<k>> \/ (Len(pin_buf) # PIN_BUF_LEN /\ pin_buf' = Append(pin_buf, k))
      BY <1>3
    <2>5. CASE pin_buf' = <<k>>
      BY <2>1, <2>3, <2>5
    <2>6. CASE Len(pin_buf) # PIN_BUF_LEN /\ pin_buf' = Append(pin_buf, k)
      BY <1>1, <2>2, <2>3, <2>6
    <2>7. QED
      BY <2>4, <2>5, <2>6
  <1>5. CASE r' = r
    <2>1. TypeOK'
      BY <1>1, <1>2, <1>3, <1>4, <1>5 DEF TypeOK
    <2>2. FactorsAreFresh'
      BY <1>1, <1>2, <1>5 DEF FactorsAreFresh, HasCard, HasPin
    <2>3. QED
      BY <2>1, <2>2 DEF AuthInv
  <1>6. CASE r' = resetDoorAuth(r)
    <2>1. Forgot(r', r)
      BY <1>1, <1>6, ResetFields DEF Forgot, Ready
    <2>2. TypeOK'
      BY <1>1, <1>2, <1>3, <1>4, <2>1, ForgotIsFresh DEF TypeOK
    <2>3. FactorsAreFresh'
      BY <2>1, ForgotIsFresh DEF FactorsAreFresh
    <2>4. QED
      BY <2>2, <2>3 DEF AuthInv
  <1>7. QED
    BY <1>3, <1>5, <1>6

(* Every step keeps the invariant. *)
LEMMA AuthNext ==
  ASSUME AuthInv, [Next]_vars
  PROVE  AuthInv'
  <1>1. TypeOK /\ FactorsAreFresh
    BY DEF AuthInv
  <1>2. CASE /\ r' = r /\ seen' = seen /\ now' = now /\ granted' \in {{}, granted}
             /\ pin_buf' \in {<<>>, pin_buf} /\ phase' \in {"timer", "keys", phase}
    <2>1. <<>> \in Seq(Digit) /\ Len(<<>>) <= PIN_BUF_LEN
      BY ReaderAssumption
    <2>2. TypeOK'
      BY <1>1, <1>2, <2>1 DEF TypeOK
    <2>3. FactorsAreFresh'
      BY <1>1, <1>2 DEF FactorsAreFresh, HasCard, HasPin
    <2>4. QED
      BY <2>2, <2>3 DEF AuthInv
  <1>3. CASE PollShortCard
    BY <1>2, <1>3 DEF PollShortCard
  <1>4. CASE KeyClear
    BY <1>2, <1>4 DEF KeyClear, Keys
  <1>5. CASE PollDone
    BY <1>2, <1>5 DEF PollDone
  <1>6. CASE UNCHANGED vars
    BY <1>2, <1>6 DEF vars
  <1>7. QED
    BY <1>3, <1>4, <1>5, <1>6, TimerKeepsInv, CardKeepsInv, PinKeepsInv, DigitKeepsInv
    DEF Next

(* Types and the freshness of the factors hold in every reachable state,   *)
(* for every users database and every length of the timers and buffers.    *)
THEOREM ReaderTypeCorrect == Spec => []TypeOK
  <1>1. AuthInv => TypeOK
    BY DEF AuthInv
  <1>2. QED
    BY <1>1, AuthInit, AuthNext, PTL DEF Spec

(* A factor that process_user_info still holds is the last one presented   *)
(* and no older than the two-factor time.                                  *)
THEOREM FactorsStayFresh == Spec => []FactorsAreFresh
  <1>1. AuthInv => FactorsAreFresh
    BY DEF AuthInv
  <1>2. QED
    BY <1>1, AuthInit, AuthNext, PTL DEF Spec

-----------------------------------------------------------------------------
(* Grants *)

(* What a query returned, some row that was found and accepted allows.     *)
LEMMA GrantingRow ==
  ASSUME NEW pin, NEW card, NEW mode, NEW t,
         NEW b \in getAccessMask2(pin, card, mode, t)
  PROVE  \E row \in Rows : /\ row.subdoor = b
                           /\ Selected(row, pin, card, mode)
                           /\ Accepted(row, pin, mode, t)
  BY DEF getAccessMask2

(* The six numbers once more, for the conditions on the mode.              *)
LEMMA ModesDiffer ==
  /\ MODE_CARD = 1 /\ MODE_PIN = 2 /\ MODE_CARD_OR_PIN = 16
  /\ MODE_CARD_AND_PIN = 32 /\ MODE_CARD_AND_PIN_ALWAYS = 48 /\ MODE_TWO_CARDS = 64
  BY DEF MODE_CARD, MODE_PIN, MODE_CARD_OR_PIN, MODE_CARD_AND_PIN,
     MODE_CARD_AND_PIN_ALWAYS, MODE_TWO_CARDS

(* What is granted after a card was presented.                             *)
LEMMA CardGrants ==
  ASSUME AuthInv, PollCard, NEW b \in granted'
  PROVE  \E row \in Rows : row.subdoor = b /\ Entitled(row)
  <1>1. /\ TypeOK /\ FactorsAreFresh /\ Ready(r) /\ r \in DoorReader
        /\ r.two_factor_timer \in 0 .. TWO_FACTOR_TIME /\ seen.pinAge \in Age
    BY InvReady DEF AuthInv, TypeOK, DoorReader
  <1>2. PICK c \in Card : /\ r' = process_card(r, c).r
                          /\ granted' = process_card(r, c).mask
                          /\ seen' = [seen EXCEPT !.card = c, !.cardAge = 0]
    BY Zenon DEF PollCard, Conclude
  <1> DEFINE x == [r EXCEPT !.card = c]
  <1>3. /\ x \in DoorReader /\ x.accessMode = r.accessMode /\ x.card = c /\ x.pin = r.pin
        /\ b \in decide(x).mask
    BY <1>1, <1>2, CardCases
  <1>4. /\ seen'.card = c /\ seen'.cardAge = 0
        /\ seen'.pin = seen.pin /\ seen'.pinAge = seen.pinAge
    BY <1>1, <1>2 DEF TypeOK
  <1>5. HasCard(x) /\ 0 <= TWO_FACTOR_TIME - 1
    BY <1>3, UserDbAssumption, ReaderAssumption DEF HasCard
  <1>6. HasPin(x) => x.pin = seen.pin /\ seen.pinAge <= TWO_FACTOR_TIME - 1
    BY <1>1, <1>3, ReaderAssumption DEF FactorsAreFresh, HasPin, Age
  <1> HIDE DEF x
  <1>7. CASE x.accessMode \in OneFactorModes
    <2>1. b \in one_factor(x).mask
      BY <1>3, <1>7, Switch
    <2>2. ~HasPin(x)
      BY <1>1, <1>3, <1>7 DEF FactorsAreFresh, HasPin, OneFactorModes
    <2>3. b \in Access(x, MODE_CARD) /\ x.accessMode \in {MODE_CARD, MODE_CARD_OR_PIN}
      BY <1>5, <2>1, <2>2 DEF one_factor, Decision
    <2>4. PICK row \in Rows : /\ row.subdoor = b /\ Selected(row, x.pin, x.card, MODE_CARD)
                              /\ Accepted(row, x.pin, MODE_CARD, now)
      BY <2>3, GrantingRow DEF Access
    <2>5. row.card = c /\ now <= row.expire
      BY <1>3, <2>4, ModesDiffer DEF Selected, Accepted
    <2>6. ShownCard(row, 0)
      BY <1>4, <2>5 DEF ShownCard
    <2>7. Entitled(row)
      BY <1>3, <2>3, <2>5, <2>6, ModesDiffer DEF Entitled
    <2>8. QED
      BY <2>4, <2>7
  <1>8. CASE x.accessMode \in PinModes
    <2>1. b \in card_and_pin(x).mask
      BY <1>3, <1>8, Switch
    <2>2. \/ HasPin(x) /\ b \in Access(x, MODE_CARD_AND_PIN_ALWAYS)
          \/ x.accessMode = MODE_CARD_AND_PIN /\ b \in Access(x, MODE_CARD_AND_PIN)
      BY <2>1 DEF card_and_pin, Decision
    <2>3. CASE HasPin(x) /\ b \in Access(x, MODE_CARD_AND_PIN_ALWAYS)
      <3>1. PICK row \in Rows :
              /\ row.subdoor = b /\ Selected(row, x.pin, x.card, MODE_CARD_AND_PIN_ALWAYS)
              /\ Accepted(row, x.pin, MODE_CARD_AND_PIN_ALWAYS, now)
        BY <2>3, GrantingRow DEF Access
      <3>2. row.card = c /\ now <= row.expire /\ row.pin = seen.pin
        BY <1>3, <1>6, <2>3, <3>1, ModesDiffer DEF Selected, Accepted
      <3>3. ShownCard(row, TWO_FACTOR_TIME - 1) /\ ShownPin(row, TWO_FACTOR_TIME - 1)
        BY <1>4, <1>5, <1>6, <2>3, <3>2 DEF ShownCard, ShownPin
      <3>4. Entitled(row)
        BY <1>3, <1>8, <3>2, <3>3, ModesDiffer DEF Entitled, PinModes
      <3>5. QED
        BY <3>1, <3>4
    <2>4. CASE x.accessMode = MODE_CARD_AND_PIN /\ b \in Access(x, MODE_CARD_AND_PIN)
      <3>1. PICK row \in Rows :
              /\ row.subdoor = b /\ Selected(row, x.pin, x.card, MODE_CARD_AND_PIN)
              /\ Accepted(row, x.pin, MODE_CARD_AND_PIN, now)
        BY <2>4, GrantingRow DEF Access
      <3>2. /\ row.card = c /\ now <= row.expire
            /\ row.pin = <<>> \/ row.allow_no_pin
        BY <1>3, <3>1, ModesDiffer DEF Selected, Accepted
      <3>3. ShownCard(row, TWO_FACTOR_TIME - 1)
        BY <1>4, <1>5, <3>2 DEF ShownCard
      <3>4. Entitled(row)
        BY <1>3, <2>4, <3>2, <3>3, ModesDiffer DEF Entitled
      <3>5. QED
        BY <3>1, <3>4
    <2>5. QED
      BY <2>2, <2>3, <2>4
  <1>9. CASE x.accessMode = MODE_TWO_CARDS
    BY <1>3, <1>9, Switch DEF two_cards, Decision, checkKeyAccess2
  <1>10. QED
    BY <1>3, <1>7, <1>8, <1>9, Switch DEF TwoFactorModes

(* What is granted after a PIN was entered.                                *)
LEMMA PinGrants ==
  ASSUME AuthInv, KeyDone, NEW b \in granted'
  PROVE  \E row \in Rows : row.subdoor = b /\ Entitled(row)
  <1>1. /\ TypeOK /\ FactorsAreFresh /\ Ready(r) /\ pin_buf \in Seq(Digit)
        /\ r \in DoorReader /\ r.two_factor_timer \in 0 .. TWO_FACTOR_TIME
        /\ seen.cardAge \in Age
    BY InvReady DEF AuthInv, TypeOK, DoorReader
  <1> DEFINE x == [r EXCEPT !.pin = pin_buf]
  <1>2. granted' = process_pin(r, pin_buf).mask
    BY DEF KeyDone, Conclude
  <1>3. /\ x \in DoorReader /\ x.accessMode = r.accessMode /\ x.card = r.card
        /\ x.pin = pin_buf /\ b \in decide(x).mask
    BY <1>1, <1>2, PinCases
  <1>4. /\ seen'.card = seen.card /\ seen'.cardAge = seen.cardAge
        /\ seen'.pin = pin_buf /\ seen'.pinAge = 0
    BY <1>1 DEF TypeOK, KeyDone
  <1>5. HasCard(x) => x.card = seen.card /\ seen.cardAge <= TWO_FACTOR_TIME - 1
    BY <1>1, <1>3, ReaderAssumption DEF FactorsAreFresh, HasCard, Age
  <1>6. 0 <= TWO_FACTOR_TIME - 1
    BY ReaderAssumption
  <1> HIDE DEF x
  <1>7. CASE x.accessMode \in OneFactorModes
    <2>1. b \in one_factor(x).mask
      BY <1>3, <1>7, Switch
    <2>2. ~HasCard(x)
      BY <1>1, <1>3, <1>7 DEF FactorsAreFresh, HasCard, OneFactorModes
    <2>3. b \in Access(x, MODE_PIN) /\ x.accessMode \in {MODE_PIN, MODE_CARD_OR_PIN}
      BY <2>1, <2>2 DEF one_factor, Decision
    <2>4. PICK row \in Rows : /\ row.subdoor = b /\ Selected(row, x.pin, x.card, MODE_PIN)
                              /\ Accepted(row, x.pin, MODE_PIN, now)
      BY <2>3, GrantingRow DEF Access
    <2>5. row.pin = pin_buf /\ now <= row.expire
      BY <1>3, <2>4, ModesDiffer DEF Selected, Accepted
    <2>6. ShownPin(row, 0)
      BY <1>4, <2>5 DEF ShownPin
    <2>7. Entitled(row)
      BY <1>3, <2>3, <2>5, <2>6, ModesDiffer DEF Entitled
    <2>8. QED
      BY <2>4, <2>7
  <1>8. CASE x.accessMode \in PinModes
    <2>1. b \in card_and_pin(x).mask
      BY <1>3, <1>8, Switch
    <2>2. /\ HasCard(x)
          /\ \/ HasPin(x) /\ b \in Access(x, MODE_CARD_AND_PIN_ALWAYS)
             \/ x.accessMode = MODE_CARD_AND_PIN /\ b \in Access(x, MODE_CARD_AND_PIN)
      BY <2>1 DEF card_and_pin, Decision
    <2>3. CASE b \in Access(x, MODE_CARD_AND_PIN_ALWAYS)
      <3>1. PICK row \in Rows :
              /\ row.subdoor = b /\ Selected(row, x.pin, x.card, MODE_CARD_AND_PIN_ALWAYS)
              /\ Accepted(row, x.pin, MODE_CARD_AND_PIN_ALWAYS, now)
        BY <2>3, GrantingRow DEF Access
      <3>2. row.card = seen.card /\ now <= row.expire /\ row.pin = pin_buf
        BY <1>3, <1>5, <2>2, <3>1, ModesDiffer DEF Selected, Accepted
      <3>3. ShownCard(row, TWO_FACTOR_TIME - 1) /\ ShownPin(row, TWO_FACTOR_TIME - 1)
        BY <1>4, <1>5, <1>6, <2>2, <3>2 DEF ShownCard, ShownPin
      <3>4. Entitled(row)
        BY <1>3, <1>8, <3>2, <3>3, ModesDiffer DEF Entitled, PinModes
      <3>5. QED
        BY <3>1, <3>4
    <2>4. CASE x.accessMode = MODE_CARD_AND_PIN /\ b \in Access(x, MODE_CARD_AND_PIN)
      <3>1. PICK row \in Rows :
              /\ row.subdoor = b /\ Selected(row, x.pin, x.card, MODE_CARD_AND_PIN)
              /\ Accepted(row, x.pin, MODE_CARD_AND_PIN, now)
        BY <2>4, GrantingRow DEF Access
      <3>2. /\ row.card = seen.card /\ now <= row.expire
            /\ row.pin = <<>> \/ row.allow_no_pin
        BY <1>3, <1>5, <2>2, <3>1, ModesDiffer DEF Selected, Accepted
      <3>3. ShownCard(row, TWO_FACTOR_TIME - 1)
        BY <1>4, <1>5, <2>2, <3>2 DEF ShownCard
      <3>4. Entitled(row)
        BY <1>3, <2>4, <3>2, <3>3, ModesDiffer DEF Entitled
      <3>5. QED
        BY <3>1, <3>4
    <2>5. QED
      BY <2>2, <2>3, <2>4
  <1>9. CASE x.accessMode = MODE_TWO_CARDS
    BY <1>3, <1>9, Switch DEF two_cards, Decision, checkKeyAccess2
  <1>10. QED
    BY <1>3, <1>7, <1>8, <1>9, Switch DEF TwoFactorModes

(* The user of a step that grants a sub-door. *)
LEMMA GrantEarned ==
  ASSUME AuthInv, Next
  PROVE  \A b \in granted' : \E row \in Rows : row.subdoor = b /\ Entitled(row)
  <1>1. CASE PollCard
    BY <1>1, CardGrants
  <1>2. CASE KeyDone
    BY <1>2, PinGrants
  <1>3. CASE TwoFactorTimer \/ PollShortCard \/ KeyClear \/ PollDone
    BY <1>3 DEF TwoFactorTimer, PollShortCard, KeyClear, PollDone
  <1>4. CASE KeyDigit
    BY <1>4 DEF KeyDigit, Conclude, process_out_of_buf, Decision
  <1>5. QED
    BY <1>1, <1>2, <1>3, <1>4 DEF Next

(* process_user_info grants a sub-door only to a user of the database who  *)
(* is not expired and all of whose factors the mode asks for were the last *)
(* ones presented at this reader, within the two-factor time.              *)
THEOREM GrantsAreEarned == Spec => GrantNeedsFactors
  <1> DEFINE Earned == \A b \in granted' : \E row \in Rows : row.subdoor = b /\ Entitled(row)
  <1>1. AuthInv /\ [Next]_vars => [Earned]_vars
    BY GrantEarned
  <1>2. QED
    BY <1>1, AuthInit, AuthNext, PTL DEF Spec, GrantNeedsFactors

-----------------------------------------------------------------------------
(* Steps of a larger system, for the modules that compose readers          *)

(* The reader is idle while time passes. *)
LEMMA IdleReader ==
  ASSUME AuthInv, UNCHANGED <<r, pin_buf, phase, granted, seen>>, now' \in 0 .. MaxTime
  PROVE  AuthInv'
  <1>1. TypeOK'
    BY DEF AuthInv, TypeOK
  <1>2. FactorsAreFresh'
    BY DEF AuthInv, FactorsAreFresh, HasCard, HasPin
  <1>3. QED
    BY <1>1, <1>2 DEF AuthInv

(* The reader is initialised again. *)
LEMMA FreshReader ==
  ASSUME AuthInv, now' = now, r' = NewReader(r.accessMode), pin_buf' = <<>>,
         phase' = "timer", granted' = {}, seen' = NotSeen
  PROVE  AuthInv'
  <1>1. <<>> \in Seq(Digit) /\ Len(<<>>) = 0 /\ 0 \in 0 .. TWO_FACTOR_TIME
        /\ TWO_FACTOR_TIME \in Age /\ 0 <= MAX_PIN_LEN /\ 0 <= PIN_BUF_LEN
    BY ReaderAssumption DEF Age
  <1>2. r.accessMode \in AccessModes /\ now \in 0 .. MaxTime
    BY DEF AuthInv, TypeOK, DoorReader
  <1>3. /\ r' \in DoorReader /\ r'.card = NoCard /\ r'.card2 = NoCard
        /\ r'.pin = <<>> /\ r'.two_factor_timer = 0
    BY <1>1, <1>2 DEF NewReader, DoorReader
  <1>4. TypeOK'
    BY <1>1, <1>2, <1>3 DEF NotSeen, TypeOK
  <1>5. FactorsAreFresh'
    BY <1>3 DEF FactorsAreFresh, HasCard, HasPin
  <1>6. QED
    BY <1>4, <1>5 DEF AuthInv
=============================================================================
