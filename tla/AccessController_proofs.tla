----------------------- MODULE AccessController_proofs -----------------------
(***************************************************************************)
(* The whole program, for any users, readers, commands and doors: it       *)
(* implements the remote control with its open grants, which gives it the  *)
(* blocks and the airlock, and every lock it releases goes back to an      *)
(* entitled user, a button, a command or a restart.                        *)
(***************************************************************************)
EXTENDS AccessController, RemoteControl_proofs

(* The theorems of ReaderAuth about each of the two readers.               *)
AP == INSTANCE ReaderAuth_proofs WITH
        Rows <- RowsOf[doorA], AccessModes <- modesA,
        r <- rA, pin_buf <- pinA, phase <- phaseA, granted <- grantA, seen <- seenA
BP == INSTANCE ReaderAuth_proofs WITH
        Rows <- RowsOf[doorB], AccessModes <- modesB,
        r <- rB, pin_buf <- pinB, phase <- phaseB, granted <- grantB, seen <- seenB

ACInv == RCInv /\ AP!AuthInv /\ BP!AuthInv

(* The grants that RemoteControl leaves open are at least those the users  *)
(* database of the door can give.                                          *)
SubdoorsOf(d) == {row.subdoor : row \in RowsOf[d]}
GrantsCover ==
  \A d \in {doorA, doorB} : \A m \in SUBSET SubdoorsOf(d) : m # {} => m \in Grants[d]

-----------------------------------------------------------------------------
(* Reader A *)

(* What the theorems about a reader ask of its constants.                  *)
LEMMA ConstantsA == AP!ReaderAssumption /\ AP!UserDbAssumption
  BY AccessAssumption
  DEF AP!MODE_CARD, AP!MODE_PIN, AP!MODE_CARD_OR_PIN, AP!MODE_CARD_AND_PIN,
      AP!MODE_CARD_AND_PIN_ALWAYS, AP!MODE_TWO_CARDS, AP!UserRow

(* The end of process_user_info, in both instances of the module.          *)
LEMMA SameConclusionA ==
  ASSUME NEW x
  PROVE  A!conclude(x) = AP!conclude(x)
  <1>1. /\ A!MODE_CARD = AP!MODE_CARD /\ A!MODE_PIN = AP!MODE_PIN
        /\ A!MODE_CARD_OR_PIN = AP!MODE_CARD_OR_PIN
        /\ A!MODE_CARD_AND_PIN = AP!MODE_CARD_AND_PIN
        /\ A!MODE_CARD_AND_PIN_ALWAYS = AP!MODE_CARD_AND_PIN_ALWAYS
        /\ A!MODE_TWO_CARDS = AP!MODE_TWO_CARDS
    BY DEF A!MODE_CARD, AP!MODE_CARD, A!MODE_PIN, AP!MODE_PIN,
           A!MODE_CARD_OR_PIN, AP!MODE_CARD_OR_PIN,
           A!MODE_CARD_AND_PIN, AP!MODE_CARD_AND_PIN,
           A!MODE_CARD_AND_PIN_ALWAYS, AP!MODE_CARD_AND_PIN_ALWAYS,
           A!MODE_TWO_CARDS, AP!MODE_TWO_CARDS
  <1>2. ASSUME NEW y
        PROVE  /\ A!HasCard(y) <=> AP!HasCard(y)
               /\ A!HasPin(y) <=> AP!HasPin(y)
               /\ A!StartTimer(y) = AP!StartTimer(y)
               /\ A!StopTimer(y) = AP!StopTimer(y)
               /\ A!resetDoorAuth(y) = AP!resetDoorAuth(y)
    BY DEF A!HasCard, AP!HasCard, A!HasPin, AP!HasPin, A!StartTimer, AP!StartTimer,
           A!StopTimer, AP!StopTimer, A!resetDoorAuth, AP!resetDoorAuth
  <1>3. ASSUME NEW y, NEW m PROVE A!Access(y, m) = AP!Access(y, m)
    BY DEF A!Access, AP!Access, A!getAccessMask2, AP!getAccessMask2,
           A!Selected, AP!Selected, A!Accepted, AP!Accepted, A!MODE_PIN, AP!MODE_PIN,
           A!MODE_CARD_AND_PIN, AP!MODE_CARD_AND_PIN,
           A!MODE_CARD_AND_PIN_ALWAYS, AP!MODE_CARD_AND_PIN_ALWAYS
  <1>4. A!one_factor(x) = AP!one_factor(x)
    BY <1>1, <1>2, <1>3 DEF A!one_factor, AP!one_factor, A!Decision, AP!Decision
  <1>5. A!card_and_pin(x) = AP!card_and_pin(x)
    BY <1>1, <1>2, <1>3 DEF A!card_and_pin, AP!card_and_pin, A!Decision, AP!Decision
  <1>6. A!two_cards(x) = AP!two_cards(x)
    BY <1>1, <1>2, <1>3
    DEF A!two_cards, AP!two_cards, A!Decision, AP!Decision,
        A!checkKeyAccess2, AP!checkKeyAccess2
  <1>7. A!decide(x) = AP!decide(x)
    BY <1>1, <1>4, <1>5, <1>6 DEF A!decide, AP!decide
  <1>8. QED
    BY <1>2, <1>7 DEF A!conclude, AP!conclude, A!Decision, AP!Decision

PollAStep ==
  \/ A!PollCard \/ A!PollShortCard
  \/ A!KeyClear \/ A!KeyDone \/ A!KeyDigit \/ A!PollDone

(* The steps of the reader are steps of its specification.                 *)
LEMMA SameStepsA ==
  /\ A!Init => AP!Init
  /\ PollAStep => AP!Next /\ now' = now
  /\ A!TwoFactorTimer => AP!Next
  /\ \A row : A!Entitled(row) <=> AP!Entitled(row)
  <1>1. \A x : /\ A!resetDoorAuth(x) = AP!resetDoorAuth(x)
               /\ A!HasCard(x) <=> AP!HasCard(x)
               /\ A!HasPin(x) <=> AP!HasPin(x)
    BY DEF A!HasCard, AP!HasCard, A!HasPin, AP!HasPin, A!resetDoorAuth, AP!resetDoorAuth
  <1>2. ASSUME NEW x, NEW c
        PROVE  /\ A!process_card(x, c) = AP!process_card(x, c)
               /\ A!process_pin(x, c) = AP!process_pin(x, c)
               /\ A!process_out_of_buf(x) = AP!process_out_of_buf(x)
    BY <1>1, SameConclusionA
    DEF A!process_card, AP!process_card, A!process_pin, AP!process_pin,
        A!process_out_of_buf, AP!process_out_of_buf, A!Decision, AP!Decision,
        A!MODE_TWO_CARDS, AP!MODE_TWO_CARDS
  <1>3. A!Init => AP!Init
    BY DEF A!Init, AP!Init, A!NewReader, AP!NewReader, A!NotSeen, AP!NotSeen
  <1>4. A!PollCard => AP!PollCard /\ now' = now
    BY <1>2 DEF A!PollCard, AP!PollCard, A!Conclude, AP!Conclude
  <1>5. A!KeyDone => AP!KeyDone /\ now' = now
    BY <1>2 DEF A!KeyDone, AP!KeyDone, A!Keys, AP!Keys, A!Conclude, AP!Conclude
  <1>6. A!KeyDigit => AP!KeyDigit /\ now' = now
    BY <1>2 DEF A!KeyDigit, AP!KeyDigit, A!Keys, AP!Keys, A!Conclude, AP!Conclude
  <1>7. /\ A!PollShortCard => AP!PollShortCard /\ now' = now
        /\ A!KeyClear => AP!KeyClear /\ now' = now
        /\ A!PollDone => AP!PollDone /\ now' = now
    BY DEF A!PollShortCard, AP!PollShortCard, A!KeyClear, AP!KeyClear, A!Keys, AP!Keys,
           A!PollDone, AP!PollDone
  <1>8. A!TwoFactorTimer => AP!TwoFactorTimer
    BY <1>1 DEF A!TwoFactorTimer, AP!TwoFactorTimer, A!Older, AP!Older, A!Aged, AP!Aged
  <1>9. ASSUME NEW row PROVE A!Entitled(row) <=> AP!Entitled(row)
    BY DEF A!Entitled, AP!Entitled, A!ShownCard, AP!ShownCard, A!ShownPin, AP!ShownPin,
           A!MODE_CARD, AP!MODE_CARD, A!MODE_PIN, AP!MODE_PIN,
           A!MODE_CARD_OR_PIN, AP!MODE_CARD_OR_PIN,
           A!MODE_CARD_AND_PIN, AP!MODE_CARD_AND_PIN,
           A!MODE_CARD_AND_PIN_ALWAYS, AP!MODE_CARD_AND_PIN_ALWAYS
  <1>10. QED
    BY <1>3, <1>4, <1>5, <1>6, <1>7, <1>8, <1>9 DEF PollAStep, AP!Next

(* A poll keeps the invariant of the reader, and what it grants belongs to *)
(* an entitled user.                                                       *)
LEMMA PollKeepsA ==
  ASSUME AP!AuthInv, PollAStep
  PROVE  /\ AP!AuthInv'
         /\ grantA' \in SUBSET Bit
         /\ \A b \in grantA' : \E row \in RowsOf[doorA] :
              row.subdoor = b /\ A!Entitled(row)
  <1>1. AP!Next
    BY SameStepsA
  <1>2. AP!AuthInv'
    BY <1>1, ConstantsA, AP!AuthNext
  <1>3. \A b \in grantA' : \E row \in RowsOf[doorA] :
          row.subdoor = b /\ AP!Entitled(row)
    BY <1>1, ConstantsA, AP!GrantEarned
  <1>4. grantA' \in SUBSET Bit
    BY <1>2 DEF AP!AuthInv, AP!TypeOK, Bit
  <1>5. QED
    BY <1>2, <1>3, <1>4, SameStepsA

-----------------------------------------------------------------------------
(* Reader B *)

(* What the theorems about a reader ask of its constants.                  *)
LEMMA ConstantsB == BP!ReaderAssumption /\ BP!UserDbAssumption
  BY AccessAssumption
  DEF BP!MODE_CARD, BP!MODE_PIN, BP!MODE_CARD_OR_PIN, BP!MODE_CARD_AND_PIN,
      BP!MODE_CARD_AND_PIN_ALWAYS, BP!MODE_TWO_CARDS, BP!UserRow

(* The end of process_user_info, in both instances of the module.          *)
LEMMA SameConclusionB ==
  ASSUME NEW x
  PROVE  B!conclude(x) = BP!conclude(x)
  <1>1. /\ B!MODE_CARD = BP!MODE_CARD /\ B!MODE_PIN = BP!MODE_PIN
        /\ B!MODE_CARD_OR_PIN = BP!MODE_CARD_OR_PIN
        /\ B!MODE_CARD_AND_PIN = BP!MODE_CARD_AND_PIN
        /\ B!MODE_CARD_AND_PIN_ALWAYS = BP!MODE_CARD_AND_PIN_ALWAYS
        /\ B!MODE_TWO_CARDS = BP!MODE_TWO_CARDS
    BY DEF B!MODE_CARD, BP!MODE_CARD, B!MODE_PIN, BP!MODE_PIN,
           B!MODE_CARD_OR_PIN, BP!MODE_CARD_OR_PIN,
           B!MODE_CARD_AND_PIN, BP!MODE_CARD_AND_PIN,
           B!MODE_CARD_AND_PIN_ALWAYS, BP!MODE_CARD_AND_PIN_ALWAYS,
           B!MODE_TWO_CARDS, BP!MODE_TWO_CARDS
  <1>2. ASSUME NEW y
        PROVE  /\ B!HasCard(y) <=> BP!HasCard(y)
               /\ B!HasPin(y) <=> BP!HasPin(y)
               /\ B!StartTimer(y) = BP!StartTimer(y)
               /\ B!StopTimer(y) = BP!StopTimer(y)
               /\ B!resetDoorAuth(y) = BP!resetDoorAuth(y)
    BY DEF B!HasCard, BP!HasCard, B!HasPin, BP!HasPin, B!StartTimer, BP!StartTimer,
           B!StopTimer, BP!StopTimer, B!resetDoorAuth, BP!resetDoorAuth
  <1>3. ASSUME NEW y, NEW m PROVE B!Access(y, m) = BP!Access(y, m)
    BY DEF B!Access, BP!Access, B!getAccessMask2, BP!getAccessMask2,
           B!Selected, BP!Selected, B!Accepted, BP!Accepted, B!MODE_PIN, BP!MODE_PIN,
           B!MODE_CARD_AND_PIN, BP!MODE_CARD_AND_PIN,
           B!MODE_CARD_AND_PIN_ALWAYS, BP!MODE_CARD_AND_PIN_ALWAYS
  <1>4. B!one_factor(x) = BP!one_factor(x)
    BY <1>1, <1>2, <1>3 DEF B!one_factor, BP!one_factor, B!Decision, BP!Decision
  <1>5. B!card_and_pin(x) = BP!card_and_pin(x)
    BY <1>1, <1>2, <1>3 DEF B!card_and_pin, BP!card_and_pin, B!Decision, BP!Decision
  <1>6. B!two_cards(x) = BP!two_cards(x)
    BY <1>1, <1>2, <1>3
    DEF B!two_cards, BP!two_cards, B!Decision, BP!Decision,
        B!checkKeyAccess2, BP!checkKeyAccess2
  <1>7. B!decide(x) = BP!decide(x)
    BY <1>1, <1>4, <1>5, <1>6 DEF B!decide, BP!decide
  <1>8. QED
    BY <1>2, <1>7 DEF B!conclude, BP!conclude, B!Decision, BP!Decision

PollBStep ==
  \/ B!PollCard \/ B!PollShortCard
  \/ B!KeyClear \/ B!KeyDone \/ B!KeyDigit \/ B!PollDone

(* The steps of the reader are steps of its specification.                 *)
LEMMA SameStepsB ==
  /\ B!Init => BP!Init
  /\ PollBStep => BP!Next /\ now' = now
  /\ B!TwoFactorTimer => BP!Next
  /\ \A row : B!Entitled(row) <=> BP!Entitled(row)
  <1>1. \A x : /\ B!resetDoorAuth(x) = BP!resetDoorAuth(x)
               /\ B!HasCard(x) <=> BP!HasCard(x)
               /\ B!HasPin(x) <=> BP!HasPin(x)
    BY DEF B!HasCard, BP!HasCard, B!HasPin, BP!HasPin, B!resetDoorAuth, BP!resetDoorAuth
  <1>2. ASSUME NEW x, NEW c
        PROVE  /\ B!process_card(x, c) = BP!process_card(x, c)
               /\ B!process_pin(x, c) = BP!process_pin(x, c)
               /\ B!process_out_of_buf(x) = BP!process_out_of_buf(x)
    BY <1>1, SameConclusionB
    DEF B!process_card, BP!process_card, B!process_pin, BP!process_pin,
        B!process_out_of_buf, BP!process_out_of_buf, B!Decision, BP!Decision,
        B!MODE_TWO_CARDS, BP!MODE_TWO_CARDS
  <1>3. B!Init => BP!Init
    BY DEF B!Init, BP!Init, B!NewReader, BP!NewReader, B!NotSeen, BP!NotSeen
  <1>4. B!PollCard => BP!PollCard /\ now' = now
    BY <1>2 DEF B!PollCard, BP!PollCard, B!Conclude, BP!Conclude
  <1>5. B!KeyDone => BP!KeyDone /\ now' = now
    BY <1>2 DEF B!KeyDone, BP!KeyDone, B!Keys, BP!Keys, B!Conclude, BP!Conclude
  <1>6. B!KeyDigit => BP!KeyDigit /\ now' = now
    BY <1>2 DEF B!KeyDigit, BP!KeyDigit, B!Keys, BP!Keys, B!Conclude, BP!Conclude
  <1>7. /\ B!PollShortCard => BP!PollShortCard /\ now' = now
        /\ B!KeyClear => BP!KeyClear /\ now' = now
        /\ B!PollDone => BP!PollDone /\ now' = now
    BY DEF B!PollShortCard, BP!PollShortCard, B!KeyClear, BP!KeyClear, B!Keys, BP!Keys,
           B!PollDone, BP!PollDone
  <1>8. B!TwoFactorTimer => BP!TwoFactorTimer
    BY <1>1 DEF B!TwoFactorTimer, BP!TwoFactorTimer, B!Older, BP!Older, B!Aged, BP!Aged
  <1>9. ASSUME NEW row PROVE B!Entitled(row) <=> BP!Entitled(row)
    BY DEF B!Entitled, BP!Entitled, B!ShownCard, BP!ShownCard, B!ShownPin, BP!ShownPin,
           B!MODE_CARD, BP!MODE_CARD, B!MODE_PIN, BP!MODE_PIN,
           B!MODE_CARD_OR_PIN, BP!MODE_CARD_OR_PIN,
           B!MODE_CARD_AND_PIN, BP!MODE_CARD_AND_PIN,
           B!MODE_CARD_AND_PIN_ALWAYS, BP!MODE_CARD_AND_PIN_ALWAYS
  <1>10. QED
    BY <1>3, <1>4, <1>5, <1>6, <1>7, <1>8, <1>9 DEF PollBStep, BP!Next

(* A poll keeps the invariant of the reader, and what it grants belongs to *)
(* an entitled user.                                                       *)
LEMMA PollKeepsB ==
  ASSUME BP!AuthInv, PollBStep
  PROVE  /\ BP!AuthInv'
         /\ grantB' \in SUBSET Bit
         /\ \A b \in grantB' : \E row \in RowsOf[doorB] :
              row.subdoor = b /\ B!Entitled(row)
  <1>1. BP!Next
    BY SameStepsB
  <1>2. BP!AuthInv'
    BY <1>1, ConstantsB, BP!AuthNext
  <1>3. \A b \in grantB' : \E row \in RowsOf[doorB] :
          row.subdoor = b /\ BP!Entitled(row)
    BY <1>1, ConstantsB, BP!GrantEarned
  <1>4. grantB' \in SUBSET Bit
    BY <1>2 DEF BP!AuthInv, BP!TypeOK, Bit
  <1>5. QED
    BY <1>2, <1>3, <1>4, SameStepsB

-----------------------------------------------------------------------------
(* The invariant of the composition *)

(* Both readers are initialised, and nothing was decided yet.              *)
LEMMA ACInitInv == ACInit => ACInv
  BY RCInitType, ConstantsA, ConstantsB, SameStepsA, SameStepsB,
     AP!AuthInit, BP!AuthInit
  DEF ACInit, ACInv

(* A reader that takes no part in a step, while time may pass.             *)
LEMMA Idle ==
  ASSUME now' \in 0 .. MaxTime
  PROVE  /\ AP!AuthInv /\ UNCHANGED varsA => AP!AuthInv'
         /\ BP!AuthInv /\ UNCHANGED varsB => BP!AuthInv'
  BY ConstantsA, ConstantsB, AP!IdleReader, BP!IdleReader DEF varsA, varsB

(* The doors make a step of the remote control, or none.                   *)
LEMMA DoorsStep ==
  ASSUME GrantsCover, ACInv, [ACNext]_acvars
  PROVE  [RCNext]_rcvars
  <1>1. CASE Timers
    BY <1>1 DEF Timers, RCNext, Loop, LoopStep
  <1>2. ASSUME NEW m \in SUBSET SubdoorsOf(cur), cur \in {doorA, doorB},
               phase = "readers", Conclusion(m)
        PROVE  [RCNext]_rcvars
    <2>1. CASE m = {}
      BY <1>2, <2>1 DEF Conclusion, rcvars, rest
    <2>2. CASE m # {}
      <3>1. m \in Grants[cur]
        BY <1>2, <2>2 DEF GrantsCover
      <3>2. Grant /\ UNCHANGED rest
        BY <1>2, <2>2, <3>1 DEF Conclusion, Grant, unlock_granted
      <3>3. QED
        BY <3>2 DEF RCNext, Loop, LoopStep
    <2>3. QED
      BY <2>1, <2>2
  <1>3. CASE PollA
    <2>1. PollAStep /\ cur = doorA /\ phase = "readers" /\ Conclusion(grantA')
      BY <1>3 DEF PollA, PollAStep
    <2>2. grantA' \in SUBSET SubdoorsOf(doorA)
      BY <2>1, PollKeepsA DEF ACInv, SubdoorsOf
    <2>3. QED
      BY <1>2, <2>1, <2>2
  <1>4. CASE PollB
    <2>1. PollBStep /\ cur = doorB /\ phase = "readers" /\ Conclusion(grantB')
      BY <1>4 DEF PollB, PollBStep
    <2>2. grantB' \in SUBSET SubdoorsOf(doorB)
      BY <2>1, PollKeepsB DEF ACInv, SubdoorsOf
    <2>3. QED
      BY <1>2, <2>1, <2>2
  <1>5. CASE Rest
    BY <1>5 DEF Rest, RCNext, Loop, LoopStep
  <1>6. CASE PowerCycle
    BY <1>6 DEF PowerCycle, RCNext
  <1>7. CASE UNCHANGED acvars
    BY <1>7 DEF acvars
  <1>8. QED
    BY <1>1, <1>3, <1>4, <1>5, <1>6, <1>7 DEF ACNext

(* The readers keep their invariants in every step.                        *)
LEMMA ReadersStep ==
  ASSUME ACInv, [ACNext]_acvars
  PROVE  AP!AuthInv' /\ BP!AuthInv'
  <1>1. AP!AuthInv /\ BP!AuthInv /\ now \in 0 .. MaxTime
    BY DEF ACInv, AP!AuthInv, AP!TypeOK
  <1>2. CASE Timers
    <2>1. A!TwoFactorTimer => AP!AuthInv'
      BY <1>1, ConstantsA, SameStepsA, AP!AuthNext
    <2>2. B!TwoFactorTimer => BP!AuthInv'
      BY <1>1, ConstantsB, SameStepsB, BP!AuthNext
    <2>3. now' \in 0 .. MaxTime
      BY <1>1, <1>2, <2>1, <2>2
      DEF Timers, AP!AuthInv, AP!TypeOK, BP!AuthInv, BP!TypeOK
    <2>4. QED
      BY <1>1, <1>2, <2>1, <2>2, <2>3, Idle DEF Timers
  <1>3. CASE PollA
    <2>1. PollAStep /\ UNCHANGED varsB
      BY <1>3 DEF PollA, PollAStep
    <2>2. now' = now /\ AP!AuthInv'
      BY <1>1, <2>1, PollKeepsA, SameStepsA
    <2>3. QED
      BY <1>1, <2>1, <2>2, Idle
  <1>4. CASE PollB
    <2>1. PollBStep /\ UNCHANGED varsA
      BY <1>4 DEF PollB, PollBStep
    <2>2. now' = now /\ BP!AuthInv'
      BY <1>1, <2>1, PollKeepsB, SameStepsB
    <2>3. QED
      BY <1>1, <2>1, <2>2, Idle
  <1>5. CASE Rest \/ UNCHANGED acvars
    BY <1>1, <1>5, Idle DEF Rest, acvars
  <1>6. CASE PowerCycle
    <2>1. AP!AuthInv'
      BY <1>1, <1>6, ConstantsA, AP!FreshReader
      DEF PowerCycle, FreshA, A!NewReader, AP!NewReader, A!NotSeen, AP!NotSeen
    <2>2. BP!AuthInv'
      BY <1>1, <1>6, ConstantsB, BP!FreshReader
      DEF PowerCycle, FreshB, B!NewReader, BP!NewReader, B!NotSeen, BP!NotSeen
    <2>3. QED
      BY <2>1, <2>2
  <1>7. QED
    BY <1>2, <1>3, <1>4, <1>5, <1>6 DEF ACNext

(* Every step of the program keeps the invariant.                          *)
LEMMA ACNextInv ==
  ASSUME GrantsCover
  PROVE  ACInv /\ [ACNext]_acvars => ACInv' /\ [RCNext]_rcvars
  BY DoorsStep, ReadersStep, RCNextType DEF ACInv

(* The composition does nothing to the doors that RemoteControl with its   *)
(* open grants does not allow, whatever users, readers and commands there  *)
(* are.                                                                    *)
THEOREM ProgramImplementsRemoteControl ==
  ASSUME GrantsCover
  PROVE  ACSpec => ImplementsRemoteControl
  <1>1. ACInit => RCInit
    BY DEF ACInit
  <1>2. ACInv /\ [ACNext]_acvars => ACInv' /\ [RCNext]_rcvars
    BY ACNextInv
  <1>3. QED
    BY <1>1, <1>2, ACInitInv, PTL DEF ACSpec, RCSpec, ImplementsRemoteControl

(* Hence what is proved of the remote control holds with the readers: no   *)
(* user, button, timer or command moves an output under an administrative  *)
(* block or releases one under the airlock block, and an acknowledged      *)
(* "set" is durable.                                                       *)
THEOREM ProgramKeepsBlocks ==
  ASSUME GrantsCover, DisjointOutputs
  PROVE  ACSpec => AdmFreezes /\ BlockHolds /\ []AckedSetDurable
  BY ProgramImplementsRemoteControl, BlockedOutputsStay, BlockadeIsKept,
     AckedSetIsDurable, PTL
  DEF ImplementsRemoteControl

(* The doors of an airlock with their readers, buttons, sensors, timers,   *)
(* remote commands and crashes: two partners that were visited are never   *)
(* both released.                                                          *)
THEOREM ProgramAirlockSafe ==
  ASSUME GrantsCover, AirlockPairs, DisjointOutputs, NoOverride
  PROVE  ACSpec => []AirlockExclusion
  BY ProgramImplementsRemoteControl, RemoteKeepsAirlock, PTL
  DEF ImplementsRemoteControl

(* And a door that is released, or was seen open, keeps its partner        *)
(* blocked.                                                                *)
THEOREM ProgramBlocksPartner ==
  ASSUME GrantsCover, AirlockPairs, DisjointOutputs, NoOverride
  PROVE  ACSpec => []PartnerBlocked
  BY ProgramImplementsRemoteControl, RemoteKeepsAirlock, PTL
  DEF ImplementsRemoteControl

-----------------------------------------------------------------------------
(* Who releases a lock *)

Releases(s, t, o) == s.output[o] = "lock" /\ t.output[o] = "unlock"

(* unlock_door releases sub-doors of its mask only.                        *)
LEMMA UnlockReleases ==
  ASSUME NEW s \in State, NEW d \in Door, NEW mask \in SUBSET Bit,
         NEW o \in Output, Releases(s, unlock_door(s, d, mask), o)
  PROVE  \E b \in mask : IsSubdoor(o, d, b)
  <1> DEFINE t == unlock_door(s, d, mask)
             m == unlock_mask(s, d, mask)
  <1>1. /\ m = {} => t = s
        /\ m # {} => t.output = set_door_state(s.output, "unlock", m)
    BY UnlockFields
  <1>2. s.output[o] = "lock" /\ t.output[o] = "unlock"
    BY DEF Releases
  <1> HIDE DEF t
  <1>3. o \in m
    <2>1. m # {}
      BY <1>1, <1>2
    <2>2. t.output[o] = IF o \in m THEN "unlock" ELSE s.output[o]
      BY <1>1, <2>1 DEF set_door_state
    <2>3. QED
      BY <1>2, <2>2
  <1>4. o - maskOffset[d] \in mask \cap maskFull[d]
    BY <1>3 DEF unlock_mask, ShiftLeft
  <1>5. o \in Int /\ maskOffset[d] \in Int
    BY DoorAssumption DEF Output, DOOR_OUTPUTS_NUM, Bit
  <1>6. o = maskOffset[d] + (o - maskOffset[d])
    BY <1>5
  <1>7. QED
    BY <1>4, <1>6 DEF IsSubdoor

(* lock_door releases nothing.                                             *)
LEMMA LockReleases ==
  ASSUME NEW s \in State, NEW d \in Door, NEW mask \in SUBSET Bit, NEW o \in Output
  PROVE  ~Releases(s, lock_door(s, d, mask), o)
  <1> DEFINE t == lock_door(s, d, mask)
             m == lock_mask(s, d, mask)
  <1>1. /\ m = {} => t = s
        /\ m # {} => t.output = set_door_state(s.output, "lock", m)
    BY LockFields
  <1> HIDE DEF t, m
  <1>2. t.output = s.output
          \/ t.output[o] = IF o \in m THEN "lock" ELSE s.output[o]
    BY <1>1 DEF set_door_state
  <1>3. ~Releases(s, t, o)
    BY <1>2 DEF Releases
  <1>4. QED
    BY <1>3 DEF t

(* The close-door timer releases nothing.                                  *)
LEMMA TimerReleases ==
  ASSUME NEW s \in State, NEW d \in Door, NEW o \in Output
  PROVE  ~Releases(s, door_timer(s, d), o)
  <1> DEFINE c == [s EXCEPT !.door_lock_timer[d] = s.door_lock_timer[d] - 1]
             t == door_timer(s, d)
  <1>1. CASE s.door_lock_timer[d] = 0
    <2>1. t = s
      BY <1>1, TimerFields
    <2>2. QED
      BY <2>1 DEF Releases
  <1>2. CASE s.door_lock_timer[d] # 0
    <2>1. /\ c \in State /\ c.output = s.output
          /\ t = c \/ t = lock_door(c, d, maskFull[d])
      BY <1>2, TimerFields
    <2>2. maskFull[d] \in SUBSET Bit
      BY DoorAssumption
    <2> HIDE DEF c, t
    <2>3. ~Releases(c, t, o)
      BY <2>1, <2>2, LockReleases DEF Releases
    <2>4. ~Releases(s, t, o)
      BY <2>1, <2>3 DEF Releases
    <2>5. QED
      BY <2>4 DEF t
  <1>3. QED
    BY <1>1, <1>2

(* check_inputs releases the first sub-door, if the button is pressed.     *)
LEMMA ButtonReleases ==
  ASSUME NEW s \in State, NEW d \in Door, NEW input \in SUBSET InputBit,
         NEW o \in Output, Releases(s, check_input(s, d, input), o)
  PROVE  /\ IsSubdoor(o, d, 0)
         /\ DI_MANUAL_OPEN \in check_input(s, d, input).lastInput[d]
  <1>1. {0} \in SUBSET Bit
    BY DEF Bit
  <1>2. Releases(s, unlock_door(s, d, {0}), o)
    BY CheckReleases DEF Releases
  <1>3. \E b \in {0} : IsSubdoor(o, d, b)
    BY <1>1, <1>2, UnlockReleases
  <1>4. check_input(s, d, input).lastInput[d] = input
    <2>1. s.lastInput \in [Door -> SUBSET InputBit]
      BY DEF State
    <2>2. check_input(s, d, input).lastInput = [s.lastInput EXCEPT ![d] = input]
      BY CheckFields
    <2>3. QED
      BY <2>1, <2>2
  <1>5. DI_MANUAL_OPEN \in input
    <2> DEFINE diff == InputDiff(s, d, input)
               m == manual_open(s, d, input)
               e == emergency_open(m, d, diff, input)
               c == door_close(e, d, diff, input)
    <2> SUFFICES ASSUME DI_MANUAL_OPEN \notin input PROVE FALSE
      OBVIOUS
    <2>1. m = s
      BY DEF manual_open
    <2>2. m \in State /\ e \in State
      BY HandlerFields
    <2>3. Bit \in SUBSET Bit /\ {} \in SUBSET Bit
      OBVIOUS
    <2>4. e.output = m.output
      BY <2>2, <2>3, AirLockFields DEF emergency_open
    <2>5. c.output = e.output
      BY <2>2, <2>3, AirLockFields DEF door_close
    <2>6. check_input(s, d, input).output = c.output
      BY CheckFields
    <2>7. QED
      BY <2>1, <2>4, <2>5, <2>6 DEF Releases
  <1>6. QED
    BY <1>3, <1>4, <1>5

(* A step of the doors that releases a lock was granted, or the button or  *)
(* a command made it, or it is a restart.                                  *)
LEMMA CommandReleases ==
  ASSUME RCInv, NEW c \in Commands, NEW o \in Output, Releases(st, st', o),
         Set(c) \/ Unset(c) \/ DoUnlock(c) \/ DoLock(c) \/ DoBlock(c) \/ NoEffect(c)
  PROVE  CommandFor(o)
  <1>1. st \in State
    BY DEF RCInv, RCTypeOK
  <1>2. CASE Set(c)
    <2>1. c.door \in Polled /\ c.arg1 \in Mode /\ st' = set_door(st, c)
      BY <1>2 DEF Set
    <2>2. c \in Command /\ c.door \in Door /\ c.arg2 \in SUBSET Bit
      BY <2>1, CommandType
    <2> DEFINE z == [st EXCEPT !.admDisableMask[c.door] = {},
                               !.airLockMask[c.door] = {}]
               w == IF c.arg1 = "unlock" THEN unlock_door(z, c.door, c.arg2)
                                         ELSE lock_door(z, c.door, c.arg2)
    <2>3. z \in State /\ z.output = st.output
      BY <1>1, <2>2 DEF State
    <2>4. w \in State
      BY <2>2, <2>3, UnlockFields, LockFields
    <2>5. set_door(st, c) = [w EXCEPT !.admDisableMask[c.door] = c.arg2]
      BY DEF set_door
    <2> HIDE DEF w
    <2>6. set_door(st, c).output = w.output
      BY <2>2, <2>4, <2>5, MaskFields
    <2>7. Releases(z, w, o)
      BY <2>1, <2>3, <2>6 DEF Releases
    <2> HIDE DEF z
    <2>8. c.arg1 = "unlock"
      BY <2>2, <2>3, <2>7, LockReleases DEF w
    <2>9. \E b \in c.arg2 : IsSubdoor(o, c.door, b)
      BY <2>2, <2>3, <2>7, <2>8, UnlockReleases DEF w
    <2>10. QED
      BY <1>2, <2>8, <2>9 DEF CommandFor
  <1>3. CASE Unset(c)
    <2>1. /\ c.door \in Polled
          /\ \/ st' = signalDoorStatus([st EXCEPT !.admDisableMask[c.door] = {}],
                                       c.door)
             \/ st' = st
      BY <1>3 DEF Unset
    <2>2. c.door \in Door /\ {} \in SUBSET Bit
      BY <2>1, CommandType
    <2> DEFINE free == [st EXCEPT !.admDisableMask[c.door] = {}]
    <2>3. free \in State /\ free.output = st.output
      BY <1>1, <2>2, MaskFields
    <2>4. st' = signalDoorStatus(free, c.door) \/ st' = st
      BY <2>1
    <2> HIDE DEF free
    <2>5. signalDoorStatus(free, c.door).output = free.output
      BY <2>2, <2>3, SignalFields
    <2>6. QED
      BY <2>3, <2>4, <2>5 DEF Releases
  <1>4. CASE DoUnlock(c)
    <2>1. /\ c.door \in Polled /\ c.arg1 = "unlock"
          /\ st' = st \/ st' = signalDoorStatus(unlock_door(st, c.door, c.arg2), c.door)
      BY <1>4 DEF DoUnlock
    <2>2. c.door \in Door /\ c.arg2 \in SUBSET Bit
      BY <2>1, CommandType
    <2>3. unlock_door(st, c.door, c.arg2) \in State
      BY <1>1, <2>2, UnlockFields
    <2>4. signalDoorStatus(unlock_door(st, c.door, c.arg2), c.door).output
            = unlock_door(st, c.door, c.arg2).output
      BY <2>2, <2>3, SignalFields
    <2>5. Releases(st, unlock_door(st, c.door, c.arg2), o)
      BY <2>1, <2>4 DEF Releases
    <2>6. \E b \in c.arg2 : IsSubdoor(o, c.door, b)
      BY <1>1, <2>2, <2>5, UnlockReleases
    <2>7. QED
      BY <1>4, <2>1, <2>6 DEF CommandFor
  <1>5. CASE DoLock(c)
    <2>1. /\ c.door \in Polled
          /\ st' = st \/ st' = signalDoorStatus(lock_door(st, c.door, c.arg2), c.door)
      BY <1>5 DEF DoLock
    <2>2. c.door \in Door /\ c.arg2 \in SUBSET Bit
      BY <2>1, CommandType
    <2>3. lock_door(st, c.door, c.arg2) \in State
      BY <1>1, <2>2, LockFields
    <2>4. signalDoorStatus(lock_door(st, c.door, c.arg2), c.door).output
            = lock_door(st, c.door, c.arg2).output
      BY <2>2, <2>3, SignalFields
    <2>5. Releases(st, lock_door(st, c.door, c.arg2), o)
      BY <2>1, <2>4 DEF Releases
    <2>6. QED
      BY <1>1, <2>2, <2>5, LockReleases
  <1>6. CASE DoBlock(c)
    <2>1. st' = [st EXCEPT !.airLockMask[c.door] =
                   IF c.arg1 = "block" THEN st.airLockMask[c.door] \cup c.arg2
                   ELSE st.airLockMask[c.door] \ c.arg2]
      BY <1>6 DEF DoBlock
    <2>2. st'.output = st.output
      BY <1>1, <2>1 DEF State
    <2>3. QED
      BY <2>2 DEF Releases
  <1>7. CASE NoEffect(c)
    BY <1>7 DEF NoEffect, Releases
  <1>8. QED
    BY <1>2, <1>3, <1>4, <1>5, <1>6, <1>7

(* The reads of the input lines that failed are excluded.                  *)
NoFailedRead == phase # "inputFailed"

LEMMA ReadsSucceed ==
  ASSUME GpioMayFail = FALSE
  PROVE  /\ ACInit => NoFailedRead
         /\ NoFailedRead /\ [ACNext]_acvars => NoFailedRead'
  <1>1. ACInit => NoFailedRead
    BY DEF ACInit, RCInit, Init, LoopStart, NoFailedRead
  <1>2. ASSUME NoFailedRead, [RCNext]_rcvars PROVE NoFailedRead'
    BY <1>2
    DEF RCNext, Loop, LoopStep, DoorTimer, Grant, NextDoor, ReadInputs, CheckInput,
        NoDatagram, LoopStart, check_network, Set, Unset, DoUnlock, DoLock, DoBlock,
        NoEffect, Answered, SetDelete, SetInsert, Restart, rcvars, NoFailedRead
  <1>3. ASSUME NoFailedRead, [ACNext]_acvars PROVE NoFailedRead'
    <2>1. CASE PollA \/ PollB
      BY <1>3, <2>1 DEF PollA, PollB, Conclusion, NoFailedRead
    <2>2. CASE ~(PollA \/ PollB)
      <3>1. [RCNext]_rcvars
        BY <1>3, <2>2
        DEF ACNext, Timers, Rest, PowerCycle, RCNext, Loop, LoopStep, acvars
      <3>2. QED
        BY <1>2, <1>3, <3>1
    <2>3. QED
      BY <2>1, <2>2
  <1>4. QED
    BY <1>1, <1>3

(* Every step that releases a lock.                                        *)
LEMMA StepAuthorised ==
  ASSUME ACInv, NoFailedRead, ACNext, NEW o \in Output, Releases(st, st', o)
  PROVE  UserAt(o) \/ ButtonAt(o) \/ CommandFor(o) \/ Restart
  <1>1. st \in State /\ cur \in Door /\ RCInv
    BY DEF ACInv, RCInv, RCTypeOK
  <1>2. CASE DoorTimer
    BY <1>1, <1>2, TimerReleases DEF DoorTimer
  <1>3. ASSUME NEW m \in SUBSET Bit, Conclusion(m)
        PROVE  \E b \in m : IsSubdoor(o, cur, b)
    <2>1. st' = unlock_door(st, cur, m)
      BY <1>3 DEF Conclusion, unlock_granted, Releases
    <2>2. QED
      BY <1>1, <2>1, UnlockReleases
  <1>4. CASE PollA
    <2>1. PollAStep /\ cur = doorA /\ phase = "readers" /\ Conclusion(grantA')
      BY <1>4 DEF PollA, PollAStep
    <2>2. /\ grantA' \in SUBSET Bit
          /\ \A b \in grantA' : \E row \in RowsOf[doorA] :
               row.subdoor = b /\ A!Entitled(row)
      BY <2>1, PollKeepsA DEF ACInv
    <2>3. PICK b \in grantA' : IsSubdoor(o, doorA, b)
      BY <1>3, <2>1, <2>2
    <2>4. QED
      BY <2>1, <2>2, <2>3 DEF UserAt
  <1>5. CASE PollB
    <2>1. PollBStep /\ cur = doorB /\ phase = "readers" /\ Conclusion(grantB')
      BY <1>5 DEF PollB, PollBStep
    <2>2. /\ grantB' \in SUBSET Bit
          /\ \A b \in grantB' : \E row \in RowsOf[doorB] :
               row.subdoor = b /\ B!Entitled(row)
      BY <2>1, PollKeepsB DEF ACInv
    <2>3. PICK b \in grantB' : IsSubdoor(o, doorB, b)
      BY <1>3, <2>1, <2>2
    <2>4. QED
      BY <2>1, <2>2, <2>3 DEF UserAt
  <1>6. CASE NextDoor \/ ReadInputs \/ NoDatagram
    BY <1>6 DEF NextDoor, ReadInputs, NoDatagram, Releases
  <1>7. CASE CheckInput
    <2>1. phase = "input"
      BY <1>7 DEF CheckInput, NoFailedRead
    <2>2. PICK i \in get_input_state(cur, phase = "inputFailed", Inputs) :
            st' = check_input(st, cur, i)
      BY <1>7 DEF CheckInput
    <2>3. i \in SUBSET InputBit
      BY ControllerAssumption DEF get_input_state
    <2>4. IsSubdoor(o, cur, 0) /\ DI_MANUAL_OPEN \in st'.lastInput[cur]
      BY <1>1, <2>2, <2>3, ButtonReleases
    <2>5. QED
      BY <2>1, <2>4 DEF ButtonAt
  <1>8. CASE check_network
    <2>1. CASE \E c \in Commands : Set(c) \/ Unset(c) \/ DoUnlock(c) \/ DoLock(c)
                                     \/ DoBlock(c) \/ NoEffect(c)
      BY <1>1, <2>1, CommandReleases
    <2>2. CASE SetDelete
      BY <2>2 DEF SetDelete, Releases
    <2>3. CASE SetInsert
      <3>1. pending.door \in Door /\ st' = signalDoorStatus(st, pending.door)
        BY <1>1, <2>3 DEF SetInsert, RCInv, PendingOK
      <3>2. st'.output = st.output
        BY <1>1, <3>1, SignalFields
      <3>3. QED
        BY <3>2 DEF Releases
    <2>4. QED
      BY <1>8, <2>1, <2>2, <2>3 DEF check_network
  <1>9. QED
    BY <1>2, <1>4, <1>5, <1>6, <1>7, <1>8 DEF ACNext, Timers, Rest, PowerCycle

(* No lock is released but by a user entitled to that sub-door whose       *)
(* factors, shown at one reader of that door and in time, are those of one *)
(* row; by the button; by a command; or by what a restart finds.  For any  *)
(* users, doors, readers and commands, as long as the reads of the input   *)
(* lines succeed.                                                          *)
THEOREM EveryReleaseIsAuthorised ==
  ASSUME GrantsCover, GpioMayFail = FALSE
  PROVE  ACSpec => ReleasesAreAuthorised
  <1> DEFINE Step == \A o \in Output :
               st.output[o] = "lock" /\ st'.output[o] = "unlock" =>
                 UserAt(o) \/ ButtonAt(o) \/ CommandFor(o) \/ Restart
  <1>1. ACInv /\ NoFailedRead /\ [ACNext]_acvars => [Step]_acvars
    BY StepAuthorised DEF Releases
  <1>2. ACInv /\ [ACNext]_acvars => ACInv'
    BY ACNextInv
  <1>3. QED
    BY <1>1, <1>2, ACInitInv, ReadsSucceed, PTL DEF ACSpec, ReleasesAreAuthorised
=============================================================================
