--------------------------- MODULE Airlock_proofs ---------------------------
(***************************************************************************)
(* The airlock of the main loop, for every configuration in which partners *)
(* name each other and no two doors share an output: every function of     *)
(* door_controller.c keeps the discipline Protected, so at no time are     *)
(* both doors released, and the loop implements the abstract Interlock.    *)
(***************************************************************************)
EXTENDS DoorController_proofs

-----------------------------------------------------------------------------
(* Partners *)

(* Partners name each other, so a door is the partner of one door only. *)
LEMMA PartnerUnique ==
  ASSUME AirlockPairs, NEW d \in Door, NEW e \in Door, HasPartner(d),
         airLockPartnerLocal[e] = airLockPartnerLocal[d]
  PROVE  e = d
  BY DEF AirlockPairs, HasPartner

(* A partner is a door. *)
LEMMA PartnerDoor ==
  ASSUME NEW d \in Door, HasPartner(d)
  PROVE  airLockPartnerLocal[d] \in Door
  BY DoorAssumption DEF HasPartner

(* Blocking the partner unblocks nobody. *)
LEMMA BlockPartner ==
  ASSUME NEW s \in State, NEW d \in Door
  PROVE  LET t == airLockOnPartner(s, d, Bit)
         IN /\ HasPartner(d) => Blocked(t, airLockPartnerLocal[d])
            /\ \A e \in Door : Blocked(s, e) => Blocked(t, e)
  <1> DEFINE t == airLockOnPartner(s, d, Bit)
             p == airLockPartnerLocal[d]
  <1>1. Bit \in SUBSET Bit /\ Bit # {}
    BY DEF Bit
  <1>2. t.airLockMask = IF HasPartner(d)
                        THEN [s.airLockMask EXCEPT ![p] = PartnerMask(s, d, Bit)]
                        ELSE s.airLockMask
    BY <1>1, AirLockFields
  <1>3. CASE ~HasPartner(d)
    BY <1>2, <1>3 DEF Blocked
  <1>4. CASE HasPartner(d)
    <2>1. p \in Door /\ maskFull[p] \subseteq Bit
      BY <1>4, PartnerDoor, DoorAssumption
    <2>2. PartnerMask(s, d, Bit) = maskFull[p] \cap Bit
      BY <1>1 DEF PartnerMask
    <2>3. PartnerMask(s, d, Bit) = maskFull[p]
      BY <2>1, <2>2
    <2>4. s.airLockMask \in [Door -> SUBSET Bit]
      BY DEF State
    <2>5. QED
      BY <1>2, <1>4, <2>1, <2>3, <2>4 DEF Blocked
  <1>5. QED
    BY <1>3, <1>4

(* Only a door that is locked and closed takes the blockade back, and only *)
(* from its partner.                                                       *)
LEMMA FreePartner ==
  ASSUME NEW s \in State, NEW d \in Door
  PROVE  LET t == airLockOnPartner(s, d, {})
         IN \A e \in Door : Blocked(s, e) =>
              \/ Blocked(t, e)
              \/ LockedAndClosed(s, d) /\ HasPartner(d) /\ e = airLockPartnerLocal[d]
  <1> DEFINE t == airLockOnPartner(s, d, {})
             p == airLockPartnerLocal[d]
  <1>1. {} \in SUBSET Bit
    OBVIOUS
  <1>2. t.airLockMask = IF HasPartner(d)
                        THEN [s.airLockMask EXCEPT ![p] = PartnerMask(s, d, {})]
                        ELSE s.airLockMask
    BY <1>1, AirLockFields
  <1>3. s.airLockMask \in [Door -> SUBSET Bit]
    BY DEF State
  <1>4. CASE ~HasPartner(d)
    BY <1>2, <1>4 DEF Blocked
  <1>5. CASE HasPartner(d)
    <2>1. PartnerMask(s, d, {}) = IF LockedAndClosed(s, d) THEN {} ELSE s.airLockMask[p]
      BY DEF PartnerMask
    <2>2. QED
      BY <1>2, <1>3, <1>5, <2>1 DEF Blocked
  <1>6. QED
    BY <1>4, <1>5

-----------------------------------------------------------------------------
(* Every operation keeps the discipline. *)

(* airLockOnPartner(door, -1) *)
LEMMA BlockKeeps ==
  ASSUME NEW s \in State, NEW d \in Door, NEW V \in SUBSET Door, Protected(s, V)
  PROVE  Protected(airLockOnPartner(s, d, Bit), V)
  <1> DEFINE t == airLockOnPartner(s, d, Bit)
  <1>1. Bit \in SUBSET Bit
    OBVIOUS
  <1>2. /\ t.lastInput = s.lastInput /\ t.door_lock_timer = s.door_lock_timer
        /\ t.admDisableMask = s.admDisableMask /\ t.output = s.output
    BY <1>1, AirLockFields
  <1>3. \A e \in Door : Blocked(s, e) => Blocked(t, e)
    BY BlockPartner
  <1> HIDE DEF t
  <1>4. QED
    BY <1>2, <1>3, PartnerDoor DEF Protected, Unlocked, Opened, t

(* unlock_door: it goes through only if the door is not blocked, so the    *)
(* timer of its partner is not running.                                    *)
LEMMA UnlockKeeps ==
  ASSUME AirlockPairs, DisjointOutputs,
         NEW s \in State, NEW V \in SUBSET Door, NEW d \in V,
         NEW mask \in SUBSET Bit, Protected(s, V)
  PROVE  Protected(unlock_door(s, d, mask), V)
  <1> DEFINE t == unlock_door(s, d, mask)
             m == unlock_mask(s, d, mask)
  <1>1. CASE m = {}
    BY <1>1, UnlockFields
  <1>2. CASE m # {}
    <2>1. /\ t.lastInput = s.lastInput
          /\ t.admDisableMask = s.admDisableMask
          /\ t.door_lock_timer = [s.door_lock_timer EXCEPT ![d] = DOOR_OPEN_TIME]
          /\ t.output = set_door_state(s.output, "unlock", m)
          /\ t.airLockMask = airLockOnPartner(s, d, Bit).airLockMask
      BY <1>2, UnlockFields
    <2>2. /\ s.door_lock_timer \in [Door -> 0 .. DOOR_OPEN_TIME]
          /\ s.output \in [Output -> LockState]
          /\ DOOR_OPEN_TIME > 0
      BY DoorAssumption DEF State
    <2>3. /\ t.door_lock_timer[d] > 0
          /\ \A e \in Door : e # d => t.door_lock_timer[e] = s.door_lock_timer[e]
      BY <2>1, <2>2
    <2>4. /\ HasPartner(d) => Blocked(t, airLockPartnerLocal[d])
          /\ \A e \in Door : Blocked(s, e) => Blocked(t, e)
      BY <2>1, BlockPartner DEF Blocked
    <2>5. ~Blocked(s, d)
      BY <1>2, UnlockNeedsFree
    <2>6. \A e \in V : e # d /\ Unlocked(t, e) => Unlocked(s, e)
      <3> SUFFICES ASSUME NEW e \in V, e # d, Unlocked(t, e) PROVE Unlocked(s, e)
        OBVIOUS
      <3>1. PICK o \in OutputsOf(e) : t.output[o] = "unlock"
        BY DEF Unlocked
      <3>2. o \in Output /\ o \notin OutputsOf(d)
        BY DEF OutputsOf, DisjointOutputs
      <3>3. o \notin m
        BY <3>2, UnlockOutputs
      <3>4. s.output[o] = "unlock"
        BY <2>1, <3>1, <3>2, <3>3 DEF set_door_state
      <3>5. QED
        BY <3>4 DEF Unlocked
    <2> HIDE DEF t, m
    <2>7. \A e \in Door : t.admDisableMask[e] = {}
      BY <2>1 DEF Protected
    <2>8. \A e \in V : Unlocked(t, e) => t.door_lock_timer[e] > 0
      BY <2>3, <2>6 DEF Protected
    <2>9. \A e \in V : t.door_lock_timer[e] > 0 /\ HasPartner(e)
                    => Blocked(t, airLockPartnerLocal[e])
      BY <2>3, <2>4, PartnerDoor DEF Protected
    <2>10. \A e \in V : airLockPartnerLocal[e] \in V
             => t.door_lock_timer[e] = 0
                  \/ t.door_lock_timer[airLockPartnerLocal[e]] = 0
      <3> SUFFICES ASSUME NEW e \in V, airLockPartnerLocal[e] \in V
                   PROVE  t.door_lock_timer[e] = 0
                            \/ t.door_lock_timer[airLockPartnerLocal[e]] = 0
        OBVIOUS
      <3> DEFINE q == airLockPartnerLocal[e]
      <3>1. HasPartner(e) /\ q # e /\ airLockPartnerLocal[q] = e /\ HasPartner(q)
        <4>1. NoDoor \notin Door
          BY DEF NoDoor, Door
        <4>2. QED
          BY <4>1 DEF AirlockPairs, HasPartner
      <3>2. \A x \in V : s.door_lock_timer[x] = 0 \/ s.door_lock_timer[x] > 0
        BY <2>2
      <3>3. CASE e = d
        BY <2>3, <2>5, <3>1, <3>2, <3>3 DEF Protected
      <3>4. CASE q = d
        BY <2>3, <2>5, <3>1, <3>2, <3>4 DEF Protected
      <3>5. CASE e # d /\ q # d
        BY <2>3, <3>5 DEF Protected
      <3>6. QED
        BY <3>3, <3>4, <3>5
    <2>11. \A e \in Door : Opened(t, e) /\ HasPartner(e)
                    => Blocked(t, airLockPartnerLocal[e])
      BY <2>1, <2>4, PartnerDoor DEF Protected, Opened
    <2>12. Protected(t, V)
      BY <2>7, <2>8, <2>9, <2>10, <2>11 DEF Protected
    <2>13. QED
      BY <2>12 DEF t
  <1>3. QED
    BY <1>1, <1>2

(* One tick of the close-door timer.  When it runs out every output of the *)
(* door is locked before the partner is freed.                             *)
LEMMA TimerKeeps ==
  ASSUME AirlockPairs, DisjointOutputs,
         NEW s \in State, NEW V \in SUBSET Door, NEW d \in Door,
         d \in V \/ s.door_lock_timer[d] = 1, Protected(s, V)
  PROVE  LET t == door_timer(s, d)
         IN /\ Protected(t, V \cup {d})
            /\ \A e \in Door : e # d => t.door_lock_timer[e] = s.door_lock_timer[e]
  <1> DEFINE t == door_timer(s, d)
             c == [s EXCEPT !.door_lock_timer[d] = s.door_lock_timer[d] - 1]
             m == lock_mask(c, d, maskFull[d])
  <1>1. /\ s.door_lock_timer \in [Door -> 0 .. DOOR_OPEN_TIME]
        /\ s.output \in [Output -> LockState]
        /\ \A e \in Door : s.door_lock_timer[e] \in Nat
    BY DoorAssumption DEF State
  <1>2. CASE s.door_lock_timer[d] = 0
    <2>1. t = s
      BY <1>2, TimerFields
    <2>2. d \in V
      BY <1>2
    <2>3. V \cup {d} = V
      BY <2>2
    <2>4. QED
      BY <2>1, <2>3
  <1>3. CASE s.door_lock_timer[d] # 0
    <2>1. /\ c \in State
          /\ c.lastInput = s.lastInput
          /\ c.admDisableMask = s.admDisableMask
          /\ c.airLockMask = s.airLockMask
          /\ c.output = s.output
          /\ c.door_lock_timer =
               [s.door_lock_timer EXCEPT ![d] = s.door_lock_timer[d] - 1]
          /\ t = IF s.door_lock_timer[d] = 1
                 THEN lock_door(c, d, maskFull[d]) ELSE c
      BY <1>3, TimerFields
    <2>2. /\ c.door_lock_timer[d] = s.door_lock_timer[d] - 1
          /\ \A e \in Door : e # d => c.door_lock_timer[e] = s.door_lock_timer[e]
      BY <1>1, <2>1
    <2> HIDE DEF c
    <2>3. CASE s.door_lock_timer[d] # 1
      <3>1. t = c /\ d \in V /\ V \cup {d} = V
        BY <2>1, <2>3
      <3>2. \A e \in Door : c.door_lock_timer[e] > 0 <=> s.door_lock_timer[e] > 0
        BY <1>1, <1>3, <2>2, <2>3
      <3>3. \A e \in Door : c.door_lock_timer[e] = 0 <=> s.door_lock_timer[e] = 0
        BY <1>1, <1>3, <2>2, <2>3
      <3>4. Protected(c, V)
        BY <2>1, <3>2, <3>3 DEF Protected, Unlocked, Opened, Blocked
      <3>5. QED
        BY <2>2, <3>1, <3>4
    <2>4. CASE s.door_lock_timer[d] = 1
      <3>1. maskFull[d] \in SUBSET Bit /\ t = lock_door(c, d, maskFull[d])
        BY <2>1, <2>4, DoorAssumption
      <3>2. /\ t.lastInput = s.lastInput
            /\ t.admDisableMask = s.admDisableMask
            /\ t.door_lock_timer = c.door_lock_timer
            /\ m = {} => t.output = s.output /\ t.airLockMask = s.airLockMask
            /\ m # {} => /\ t.output = set_door_state(s.output, "lock", m)
                         /\ t.airLockMask = airLockOnPartner(c, d, {}).airLockMask
        BY <2>1, <3>1, LockFields
      <3>3. /\ t.door_lock_timer[d] = 0
            /\ \A e \in Door : e # d => t.door_lock_timer[e] = s.door_lock_timer[e]
        BY <2>2, <2>4, <3>2
      <3>4. m \cap Output = OutputsOf(d)
        <4>1. c.admDisableMask[d] = {}
          BY <2>1 DEF Protected
        <4>2. QED
          BY <2>1, <4>1, LockOutputs
      <3>5. \A o \in Output :
              /\ o \in m => t.output[o] = "lock"
              /\ t.output[o] = "unlock" => s.output[o] = "unlock"
        BY <3>2 DEF set_door_state
      <3>6. ~Unlocked(t, d)
        <4>1. \A o \in OutputsOf(d) : t.output[o] = "lock"
          BY <3>4, <3>5
        <4>2. "lock" # "unlock"
          OBVIOUS
        <4>3. QED
          BY <4>1, <4>2 DEF Unlocked
      <3>7. \A e \in Door : Unlocked(t, e) => Unlocked(s, e)
        BY <3>5 DEF Unlocked, OutputsOf
      <3>8. \A e \in Door : Blocked(s, e) =>
              \/ Blocked(t, e)
              \/ /\ LockedAndClosed(c, d) /\ HasPartner(d)
                 /\ e = airLockPartnerLocal[d]
        <4>1. CASE m = {}
          BY <3>2, <4>1 DEF Blocked
        <4>2. CASE m # {}
          BY <2>1, <3>2, <4>2, FreePartner DEF Blocked
        <4>3. QED
          BY <4>1, <4>2
      <3>9. LockedAndClosed(c, d) => ~Opened(t, d)
        BY <2>1, <3>2 DEF LockedAndClosed, Opened
      <3> HIDE DEF t, m
      <3>10. \A e \in Door : t.admDisableMask[e] = {}
        BY <3>2 DEF Protected
      <3>11. \A e \in V \cup {d} : Unlocked(t, e) => t.door_lock_timer[e] > 0
        BY <3>3, <3>6, <3>7 DEF Protected
      <3>12. \A e \in V \cup {d} : t.door_lock_timer[e] > 0 /\ HasPartner(e)
               => Blocked(t, airLockPartnerLocal[e])
        BY <3>3, <3>8, PartnerDoor, PartnerUnique DEF Protected
      <3>13. \A e \in V \cup {d} : airLockPartnerLocal[e] \in V \cup {d}
               => t.door_lock_timer[e] = 0
                    \/ t.door_lock_timer[airLockPartnerLocal[e]] = 0
        BY <3>3 DEF Protected
      <3>14. \A e \in Door : Opened(t, e) /\ HasPartner(e)
               => Blocked(t, airLockPartnerLocal[e])
        <4>1. \A e \in Door : Opened(t, e) => Opened(s, e)
          BY <3>2 DEF Opened
        <4>2. QED
          BY <3>8, <3>9, <4>1, PartnerDoor, PartnerUnique DEF Protected
      <3>15. Protected(t, V \cup {d})
        BY <3>10, <3>11, <3>12, <3>13, <3>14 DEF Protected
      <3>16. QED
        BY <3>3, <3>15 DEF t
    <2>5. QED
      BY <2>3, <2>4
  <1>4. QED
    BY <1>2, <1>3

(* One door of check_inputs.  A door that is opened blocks its partner;    *)
(* one that closes frees it only if its lock has been locked.              *)
LEMMA CheckKeeps ==
  ASSUME AirlockPairs, DisjointOutputs,
         NEW s \in State, NEW V \in SUBSET Door, NEW d \in V,
         NEW input \in SUBSET InputBit, Protected(s, V)
  PROVE  Protected(check_input(s, d, input), V)
  <1> DEFINE diff == InputDiff(s, d, input)
             m == manual_open(s, d, input)
             e == emergency_open(m, d, diff, input)
             c == door_close(e, d, diff, input)
             t == check_input(s, d, input)
  <1>1. /\ m \in State /\ e \in State /\ c \in State
        /\ e.lastInput = s.lastInput
    BY HandlerFields
  <1>2. /\ t \in State
        /\ t.lastInput = [s.lastInput EXCEPT ![d] = input]
        /\ t.door_lock_timer = c.door_lock_timer
        /\ t.admDisableMask = c.admDisableMask
        /\ t.airLockMask = c.airLockMask
        /\ t.output = c.output
    BY CheckFields
  <1>3. Protected(m, V)
    <2>1. {0} \in SUBSET Bit
      BY DEF Bit
    <2>2. QED
      BY <2>1, UnlockKeeps DEF manual_open
  <1>4. Protected(e, V)
    <2> HIDE DEF m, diff
    <2>1. QED
      BY <1>1, <1>3, BlockKeeps DEF emergency_open
  <1>5. /\ c.door_lock_timer = e.door_lock_timer
        /\ c.admDisableMask = e.admDisableMask
        /\ c.output = e.output
    <2>1. {} \in SUBSET Bit /\ Bit \in SUBSET Bit
      OBVIOUS
    <2> HIDE DEF e, diff
    <2>2. QED
      BY <1>1, <2>1, AirLockFields DEF door_close
  <1>6. \A x \in Door : Blocked(e, x) =>
          \/ Blocked(c, x)
          \/ /\ LockedAndClosed(e, d) /\ HasPartner(d) /\ x = airLockPartnerLocal[d]
             /\ DI_IS_DOOR_CLOSE \in input
    <2> HIDE DEF e, diff
    <2>1. CASE DI_IS_DOOR_CLOSE \notin diff
      BY <2>1 DEF door_close
    <2>2. CASE DI_IS_DOOR_CLOSE \in diff /\ DI_IS_DOOR_CLOSE \in input
      BY <1>1, <2>2, FreePartner DEF door_close
    <2>3. CASE DI_IS_DOOR_CLOSE \in diff /\ DI_IS_DOOR_CLOSE \notin input
      BY <1>1, <2>3, BlockPartner DEF door_close
    <2>4. QED
      BY <2>1, <2>2, <2>3
  <1>7. DI_IS_DOOR_CLOSE \notin input /\ HasPartner(d)
          => Blocked(c, airLockPartnerLocal[d])
    <2> SUFFICES ASSUME DI_IS_DOOR_CLOSE \notin input, HasPartner(d)
                 PROVE  Blocked(c, airLockPartnerLocal[d])
      OBVIOUS
    <2>1. CASE DI_IS_DOOR_CLOSE \in diff
      <3> HIDE DEF e, diff
      <3>1. QED
        BY <1>1, <2>1, BlockPartner DEF door_close
    <2>2. CASE DI_IS_DOOR_CLOSE \notin diff
      <3>1. Opened(e, d)
        BY <1>1, <2>2 DEF InputDiff, Opened
      <3>2. Blocked(e, airLockPartnerLocal[d])
        BY <1>4, <3>1 DEF Protected
      <3> HIDE DEF e, diff
      <3>3. c = e
        BY <2>2 DEF door_close
      <3>4. QED
        BY <3>2, <3>3
    <2>3. QED
      BY <2>1, <2>2
  <1>8. s.lastInput \in [Door -> SUBSET InputBit]
    BY DEF State
  <1>9. /\ \A x \in Door : x # d => (Opened(t, x) <=> Opened(e, x))
        /\ Opened(t, d) <=> DI_IS_DOOR_CLOSE \notin input
    BY <1>1, <1>2, <1>8 DEF Opened
  <1>10. /\ t.door_lock_timer = e.door_lock_timer
         /\ t.admDisableMask = e.admDisableMask
         /\ t.output = e.output
         /\ \A x \in Door : Blocked(t, x) <=> Blocked(c, x)
    BY <1>2, <1>5 DEF Blocked
  <1>11. LockedAndClosed(e, d) => ~(e.door_lock_timer[d] > 0)
    <2>1. e.door_lock_timer[d] \in 0 .. DOOR_OPEN_TIME
      BY <1>1 DEF State
    <2>2. QED
      BY <2>1, DoorAssumption DEF LockedAndClosed
  <1> HIDE DEF t, c, e, m, diff
  <1>12. \A x \in V : t.door_lock_timer[x] > 0 /\ HasPartner(x)
           => Blocked(t, airLockPartnerLocal[x])
    BY <1>4, <1>6, <1>10, <1>11, PartnerDoor, PartnerUnique DEF Protected
  <1>13. \A x \in Door : Opened(t, x) /\ HasPartner(x)
           => Blocked(t, airLockPartnerLocal[x])
    <2> SUFFICES ASSUME NEW x \in Door, Opened(t, x), HasPartner(x)
                 PROVE  Blocked(t, airLockPartnerLocal[x])
      OBVIOUS
    <2>1. CASE x = d
      BY <1>7, <1>9, <1>10, <2>1, PartnerDoor
    <2>2. CASE x # d
      BY <1>4, <1>6, <1>9, <1>10, <2>2, PartnerDoor, PartnerUnique DEF Protected
    <2>3. QED
      BY <2>1, <2>2
  <1>14. Protected(t, V)
    BY <1>4, <1>10, <1>12, <1>13 DEF Protected, Unlocked
  <1>15. QED
    BY <1>14 DEF t

-----------------------------------------------------------------------------
(* The main loop *)

(* No door was visited when the program starts, so there is nothing to     *)
(* protect yet.                                                            *)
LEMMA AirlockInit == Init => AirlockInv
  <1> SUFFICES ASSUME Init PROVE AirlockInv
    OBVIOUS
  <1>1. PICK out \in PowerUp : \E leds \in [Door -> {"open", "none"}] :
          st = StartState(out, leds)
    BY DEF Init
  <1>2. PICK leds \in [Door -> {"open", "none"}] : st = StartState(out, leds)
    BY <1>1
  <1>3. Visited = {}
    BY DoorsCount DEF Init, Visited, Polled, LoopStart
  <1>4. /\ \A d \in Door : st.admDisableMask[d] = {} /\ st.door_lock_timer[d] = 1
        /\ \A d \in Door : ~Opened(st, d)
    BY <1>2 DEF StartState, Opened, InitialInput, AllInputs
  <1>5. phase \in {"timer", "readers", "input", "inputFailed"} => cur \in Polled
    BY DoorsCount DEF Init, LoopStart, Polled
  <1>6. phase = "gpio" => doorsCount = 0
    BY DEF Init, LoopStart
  <1>7. phase \in {"timer", "gpio"} /\ cur = 0
    BY DEF Init, LoopStart
  <1>8. QED
    BY <1>3, <1>4, <1>5, <1>6, <1>7 DEF AirlockInv, Protected

(* Every step of the main loop keeps the airlock discipline. *)
LEMMA AirlockNext ==
  ASSUME AirlockPairs, DisjointOutputs, TypeOK, AirlockInv, [Next]_vars
  PROVE  AirlockInv'
  <1>1. Visited \in SUBSET Door /\ Polled \in SUBSET Door
    BY DoorsCount DEF Visited
  <1>2. st \in State /\ cur \in Door
    BY DEF TypeOK
  <1>3. CASE DoorTimer
    <2>1. /\ cur \in Polled /\ phase = "timer" /\ phase' = "readers"
          /\ st' = door_timer(st, cur) /\ cur' = cur /\ booted' = booted
      BY <1>3 DEF DoorTimer, AirlockInv
    <2>2. Visited' = Visited \cup {cur}
      BY <2>1 DEF Visited
    <2>3. cur \in Visited \/ st.door_lock_timer[cur] = 1
      BY <1>2 DEF AirlockInv
    <2>4. /\ Protected(st', Visited \cup {cur})
          /\ \A e \in Door : e # cur => st'.door_lock_timer[e] = st.door_lock_timer[e]
      BY <1>1, <1>2, <2>1, <2>3, TimerKeeps DEF AirlockInv
    <2>5. \A d \in Door \ Visited' : st'.door_lock_timer[d] = 1
      BY <2>2, <2>4 DEF AirlockInv
    <2>6. QED
      BY <2>1, <2>2, <2>4, <2>5 DEF AirlockInv
  <1>4. CASE Grant
    <2>1. PICK m \in Grants[cur] : st' = unlock_door(st, cur, m)
      BY <1>4 DEF Grant
    <2>2. m \in SUBSET Bit
      BY <1>2, ControllerAssumption
    <2>3. /\ phase = "readers" /\ phase' = phase /\ cur' = cur /\ booted' = booted
          /\ cur \in Polled
      BY <1>4 DEF Grant, AirlockInv
    <2>4. Visited' = Visited /\ cur \in Visited
      BY <2>3 DEF Visited
    <2>5. Protected(st', Visited)
      BY <1>1, <1>2, <2>1, <2>2, <2>4, UnlockKeeps DEF AirlockInv
    <2>6. \A d \in Door : d # cur => st'.door_lock_timer[d] = st.door_lock_timer[d]
      <3>1. \/ st' = st
            \/ st'.door_lock_timer = [st.door_lock_timer EXCEPT ![cur] = DOOR_OPEN_TIME]
        BY <1>2, <2>1, <2>2, UnlockFields
      <3>2. st.door_lock_timer \in [Door -> 0 .. DOOR_OPEN_TIME]
        BY <1>2 DEF State
      <3>3. QED
        BY <3>1, <3>2
    <2>7. QED
      BY <2>3, <2>4, <2>5, <2>6 DEF AirlockInv
  <1>5. CASE NextDoor
    <2>1. st' = st /\ phase = "readers" /\ cur \in Polled
      BY <1>5 DEF NextDoor, AirlockInv
    <2>2. Visited' = Visited
      <3>1. doorsCount \in Nat /\ cur \in 0 .. doorsCount - 1 /\ cur \in Int
        BY <2>1, DoorsCount DEF Polled
      <3>2. CASE cur + 1 < doorsCount
        <4>1. cur' = cur + 1 /\ phase' = "timer" /\ booted' = booted
          BY <1>5, <3>2 DEF NextDoor
        <4>2. {d \in Polled : d < cur \/ d = cur} = {d \in Polled : d < cur + 1}
          BY <3>1 DEF Polled
        <4>3. QED
          BY <2>1, <4>1, <4>2 DEF Visited
      <3>3. CASE ~(cur + 1 < doorsCount)
        <4>1. booted' = TRUE
          BY <1>5, <3>3 DEF NextDoor
        <4>2. {d \in Polled : d < cur \/ d = cur} = Polled
          BY <3>1, <3>3 DEF Polled
        <4>3. QED
          BY <2>1, <4>1, <4>2 DEF Visited
      <3>4. QED
        BY <3>2, <3>3
    <2>3. \/ phase' = "timer" /\ cur' = cur + 1 /\ cur + 1 < doorsCount
          \/ phase' = "gpio" /\ cur' = 0 /\ booted' = TRUE
      BY <1>5 DEF NextDoor
    <2>4. phase' = "timer" => cur' \in Polled
      BY <2>1, <2>3, DoorsCount DEF Polled
    <2>5. QED
      BY <2>1, <2>2, <2>3, <2>4 DEF AirlockInv
  <1>6. CASE ReadInputs
    <2>1. st' = st /\ cur' = cur /\ booted' = booted /\ cur = 0 /\ phase = "gpio"
      BY <1>6 DEF ReadInputs, AirlockInv
    <2>2. phase' \in {"input", "inputFailed", "network"}
      BY <1>6 DEF ReadInputs
    <2>3. Visited' = Visited
      BY <2>1, <2>2 DEF Visited
    <2>4. phase' # "network" => cur \in Polled
      BY <1>6, <2>1, DoorsCount DEF ReadInputs, Polled
    <2>5. QED
      BY <2>1, <2>2, <2>3, <2>4 DEF AirlockInv
  <1>7. CASE CheckInput
    <2>1. PICK i \in get_input_state(cur, phase = "inputFailed", Inputs) :
            st' = check_input(st, cur, i)
      BY <1>7 DEF CheckInput
    <2>2. i \in SUBSET InputBit
      BY ControllerAssumption DEF get_input_state
    <2>3. /\ phase \in {"input", "inputFailed"} /\ cur \in Polled
          /\ booted \/ doorsCount = 0
      BY <1>7 DEF CheckInput, AirlockInv
    <2>4. doorsCount # 0 /\ booted
      BY <2>3, DoorsCount DEF Polled
    <2>5. Visited = Polled /\ Visited' = Polled /\ Polled = Door /\ booted' = booted
      BY <1>7, <2>4, AllPolled DEF CheckInput, Visited
    <2>6. Protected(st', Visited)
      BY <1>1, <1>2, <2>1, <2>2, <2>3, <2>5, CheckKeeps DEF AirlockInv
    <2>7. \/ phase' = phase /\ cur' = cur + 1 /\ cur + 1 < doorsCount
          \/ phase' = "network" /\ cur' = 0
      BY <1>7 DEF CheckInput
    <2>8. phase' # "network" => cur' \in Polled
      BY <2>3, <2>7, DoorsCount DEF Polled
    <2>9. QED
      BY <2>3, <2>4, <2>5, <2>6, <2>7, <2>8 DEF AirlockInv
  <1>8. CASE NoDatagram
    <2>1. st' = st /\ cur' = cur /\ booted' = booted /\ cur = 0 /\ phase = "network"
      BY <1>8 DEF NoDatagram, AirlockInv
    <2>2. phase' = IF doorsCount = 0 THEN "gpio" ELSE "timer"
      BY <1>8 DEF NoDatagram, LoopStart
    <2>3. Visited' = Visited
      BY <2>1, <2>2 DEF Visited
    <2>4. phase' = "timer" => cur \in Polled
      BY <2>1, <2>2, DoorsCount DEF Polled
    <2>5. QED
      BY <2>1, <2>2, <2>3, <2>4 DEF AirlockInv
  <1>9. CASE UNCHANGED vars
    BY <1>9 DEF vars, AirlockInv, Visited
  <1>10. QED
    BY <1>3, <1>4, <1>5, <1>6, <1>7, <1>8, <1>9 DEF Next, LoopStep

(* The inductive invariant says what the airlock is for. *)
LEMMA AirlockConsequences ==
  ASSUME AirlockPairs, TypeOK, AirlockInv
  PROVE  AirlockExclusion /\ PartnerBlocked
  <1>1. \A d \in Door : st.door_lock_timer[d] \in Nat
    BY DoorAssumption DEF TypeOK, State
  <1>2. Visited \in SUBSET Door
    BY DoorsCount DEF Visited
  <1>3. AirlockExclusion
    <2> SUFFICES ASSUME NEW d \in Visited, NEW p \in Visited,
                        airLockPartnerLocal[d] = p,
                        Unlocked(st, d), Unlocked(st, p)
                 PROVE  FALSE
      BY DEF AirlockExclusion
    <2>1. st.door_lock_timer[d] > 0 /\ st.door_lock_timer[p] > 0
      BY DEF AirlockInv, Protected
    <2>2. st.door_lock_timer[d] = 0 \/ st.door_lock_timer[p] = 0
      BY DEF AirlockInv, Protected
    <2>3. QED
      BY <2>1, <2>2
  <1>4. PartnerBlocked
    BY <1>2 DEF PartnerBlocked, AirlockInv, Protected
  <1>5. QED
    BY <1>3, <1>4

(* The inductive invariant holds in every reachable state, for any number  *)
(* of doors, sub-doors, grants and input bytes.                            *)
THEOREM AirlockInvariant ==
  ASSUME AirlockPairs, DisjointOutputs
  PROVE  Spec => []AirlockInv
  <1>1. TypeOK /\ AirlockInv /\ [Next]_vars => AirlockInv'
    BY AirlockNext
  <1>2. QED
    BY <1>1, AirlockInit, TypeCorrect, PTL DEF Spec

(* Two airlock partners that were visited are never both released by the   *)
(* main loop: readers, buttons, sensors, timers, failing reads.            *)
THEOREM AirlockSafe ==
  ASSUME AirlockPairs, DisjointOutputs
  PROVE  Spec => []AirlockExclusion
  <1>1. TypeOK /\ AirlockInv => AirlockExclusion
    BY AirlockConsequences
  <1>2. QED
    BY <1>1, AirlockInvariant, TypeCorrect, PTL

(* A door that is released, or was seen open, keeps its partner blocked.   *)
THEOREM PartnerStaysBlocked ==
  ASSUME AirlockPairs, DisjointOutputs
  PROVE  Spec => []PartnerBlocked
  <1>1. TypeOK /\ AirlockInv => PartnerBlocked
    BY AirlockConsequences
  <1>2. QED
    BY <1>1, AirlockInvariant, TypeCorrect, PTL

-----------------------------------------------------------------------------
(* A release respects the partner. *)

(* A door that is not blocked has a partner that is closed and locked. *)
LEMMA FreeMeansSafe ==
  ASSUME AirlockPairs, TypeOK, AirlockInv, NEW d \in Visited, HasPartner(d),
         ~Blocked(st, d)
  PROVE  LET p == airLockPartnerLocal[d]
         IN ~Opened(st, p) /\ (p \in Visited => ~Unlocked(st, p))
  <1> DEFINE p == airLockPartnerLocal[d]
  <1>1. d \in Door
    BY DoorsCount DEF Visited
  <1>2. p \in Door /\ airLockPartnerLocal[p] = d
    BY <1>1, PartnerDoor DEF AirlockPairs
  <1>3. HasPartner(p)
    BY <1>1, <1>2 DEF HasPartner, NoDoor, Door
  <1>4. Protected(st, Visited)
    BY DEF AirlockInv
  <1>5. ~Opened(st, p)
    BY <1>2, <1>3, <1>4 DEF Protected
  <1>6. ASSUME p \in Visited PROVE ~Unlocked(st, p)
    BY <1>2, <1>3, <1>4, <1>6 DEF Protected
  <1>7. QED
    BY <1>5, <1>6

(* No reader, button or timer releases the lock of a door whose partner is *)
(* open or released, in any configuration with proper airlock pairs.       *)
THEOREM ReleasesRespectPartner ==
  ASSUME AirlockPairs, DisjointOutputs
  PROVE  Spec => UnlockRespectsPartner
  <1> DEFINE Step == \A d \in Visited : Unlocks(d) /\ HasPartner(d) =>
                       LET p == airLockPartnerLocal[d]
                       IN ~Opened(st, p) /\ (p \in Visited => ~Unlocked(st, p))
  <1>1. TypeOK /\ AirlockInv /\ [Next]_vars => [Step]_vars
    <2>1. SUFFICES ASSUME TypeOK, AirlockInv, Next, NEW d \in Visited,
                          Unlocks(d), HasPartner(d)
                   PROVE  ~Blocked(st, d)
      BY FreeMeansSafe
    <2>2. d \in Door /\ st \in State /\ cur \in Door
      BY <2>1, DoorsCount DEF Visited, TypeOK
    <2>3. PICK o \in OutputsOf(d) : st.output[o] = "lock" /\ st'.output[o] = "unlock"
      BY <2>1 DEF Unlocks
    <2>4. CASE DoorTimer
      <3>1. st' = door_timer(st, cur) /\ o \in Output
        BY <2>4 DEF DoorTimer, OutputsOf
      <3>2. QED
        BY <2>2, <2>3, <3>1, TimerReleasesNothing
    <2>5. CASE Grant
      <3>1. PICK m \in Grants[cur] : st' = unlock_door(st, cur, m)
        BY <2>5 DEF Grant
      <3>2. m \in SUBSET Bit
        BY <2>2, ControllerAssumption
      <3>3. QED
        BY <2>2, <2>3, <3>1, <3>2, ReleaseByUnlock
    <2>6. CASE CheckInput
      <3>1. PICK i \in get_input_state(cur, phase = "inputFailed", Inputs) :
              st' = check_input(st, cur, i)
        BY <2>6 DEF CheckInput
      <3>2. i \in SUBSET InputBit /\ {0} \in SUBSET Bit
        BY ControllerAssumption DEF get_input_state, Bit
      <3>3. st'.output = unlock_door(st, cur, {0}).output
        BY <2>2, <2>3, <3>1, <3>2, CheckReleases
      <3>4. QED
        BY <2>2, <2>3, <3>2, <3>3, ReleaseByUnlock
    <2>7. CASE NextDoor \/ ReadInputs \/ NoDatagram
      BY <2>3, <2>7 DEF NextDoor, ReadInputs, NoDatagram
    <2>8. QED
      BY <2>1, <2>4, <2>5, <2>6, <2>7 DEF Next, LoopStep
  <1>2. QED
    BY <1>1, AirlockInvariant, TypeCorrect, PTL DEF Spec, UnlockRespectsPartner

-----------------------------------------------------------------------------
(* The abstract airlock *)

(* The abstract variables and what a step of the loop makes of them. *)
Released == {d \in Visited : Unlocked(st, d)}
Open == {d \in Door : Opened(st, d)}

(* A lock that unlock_door releases on a visited door is released while    *)
(* the abstract door is free.                                              *)
LEMMA ReleaseIsFree ==
  ASSUME AirlockPairs, TypeOK, AirlockInv, NEW d \in Visited, ~Blocked(st, d)
  PROVE  airLockPartnerLocal[d] \notin Released \cup Open
  <1>1. CASE HasPartner(d)
    BY <1>1, FreeMeansSafe DEF Released, Open
  <1>2. CASE ~HasPartner(d)
    <2>1. NoDoor \notin Door
      BY DEF NoDoor, Door
    <2>2. Visited \subseteq Door
      BY DoorsCount DEF Visited
    <2>3. QED
      BY <1>2, <2>1, <2>2 DEF HasPartner, Released, Open
  <1>3. QED
    BY <1>1, <1>2

(* The step of the abstract airlock in terms of the two sets. *)
LEMMA AbstractStep ==
  ASSUME NEW d \in Door,
         \/ /\ airLockPartnerLocal[d] \notin Released \cup Open
            /\ Released' = Released \cup {d}
         \/ Released' = Released \ {d}
         \/ Released' = Released,
         Open' \in {Open, Open \cup {d}, Open \ {d}}
  PROVE  IL!Next
  BY DEF IL!Next, IL!Release, IL!Free, IL!Lock, IL!Keep, IL!Sense, Released, Open

(* The loop starts with nothing visited and every door taken for closed. *)
LEMMA InterlockInit == Init => IL!Init
  <1> SUFFICES ASSUME Init PROVE IL!Init
    OBVIOUS
  <1>1. PICK out \in PowerUp : \E leds \in [Door -> {"open", "none"}] :
          st = StartState(out, leds)
    BY DEF Init
  <1>2. PICK leds \in [Door -> {"open", "none"}] : st = StartState(out, leds)
    BY <1>1
  <1>3. Visited = {}
    BY DoorsCount DEF Init, Visited, Polled, LoopStart
  <1>4. \A d \in Door : ~Opened(st, d)
    BY <1>2 DEF StartState, Opened, InitialInput, AllInputs
  <1>5. QED
    BY <1>3, <1>4 DEF IL!Init

(* Every step of the loop is a step of the abstract airlock. *)
LEMMA InterlockNext ==
  ASSUME AirlockPairs, DisjointOutputs, TypeOK, AirlockInv, [Next]_vars
  PROVE  [IL!Next]_(IL!vars)
  <1>1. Visited \in SUBSET Door /\ Polled \in SUBSET Door
    BY DoorsCount DEF Visited
  <1>2. st \in State /\ cur \in Door /\ st.admDisableMask[cur] = {}
    BY DEF TypeOK, AirlockInv, Protected
  <1>3. CASE DoorTimer
    <2>1. /\ cur \in Polled /\ phase = "timer" /\ phase' = "readers"
          /\ st' = door_timer(st, cur) /\ cur' = cur /\ booted' = booted
      BY <1>3 DEF DoorTimer, AirlockInv
    <2>2. Visited' = Visited \cup {cur}
      BY <2>1 DEF Visited
    <2>3. cur \in Visited \/ st.door_lock_timer[cur] = 1
      BY <1>2 DEF AirlockInv
    <2>4. /\ st'.lastInput = st.lastInput
          /\ st.door_lock_timer[cur] # 1 => st'.output = st.output
          /\ st.door_lock_timer[cur] = 1 => ~Unlocked(st', cur)
          /\ \A e \in Door : e # cur => (Unlocked(st', e) <=> Unlocked(st, e))
      BY <1>2, <2>1, TimerLocks
    <2>5. Open' = Open
      BY <2>4 DEF Open, Opened
    <2>6. Released' = Released \/ Released' = Released \ {cur}
      <3>1. CASE st.door_lock_timer[cur] = 1
        BY <1>1, <2>2, <2>4, <3>1 DEF Released
      <3>2. CASE st.door_lock_timer[cur] # 1
        BY <2>2, <2>3, <2>4, <3>2 DEF Released, Unlocked
      <3>3. QED
        BY <3>1, <3>2
    <2>7. QED
      BY <1>2, <2>5, <2>6, AbstractStep
  <1>4. ASSUME NEW m \in SUBSET Bit, cur \in Visited, Visited' = Visited,
               st'.output = unlock_door(st, cur, m).output \/ st'.output = st.output
        PROVE  \/ /\ airLockPartnerLocal[cur] \notin Released \cup Open
                  /\ Released' = Released \cup {cur}
               \/ Released' = Released
    <2> DEFINE t == unlock_door(st, cur, m)
    <2>1. CASE st'.output = st.output
      BY <1>4, <2>1 DEF Released, Unlocked
    <2>2. CASE st'.output = t.output
      <3>1. \A e \in Door : Unlocked(st', e) <=> Unlocked(t, e)
        BY <2>2 DEF Unlocked
      <3>2. /\ Blocked(st, cur) => t.output = st.output
            /\ Unlocked(st, cur) => Unlocked(t, cur)
            /\ \A e \in Door : e # cur => (Unlocked(t, e) <=> Unlocked(st, e))
        BY <1>2, UnlockLocks
      <3> HIDE DEF t
      <3>3. CASE Blocked(st, cur)
        BY <1>4, <2>2, <3>2, <3>3 DEF Released, Unlocked
      <3>4. CASE ~Blocked(st, cur)
        <4>1. airLockPartnerLocal[cur] \notin Released \cup Open
          BY <1>4, <3>4, ReleaseIsFree
        <4>2. Released' = Released \cup {cur} \/ Released' = Released
          BY <1>1, <1>4, <3>1, <3>2 DEF Released
        <4>3. QED
          BY <4>1, <4>2
      <3>5. QED
        BY <3>3, <3>4
    <2>3. QED
      BY <1>4, <2>1, <2>2
  <1>5. CASE Grant
    <2>1. PICK m \in Grants[cur] : st' = unlock_door(st, cur, m)
      BY <1>5 DEF Grant
    <2>2. m \in SUBSET Bit
      BY <1>2, ControllerAssumption
    <2>3. /\ phase = "readers" /\ phase' = phase /\ cur' = cur /\ booted' = booted
          /\ cur \in Polled
      BY <1>5 DEF Grant, AirlockInv
    <2>4. Visited' = Visited /\ cur \in Visited
      BY <2>3 DEF Visited
    <2>5. Open' = Open
      <3>1. st'.lastInput = st.lastInput
        BY <1>2, <2>1, <2>2, UnlockFields
      <3>2. QED
        BY <3>1 DEF Open, Opened
    <2>6. QED
      BY <1>2, <1>4, <2>1, <2>2, <2>4, <2>5, AbstractStep
  <1>6. CASE NextDoor
    <2>1. st' = st /\ phase = "readers" /\ cur \in Polled
      BY <1>6 DEF NextDoor, AirlockInv
    <2>2. Visited' = Visited
      <3>1. doorsCount \in Nat /\ cur \in 0 .. doorsCount - 1 /\ cur \in Int
        BY <2>1, DoorsCount DEF Polled
      <3>2. CASE cur + 1 < doorsCount
        <4>1. cur' = cur + 1 /\ phase' = "timer" /\ booted' = booted
          BY <1>6, <3>2 DEF NextDoor
        <4>2. {d \in Polled : d < cur \/ d = cur} = {d \in Polled : d < cur + 1}
          BY <3>1 DEF Polled
        <4>3. QED
          BY <2>1, <4>1, <4>2 DEF Visited
      <3>3. CASE ~(cur + 1 < doorsCount)
        <4>1. booted' = TRUE
          BY <1>6, <3>3 DEF NextDoor
        <4>2. {d \in Polled : d < cur \/ d = cur} = Polled
          BY <3>1, <3>3 DEF Polled
        <4>3. QED
          BY <2>1, <4>1, <4>2 DEF Visited
      <3>4. QED
        BY <3>2, <3>3
    <2>3. QED
      BY <2>1, <2>2 DEF IL!vars
  <1>7. CASE ReadInputs \/ NoDatagram
    <2>1. st' = st /\ cur' = cur /\ booted' = booted
      BY <1>7 DEF ReadInputs, NoDatagram
    <2>2. phase # "readers" /\ phase' # "readers" /\ phase' \in Phase
      BY <1>7 DEF ReadInputs, NoDatagram, LoopStart, Phase
    <2>3. Visited' = Visited
      BY <2>1, <2>2 DEF Visited
    <2>4. QED
      BY <2>1, <2>3 DEF IL!vars
  <1>8. CASE CheckInput
    <2>1. PICK i \in get_input_state(cur, phase = "inputFailed", Inputs) :
            st' = check_input(st, cur, i)
      BY <1>8 DEF CheckInput
    <2>2. i \in SUBSET InputBit /\ {0} \in SUBSET Bit
      BY ControllerAssumption DEF get_input_state, Bit
    <2>3. /\ phase \in {"input", "inputFailed"} /\ cur \in Polled
          /\ booted \/ doorsCount = 0
      BY <1>8 DEF CheckInput, AirlockInv
    <2>4. doorsCount # 0 /\ booted
      BY <2>3, DoorsCount DEF Polled
    <2>5. Visited' = Visited /\ cur \in Visited
      BY <1>8, <2>3, <2>4 DEF CheckInput, Visited
    <2>6. \/ st'.output = st.output
          \/ st'.output = unlock_door(st, cur, {0}).output
      BY <1>2, <2>1, <2>2, CheckReleases
    <2>7. Open' \in {Open, Open \cup {cur}, Open \ {cur}}
      <3>1. st'.lastInput = [st.lastInput EXCEPT ![cur] = i]
        BY <1>2, <2>1, <2>2, CheckFields
      <3>2. st.lastInput \in [Door -> SUBSET InputBit]
        BY <1>2 DEF State
      <3>3. \A e \in Door : e # cur => (Opened(st', e) <=> Opened(st, e))
        BY <3>1, <3>2 DEF Opened
      <3>4. QED
        BY <1>2, <3>3 DEF Open
    <2>8. QED
      BY <1>2, <1>4, <2>2, <2>5, <2>6, <2>7, AbstractStep
  <1>9. CASE UNCHANGED vars
    BY <1>9 DEF vars, IL!vars, Visited
  <1>10. QED
    BY <1>3, <1>5, <1>6, <1>7, <1>8, <1>9 DEF Next, LoopStep

(* The main loop implements the abstract airlock: seen through its locks   *)
(* and door sensors it releases one door at a time, and only a door whose  *)
(* partner is neither released nor open.                                   *)
THEOREM LoopImplementsInterlock ==
  ASSUME AirlockPairs, DisjointOutputs
  PROVE  Spec => ImplementsInterlock
  <1>1. TypeOK /\ AirlockInv /\ [Next]_vars => [IL!Next]_(IL!vars)
    BY InterlockNext
  <1>2. QED
    BY <1>1, InterlockInit, AirlockInvariant, TypeCorrect, PTL
    DEF Spec, ImplementsInterlock, IL!Spec

(* What the abstract airlock is for: two doors that are each other's       *)
(* partner are never released together.                                    *)
THEOREM InterlockExcludes == IL!Spec => []IL!Exclusion
  <1>1. IL!Init => IL!Exclusion
    BY DEF IL!Init, IL!Exclusion
  <1>2. IL!Exclusion /\ [IL!Next]_(IL!vars) => IL!Exclusion'
    BY DEF IL!Exclusion, IL!Next, IL!vars, IL!Release, IL!Free, IL!Lock, IL!Keep
  <1>3. QED
    BY <1>1, <1>2, PTL DEF IL!Spec
=============================================================================
