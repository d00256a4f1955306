------------------------ MODULE RemoteControl_proofs ------------------------
(***************************************************************************)
(* The remote commands, for any commands, failing statements and restarts: *)
(* the state database keeps its type and its uniqueness, a blocked output  *)
(* does not move, a blockade of the airlock is not released, an answered   *)
(* "set" is durable, and the airlock outlives commands and restarts.       *)
(***************************************************************************)
EXTENDS RemoteControl, Airlock_proofs, WellFoundedInduction

-----------------------------------------------------------------------------
(* Loops over the rows.  An induction over their number takes the least    *)
(* counterexample.                                                         *)

Below == OpToRel(<, Nat)

(* A non-empty set of natural numbers has a least element.                 *)
LEMMA Least ==
  ASSUME NEW T \in SUBSET Nat, T # {}
  PROVE  \E n \in T : \A m \in T : ~(m < n)
  <1>1. IsWellFoundedOn(Below, Nat)
    BY NatLessThanWellFounded, Zenon DEF Below
  <1>2. PICK x \in T : \A y \in T : ~(<<y, x>> \in Below)
    BY <1>1, WFMin
  <1>3. \A y \in T : <<y, x>> \in Below <=> y < x
    BY DEF Below, OpToRel
  <1>4. QED
    BY <1>2, <1>3

(* What n rounds of a loop make of x0, step[<<x, i>>] being the round i. *)
Rounds(h, n, X, x0, step) ==
  /\ h \in [0 .. n -> X]
  /\ h[0] = x0
  /\ \A i \in 1 .. n : h[i] = step[<<h[i - 1], i>>]

(* A loop whose rounds stay in X has a result after every round. *)
LEMMA LoopRuns ==
  ASSUME NEW n \in Nat, NEW X, NEW x0 \in X, NEW step \in [X \X (1 .. n) -> X]
  PROVE  \E h : Rounds(h, n, X, x0, step)
  <1> DEFINE Bad == {m \in 0 .. n : ~ \E h : Rounds(h, m, X, x0, step)}
  <1>1. Bad \in SUBSET Nat
    OBVIOUS
  <1>2. SUFFICES ASSUME Bad # {} PROVE FALSE
    OBVIOUS
  <1>3. PICK m \in Bad : \A k \in Bad : ~(k < m)
    BY <1>1, <1>2, Least
  <1>4. m \in 0 .. n /\ ~ \E h : Rounds(h, m, X, x0, step)
    BY <1>3
  <1>5. CASE m = 0
    <2> DEFINE g == [i \in 0 .. 0 |-> x0]
    <2>1. g \in [0 .. 0 -> X] /\ g[0] = x0 /\ \A i \in 1 .. 0 : FALSE
      OBVIOUS
    <2>2. Rounds(g, 0, X, x0, step)
      BY <2>1 DEF Rounds
    <2>3. QED
      BY <1>4, <1>5, <2>2
  <1>6. CASE m # 0
    <2>1. m - 1 \in 0 .. n /\ m - 1 < m /\ m \in 1 .. n /\ m - 1 \in Nat
      BY <1>4, <1>6
    <2>2. m - 1 \notin Bad
      BY <1>3, <2>1
    <2>3. PICK h : Rounds(h, m - 1, X, x0, step)
      BY <2>1, <2>2
    <2>4. /\ h \in [0 .. m - 1 -> X] /\ h[0] = x0
          /\ \A i \in 1 .. m - 1 : h[i] = step[<<h[i - 1], i>>]
      BY <2>3 DEF Rounds
    <2> DEFINE y == step[<<h[m - 1], m>>]
               g == [i \in 0 .. m |-> IF i = m THEN y ELSE h[i]]
    <2>5. y \in X
      BY <2>1, <2>4
    <2> HIDE DEF y
    <2>6. /\ g \in [0 .. m -> X] /\ g[0] = x0 /\ g[m] = y
          /\ \A i \in 0 .. m - 1 : g[i] = h[i]
      BY <2>1, <2>4, <2>5
    <2> HIDE DEF g
    <2>7. \A i \in 1 .. m : g[i] = step[<<g[i - 1], i>>]
      <3> TAKE i \in 1 .. m
      <3>1. i - 1 \in 0 .. m - 1
        BY <2>1
      <3>2. CASE i = m
        BY <2>6, <3>1, <3>2 DEF y
      <3>3. CASE i # m
        <4>1. i \in 1 .. m - 1 /\ i \in 0 .. m - 1
          BY <2>1, <3>3
        <4>2. QED
          BY <2>4, <2>6, <3>1, <4>1
      <3>4. QED
        BY <3>2, <3>3
    <2>8. Rounds(g, m, X, x0, step)
      BY <2>6, <2>7 DEF Rounds
    <2>9. QED
      BY <1>4, <2>8
  <1>7. QED
    BY <1>5, <1>6

(* What holds before the first round, and after a round if before it,      *)
(* holds after every round.  T is the set of the rounds it holds after.    *)
LEMMA EveryRound ==
  ASSUME NEW n \in Nat, NEW T \in SUBSET (0 .. n), 0 \in T,
         \A i \in 1 .. n : i - 1 \in T => i \in T
  PROVE  \A i \in 0 .. n : i \in T
  <1> DEFINE Bad == (0 .. n) \ T
  <1>1. SUFFICES ASSUME Bad # {} PROVE FALSE
    OBVIOUS
  <1>2. Bad \in SUBSET Nat
    OBVIOUS
  <1>3. PICK i \in Bad : \A k \in Bad : ~(k < i)
    BY <1>1, <1>2, Least
  <1>4. i \in 1 .. n /\ i - 1 \in 0 .. n /\ i - 1 < i
    BY <1>3
  <1>5. QED
    BY <1>3, <1>4

-----------------------------------------------------------------------------
(* The replay of the rows at the start *)

(* Restoring one row keeps the doors well typed.                           *)
LEMMA RestoreType ==
  ASSUME NEW s \in State, NEW row \in Row
  PROVE  restore_row(s, row) \in State
  <1> DEFINE d == row.door
             o == IF row.mode = "unlock" THEN unlock_door(s, d, row.arg)
                                         ELSE lock_door(s, d, row.arg)
             b == [o EXCEPT !.admDisableMask[d] = row.arg]
  <1>1. d \in Door /\ row.arg \in SUBSET Bit
    BY DEF Row
  <1>2. o \in State
    BY <1>1, UnlockFields, LockFields
  <1> HIDE DEF o
  <1>3. b \in State
    BY <1>1, <1>2 DEF State
  <1>4. restore_row(s, row) = IF d \notin Polled THEN s ELSE signalDoorStatus(b, d)
    BY DEF restore_row, o
  <1> HIDE DEF b
  <1>5. QED
    BY <1>1, <1>3, <1>4, SignalFields

(* The replay as a sequence of states, one for each number of rows         *)
(* restored so far.                                                        *)
LEMMA ReplayRuns ==
  ASSUME NEW s \in State, NEW rows \in Seq(Row)
  PROVE  \E h \in [0 .. Len(rows) -> State] :
           /\ h[0] = s
           /\ \A i \in 1 .. Len(rows) : h[i] = restore_row(h[i - 1], rows[i])
           /\ init_remote_control(s, rows) = h[Len(rows)]
  <1> DEFINE n == Len(rows)
             step == [p \in State \X (1 .. n) |-> restore_row(p[1], rows[p[2]])]
             R == CHOOSE g : g = [i \in 0 .. Len(rows) |->
                    IF i = 0 THEN s ELSE restore_row(g[i - 1], rows[i])]
  <1>1. n \in Nat /\ \A i \in 1 .. n : rows[i] \in Row
    OBVIOUS
  <1>2. init_remote_control(s, rows) = R[n]
    BY Zenon DEF init_remote_control
  <1>3. step \in [State \X (1 .. n) -> State]
    BY <1>1, RestoreType
  <1> HIDE DEF n
  <1>4. PICK h : Rounds(h, n, State, s, step)
    BY <1>1, <1>3, LoopRuns
  <1>5. h = [i \in 0 .. n |-> IF i = 0 THEN s ELSE restore_row(h[i - 1], rows[i])]
    <2>1. h \in [0 .. n -> State] /\ h[0] = s
          /\ \A i \in 1 .. n : h[i] = step[<<h[i - 1], i>>]
      BY <1>4 DEF Rounds
    <2>2. \A i \in 0 .. n : i # 0 => i \in 1 .. n /\ i - 1 \in 0 .. n
      BY <1>1
    <2>3. \A i \in 0 .. n :
            h[i] = IF i = 0 THEN s ELSE restore_row(h[i - 1], rows[i])
      BY <2>1, <2>2
    <2>4. QED
      BY <2>1, <2>3
  <1>6. R = [i \in 0 .. n |-> IF i = 0 THEN s ELSE restore_row(R[i - 1], rows[i])]
    BY <1>5, Zenon DEF n
  <1> HIDE DEF R, step
  <1>7. R[0] = s /\ \A i \in 1 .. n : R[i] = restore_row(R[i - 1], rows[i])
    BY <1>1, <1>6
  <1> DEFINE Typed == {i \in 0 .. n : R[i] \in State}
  <1>8. \A i \in 0 .. n : i \in Typed
    <2>1. 0 \in Typed
      BY <1>1, <1>7
    <2>2. \A i \in 1 .. n : i - 1 \in Typed => i \in Typed
      BY <1>1, <1>7, RestoreType
    <2>3. Typed \in SUBSET (0 .. n)
      OBVIOUS
    <2> HIDE DEF Typed
    <2>4. QED
      BY <1>1, <2>1, <2>2, <2>3, EveryRound, Zenon
  <1>9. R \in [0 .. n -> State]
    <2>1. \A i \in 0 .. n : R[i] \in State
      BY <1>8
    <2>2. DOMAIN R = 0 .. n /\ R = [i \in 0 .. n |-> R[i]]
      BY <1>6
    <2>3. QED
      BY <2>1, <2>2
  <1>10. QED
    BY <1>2, <1>7, <1>9 DEF n

(* Whatever rows are stored, the program starts in a well-typed state. *)
LEMMA ReplayType ==
  ASSUME NEW s \in State, NEW rows \in Seq(Row)
  PROVE  init_remote_control(s, rows) \in State
  <1>1. Len(rows) \in 0 .. Len(rows)
    OBVIOUS
  <1>2. QED
    BY <1>1, ReplayRuns

-----------------------------------------------------------------------------
(* The DELETE and the INSERT OR REPLACE *)

Unique(rows) ==
  \A i, j \in 1 .. Len(rows) :
    rows[i].door = rows[j].door /\ rows[i].mode = rows[j].mode => i = j

Matches(row, d, mode) == row.door = d /\ row.mode = mode

(* What is left of the first i rows: all of them but the one of the door   *)
(* and mode that is deleted.                                               *)
KeptOf(q, i, rows, d, mode) ==
  /\ q \in Seq(Row)
  /\ \A j \in 1 .. i : ~Matches(rows[j], d, mode) => \E k \in 1 .. Len(q) : q[k] = rows[j]
  /\ \A k \in 1 .. Len(q) : ~Matches(q[k], d, mode)
  /\ \A k \in 1 .. Len(q) : \E j \in 1 .. i : q[k] = rows[j]
  /\ Unique(rows) => Unique(q)

(* One more row is kept. *)
LEMMA KeepOne ==
  ASSUME NEW rows \in Seq(Row), NEW i \in 1 .. Len(rows), NEW d, NEW mode,
         NEW q, KeptOf(q, i - 1, rows, d, mode), ~Matches(rows[i], d, mode)
  PROVE  KeptOf(Append(q, rows[i]), i, rows, d, mode)
  <1> DEFINE a == Append(q, rows[i])
  <1>1. q \in Seq(Row) /\ rows[i] \in Row /\ Len(q) \in Nat
    BY DEF KeptOf
  <1>2. /\ a \in Seq(Row) /\ Len(a) = Len(q) + 1 /\ a[Len(q) + 1] = rows[i]
        /\ \A k \in 1 .. Len(q) : a[k] = q[k]
    BY <1>1
  <1>3. 1 .. Len(a) = (1 .. Len(q)) \cup {Len(q) + 1}
    BY <1>1, <1>2
  <1> HIDE DEF a
  <1>4. \A k \in 1 .. Len(a) : ~Matches(a[k], d, mode)
    BY <1>2, <1>3 DEF KeptOf
  <1>5. \A k \in 1 .. Len(a) : \E j \in 1 .. i : a[k] = rows[j]
    <2>1. \A j \in 1 .. i - 1 : j \in 1 .. i
      OBVIOUS
    <2>2. i \in 1 .. i
      OBVIOUS
    <2>3. \A k \in 1 .. Len(q) : \E j \in 1 .. i - 1 : q[k] = rows[j]
      BY DEF KeptOf
    <2>4. QED
      BY <1>2, <1>3, <2>1, <2>2, <2>3
  <1>6. ASSUME Unique(rows) PROVE Unique(a)
    <2>1. \A k \in 1 .. Len(q) :
            ~(q[k].door = rows[i].door /\ q[k].mode = rows[i].mode)
      <3> SUFFICES ASSUME NEW k \in 1 .. Len(q),
                          q[k].door = rows[i].door, q[k].mode = rows[i].mode
                   PROVE  FALSE
        OBVIOUS
      <3>1. PICK j \in 1 .. i - 1 : q[k] = rows[j]
        BY DEF KeptOf
      <3>2. j \in 1 .. Len(rows) /\ j # i
        OBVIOUS
      <3>3. QED
        BY <1>6, <3>1, <3>2 DEF Unique
    <2>2. Unique(q)
      BY <1>6 DEF KeptOf
    <2>3. QED
      BY <1>2, <1>3, <2>1, <2>2 DEF Unique
  <1>7. ASSUME NEW j \in 1 .. i, ~Matches(rows[j], d, mode)
        PROVE  \E k \in 1 .. Len(a) : a[k] = rows[j]
    <2>1. CASE j = i
      BY <1>2, <1>3, <2>1
    <2>2. CASE j # i
      <3>1. j \in 1 .. i - 1
        BY <2>2
      <3>2. PICK k \in 1 .. Len(q) : q[k] = rows[j]
        BY <1>7, <3>1 DEF KeptOf
      <3>3. QED
        BY <1>2, <1>3, <3>2
    <2>3. QED
      BY <2>1, <2>2
  <1>8. QED
    BY <1>2, <1>4, <1>5, <1>6, <1>7 DEF KeptOf, a

(* DELETE: no row of that door and mode is left, nothing new appears.      *)
LEMMA UnsetRows ==
  ASSUME NEW rows \in Seq(Row), NEW d, NEW mode
  PROVE  KeptOf(db_unset(rows, d, mode), Len(rows), rows, d, mode)
  <1> DEFINE n == Len(rows)
             round(q, i) == IF rows[i].door = d /\ rows[i].mode = mode THEN q
                            ELSE Append(q, rows[i])
             step == [p \in Seq(Row) \X (1 .. n) |-> round(p[1], p[2])]
             R == CHOOSE g : g = [i \in 0 .. Len(rows) |->
                    IF i = 0 THEN <<>>
                    ELSE IF rows[i].door = d /\ rows[i].mode = mode THEN g[i - 1]
                    ELSE Append(g[i - 1], rows[i])]
  <1>1. n \in Nat /\ \A i \in 1 .. n : rows[i] \in Row
    OBVIOUS
  <1>2. db_unset(rows, d, mode) = R[n]
    BY Zenon DEF db_unset
  <1>3. step \in [Seq(Row) \X (1 .. n) -> Seq(Row)]
    BY <1>1
  <1>4. <<>> \in Seq(Row)
    OBVIOUS
  <1> HIDE DEF n
  <1>5. PICK h : Rounds(h, n, Seq(Row), <<>>, step)
    BY <1>1, <1>3, <1>4, LoopRuns
  <1>6. h = [i \in 0 .. n |->
               IF i = 0 THEN <<>>
               ELSE IF rows[i].door = d /\ rows[i].mode = mode THEN h[i - 1]
               ELSE Append(h[i - 1], rows[i])]
    <2>1. h \in [0 .. n -> Seq(Row)] /\ h[0] = <<>>
          /\ \A i \in 1 .. n : h[i] = step[<<h[i - 1], i>>]
      BY <1>5 DEF Rounds
    <2>2. \A i \in 0 .. n : i # 0 => i \in 1 .. n /\ i - 1 \in 0 .. n
      BY <1>1
    <2>3. \A i \in 1 .. n : h[i] = round(h[i - 1], i)
      <3>1. \A q \in Seq(Row), i \in 1 .. n : step[<<q, i>>] = round(q, i)
        OBVIOUS
      <3> HIDE DEF step, round
      <3>2. \A i \in 1 .. n : h[i - 1] \in Seq(Row)
        BY <2>1, <2>2, <1>1
      <3>3. QED
        BY <2>1, <3>1, <3>2
    <2>4. \A i \in 0 .. n :
            h[i] = IF i = 0 THEN <<>>
                   ELSE IF rows[i].door = d /\ rows[i].mode = mode THEN h[i - 1]
                   ELSE Append(h[i - 1], rows[i])
      BY <2>1, <2>2, <2>3, Zenon
    <2>5. h = [i \in 0 .. n |-> h[i]]
      BY <2>1
    <2>6. QED
      BY <2>4, <2>5, Zenon
  <1>7. R = [i \in 0 .. n |->
               IF i = 0 THEN <<>>
               ELSE IF rows[i].door = d /\ rows[i].mode = mode THEN R[i - 1]
               ELSE Append(R[i - 1], rows[i])]
    BY <1>6, Zenon DEF n
  <1> HIDE DEF R, step
  <1> DEFINE Bad == {i \in 0 .. n : ~KeptOf(R[i], i, rows, d, mode)}
  <1>8. Bad = {}
    <2> SUFFICES ASSUME Bad # {} PROVE FALSE
      OBVIOUS
    <2>1. Bad \in SUBSET Nat
      BY <1>1
    <2>2. PICK i \in Bad : \A k \in Bad : ~(k < i)
      BY <2>1, Least
    <2>3. i \in 0 .. n /\ ~KeptOf(R[i], i, rows, d, mode)
      BY <2>2
    <2>4. i # 0
      <3>1. R[0] = <<>>
        BY <1>1, <1>7
      <3>2. KeptOf(<<>>, 0, rows, d, mode)
        BY DEF KeptOf, Unique
      <3>3. QED
        BY <2>3, <3>1, <3>2
    <2>5. i - 1 \in 0 .. n /\ i - 1 < i /\ i \in 1 .. n
      BY <1>1, <2>3, <2>4
    <2>6. KeptOf(R[i - 1], i - 1, rows, d, mode)
      BY <2>2, <2>5
    <2>7. CASE Matches(rows[i], d, mode)
      <3>1. R[i] = R[i - 1]
        BY <1>7, <2>3, <2>4, <2>7 DEF Matches
      <3>2. 1 .. i = (1 .. i - 1) \cup {i}
        BY <2>5
      <3>3. KeptOf(R[i - 1], i, rows, d, mode)
        BY <2>6, <2>7, <3>2 DEF KeptOf
      <3>4. QED
        BY <2>3, <3>1, <3>3
    <2>8. CASE ~Matches(rows[i], d, mode)
      <3>1. R[i] = Append(R[i - 1], rows[i])
        BY <1>7, <2>3, <2>4, <2>8 DEF Matches
      <3>2. KeptOf(Append(R[i - 1], rows[i]), i, rows, d, mode)
        BY <2>5, <2>6, <2>8, KeepOne DEF n
      <3>3. QED
        BY <2>3, <3>1, <3>2
    <2>9. QED
      BY <2>7, <2>8
  <1>9. KeptOf(R[n], n, rows, d, mode)
    BY <1>1, <1>8
  <1>10. QED
    BY <1>2, <1>9 DEF n

(* INSERT OR REPLACE: door and mode stay unique. *)
LEMMA SetRows ==
  ASSUME NEW rows \in Seq(Row), Unique(rows),
         NEW d \in Door, NEW mode \in Mode, NEW arg \in SUBSET Bit
  PROVE  db_set(rows, d, mode, arg) \in Seq(Row) /\ Unique(db_set(rows, d, mode, arg))
  <1> DEFINE u == db_unset(rows, d, mode)
             r == [door |-> d, mode |-> mode, arg |-> arg]
             a == Append(u, r)
  <1>1. /\ u \in Seq(Row) /\ Unique(u)
        /\ \A k \in 1 .. Len(u) : ~Matches(u[k], d, mode)
    BY UnsetRows DEF KeptOf
  <1>2. r \in Row /\ r.door = d /\ r.mode = mode
    BY DEF Row
  <1>3. db_set(rows, d, mode, arg) = a
    BY DEF db_set
  <1> HIDE DEF u, r
  <1>4. /\ a \in Seq(Row) /\ Len(u) \in Nat /\ Len(a) = Len(u) + 1
        /\ a[Len(u) + 1] = r
        /\ \A k \in 1 .. Len(u) : a[k] = u[k]
    BY <1>1, <1>2
  <1>5. 1 .. Len(a) = (1 .. Len(u)) \cup {Len(u) + 1}
    BY <1>4
  <1> HIDE DEF a
  <1>6. Unique(a)
    BY <1>1, <1>2, <1>4, <1>5 DEF Unique, Matches
  <1>7. QED
    BY <1>3, <1>4, <1>6

-----------------------------------------------------------------------------
(* Types *)

(* The command in progress is a "set" of a door the program knows.         *)
PendingOK ==
  phase \in {"dbDelete", "dbInsert"} =>
    pending.door \in Door /\ pending.arg1 \in Mode /\ pending.arg2 \in SUBSET Bit

RCInv == RCTypeOK /\ PendingOK

(* A datagram that passes the checks is a command to a known door.         *)
LEMMA CommandType ==
  ASSUME NEW c \in Commands, c.door \in Polled
  PROVE  c \in Command /\ c.door \in Door /\ c.arg2 \in SUBSET Bit
  BY RemoteAssumption, DoorsCount DEF Command

(* The door part of "set", field by field. *)
LEMMA SetFields ==
  ASSUME NEW s \in State, NEW c \in Command, c.door \in Door
  PROVE  LET d == c.door
             z == [s EXCEPT !.admDisableMask[d] = {}, !.airLockMask[d] = {}]
             o == IF c.arg1 = "unlock" THEN unlock_door(z, d, c.arg2)
                                       ELSE lock_door(z, d, c.arg2)
         IN /\ z \in State /\ z.output = s.output
            /\ o \in State
            /\ set_door(s, c) \in State
            /\ set_door(s, c).output = o.output
  <1> DEFINE d == c.door
             z == [s EXCEPT !.admDisableMask[d] = {}, !.airLockMask[d] = {}]
             o == IF c.arg1 = "unlock" THEN unlock_door(z, d, c.arg2)
                                       ELSE lock_door(z, d, c.arg2)
  <1>1. c.arg2 \in SUBSET Bit
    BY DEF Command
  <1>2. z \in State /\ z.output = s.output
    BY DEF State
  <1>3. set_door(s, c) = [o EXCEPT !.admDisableMask[d] = c.arg2]
    BY DEF set_door
  <1> HIDE DEF z
  <1>4. o \in State
    BY <1>1, <1>2, UnlockFields, LockFields
  <1> HIDE DEF o
  <1>5. /\ [o EXCEPT !.admDisableMask[d] = c.arg2] \in State
        /\ [o EXCEPT !.admDisableMask[d] = c.arg2].output = o.output
    BY <1>1, <1>4 DEF State
  <1>6. QED
    BY <1>2, <1>3, <1>4, <1>5 DEF o, z

(* "unset" and "do block" change one mask of one door. *)
LEMMA MaskFields ==
  ASSUME NEW s \in State, NEW d \in Door, NEW m \in SUBSET Bit
  PROVE  /\ [s EXCEPT !.admDisableMask[d] = m] \in State
         /\ [s EXCEPT !.admDisableMask[d] = m].output = s.output
         /\ [s EXCEPT !.airLockMask[d] = m] \in State
         /\ [s EXCEPT !.airLockMask[d] = m].output = s.output
  BY DEF State

(* The first start, with an empty database.                                *)
LEMMA RCInitType == RCInit => RCInv
  <1> SUFFICES ASSUME RCInit PROVE RCInv
    OBVIOUS
  <1>1. TypeOK
    BY InitType DEF RCInit
  <1>2. phase \in Phase
    BY <1>1 DEF TypeOK
  <1>3. db \in Seq(Row) /\ Len(db) = 0
    BY DEF RCInit
  <1>4. RCTypeOK
    BY <1>1, <1>3 DEF RCInit, RCTypeOK, TypeOK
  <1>5. PendingOK
    BY <1>2 DEF PendingOK, Phase
  <1>6. QED
    BY <1>4, <1>5 DEF RCInv

(* The step of a datagram that changes no statement in progress.           *)
LEMMA AnsweredType ==
  ASSUME RCInv, Answered, st' \in State, UNCHANGED <<pending, dbOk>>,
         db' \in Seq(Row), Unique(db'), acked' \in [Door -> Commands \cup {NoCommand}]
  PROVE  RCInv'
  <1>1. phase' \in {"gpio", "timer"}
    BY DEF Answered, LoopStart
  <1>2. RCTypeOK'
    BY <1>1 DEF RCInv, RCTypeOK, Answered, Unique, Phase
  <1>3. PendingOK'
    BY <1>1 DEF PendingOK
  <1>4. QED
    BY <1>2, <1>3 DEF RCInv

(* Every datagram keeps the types. *)
LEMMA CommandKeepsType ==
  ASSUME RCInv, NEW c \in Commands,
         Set(c) \/ Unset(c) \/ DoUnlock(c) \/ DoLock(c) \/ DoBlock(c) \/ NoEffect(c)
  PROVE  RCInv'
  <1>1. /\ st \in State /\ db \in Seq(Row) /\ Unique(db)
        /\ acked \in [Door -> Commands \cup {NoCommand}]
        /\ pending \in Commands \cup {NoCommand} /\ dbOk \in BOOLEAN
        /\ cur \in Door /\ booted \in BOOLEAN
    BY DEF RCInv, RCTypeOK, Unique
  <1>2. CASE Set(c)
    <2>1. /\ c.door \in Polled /\ c.arg1 \in Mode /\ st' = set_door(st, c)
          /\ phase' = "dbDelete" /\ pending' = c /\ dbOk' = TRUE
          /\ acked' = [acked EXCEPT ![c.door] = NoCommand]
          /\ UNCHANGED <<cur, booted, db>>
      BY <1>2 DEF Set
    <2>2. c \in Command /\ c.door \in Door /\ c.arg2 \in SUBSET Bit
      BY <2>1, CommandType
    <2>3. st' \in State
      <3>1. set_door(st, c) \in State
        BY <1>1, <2>2, SetFields, Zenon
      <3>2. QED
        BY <2>1, <3>1
    <2>4. RCTypeOK'
      BY <1>1, <2>1, <2>2, <2>3 DEF RCTypeOK, Unique
    <2>5. PendingOK'
      BY <2>1, <2>2 DEF PendingOK
    <2>6. QED
      BY <2>4, <2>5 DEF RCInv
  <1>3. CASE Unset(c)
    <2>1. /\ c.door \in Polled /\ Answered /\ UNCHANGED <<pending, dbOk>>
          /\ \/ /\ db' = db_unset(db, c.door, c.arg1)
                /\ st' = IF c.arg1 \in Mode
                         THEN signalDoorStatus([st EXCEPT !.admDisableMask[c.door] = {}],
                                               c.door)
                         ELSE st
                /\ acked' = IF c.arg1 \in Mode
                            THEN [acked EXCEPT ![c.door] = NoCommand] ELSE acked
             \/ UNCHANGED <<db, st, acked>>
      BY <1>3 DEF Unset
    <2>2. c.door \in Door
      BY <2>1, CommandType
    <2>3. db_unset(db, c.door, c.arg1) \in Seq(Row) /\ Unique(db_unset(db, c.door, c.arg1))
      BY <1>1, UnsetRows DEF KeptOf
    <2>4. signalDoorStatus([st EXCEPT !.admDisableMask[c.door] = {}], c.door) \in State
      <3>1. {} \in SUBSET Bit
        OBVIOUS
      <3>2. QED
        BY <1>1, <2>2, <3>1, MaskFields, SignalFields
    <2>5. st' \in State /\ db' \in Seq(Row) /\ Unique(db')
          /\ acked' \in [Door -> Commands \cup {NoCommand}]
      BY <1>1, <2>1, <2>2, <2>3, <2>4
    <2>6. QED
      BY <2>1, <2>5, AnsweredType
  <1>4. CASE DoUnlock(c) \/ DoLock(c)
    <2>1. /\ c.door \in Polled /\ Answered /\ UNCHANGED <<pending, dbOk, db, acked>>
          /\ \/ st' = st
             \/ st' = signalDoorStatus(unlock_door(st, c.door, c.arg2), c.door)
             \/ st' = signalDoorStatus(lock_door(st, c.door, c.arg2), c.door)
      BY <1>4 DEF DoUnlock, DoLock, rest
    <2>2. c.door \in Door /\ c.arg2 \in SUBSET Bit
      BY <2>1, CommandType
    <2>3. /\ unlock_door(st, c.door, c.arg2) \in State
          /\ lock_door(st, c.door, c.arg2) \in State
      BY <1>1, <2>2, UnlockFields, LockFields
    <2>4. st' \in State
      BY <1>1, <2>1, <2>2, <2>3, SignalFields
    <2>5. QED
      BY <1>1, <2>1, <2>4, AnsweredType
  <1>5. CASE DoBlock(c)
    <2>1. /\ c.door \in Polled /\ Answered /\ UNCHANGED <<pending, dbOk, db, acked>>
          /\ st' = [st EXCEPT !.airLockMask[c.door] =
                      IF c.arg1 = "block" THEN st.airLockMask[c.door] \cup c.arg2
                      ELSE st.airLockMask[c.door] \ c.arg2]
      BY <1>5 DEF DoBlock, rest
    <2>2. c.door \in Door /\ c.arg2 \in SUBSET Bit
      BY <2>1, CommandType
    <2>3. st.airLockMask[c.door] \in SUBSET Bit
      BY <1>1, <2>2 DEF State
    <2>4. st' \in State
      <3>1. PICK m \in SUBSET Bit : st' = [st EXCEPT !.airLockMask[c.door] = m]
        BY <2>1, <2>2, <2>3
      <3>2. QED
        BY <1>1, <2>2, <3>1, MaskFields
    <2>5. QED
      BY <1>1, <2>1, <2>4, AnsweredType
  <1>6. CASE NoEffect(c)
    <2>1. Answered /\ UNCHANGED <<st, pending, dbOk, db, acked>>
      BY <1>6 DEF NoEffect, rest
    <2>2. QED
      BY <1>1, <2>1, AnsweredType
  <1>7. QED
    BY <1>2, <1>3, <1>4, <1>5, <1>6

(* Every step of the program with its database keeps the types. *)
LEMMA RCNextType == RCInv /\ [RCNext]_rcvars => RCInv'
  <1> SUFFICES ASSUME RCInv, [RCNext]_rcvars PROVE RCInv'
    OBVIOUS
  <1>1. /\ st \in State /\ db \in Seq(Row) /\ Unique(db)
        /\ acked \in [Door -> Commands \cup {NoCommand}]
        /\ pending \in Commands \cup {NoCommand} /\ dbOk \in BOOLEAN
        /\ cur \in Door /\ booted \in BOOLEAN
    BY DEF RCInv, RCTypeOK, Unique
  <1>2. CASE Loop
    <2>1. Next /\ UNCHANGED <<db, pending, dbOk, acked>>
      BY <1>2 DEF Loop, Next, rest
    <2>2. phase \in Phase
      BY <2>1 DEF Next, LoopStep, DoorTimer, Grant, NextDoor, ReadInputs,
                  CheckInput, NoDatagram, Phase
    <2>3. TypeOK
      BY <1>1, <2>2 DEF TypeOK
    <2>4. TypeOK'
      BY <2>1, <2>3, NextType
    <2>5. RCTypeOK'
      BY <1>1, <2>1, <2>4 DEF TypeOK, RCTypeOK, Unique
    <2>6. PendingOK'
      BY <2>4 DEF TypeOK, PendingOK, Phase
    <2>7. QED
      BY <2>5, <2>6 DEF RCInv
  <1>3. ASSUME NEW c \in Commands,
               Set(c) \/ Unset(c) \/ DoUnlock(c) \/ DoLock(c) \/ DoBlock(c) \/ NoEffect(c)
        PROVE  RCInv'
    BY <1>3, CommandKeepsType
  <1>4. CASE SetDelete
    <2>1. /\ phase = "dbDelete" /\ phase' = "dbInsert"
          /\ db' = db \/ db' = db_unset(db, pending.door, Other(pending.arg1))
          /\ dbOk' \in BOOLEAN
          /\ UNCHANGED <<st, cur, booted, pending, acked>>
      BY <1>1, <1>4 DEF SetDelete
    <2>2. db' \in Seq(Row) /\ Unique(db')
      BY <1>1, <2>1, UnsetRows DEF KeptOf
    <2>3. RCTypeOK'
      BY <1>1, <2>1, <2>2 DEF RCTypeOK, Unique
    <2>4. PendingOK'
      BY <2>1 DEF RCInv, PendingOK
    <2>5. QED
      BY <2>3, <2>4 DEF RCInv
  <1>5. CASE SetInsert
    <2>1. /\ phase = "dbInsert" /\ Answered
          /\ \/ db' = db_set(db, pending.door, pending.arg1, pending.arg2)
             \/ db' = db
          /\ acked' = [acked EXCEPT ![pending.door] = pending] \/ acked' = acked
          /\ st' = signalDoorStatus(st, pending.door)
          /\ pending' = NoCommand /\ dbOk' = TRUE
      BY <1>5 DEF SetInsert
    <2>2. /\ pending.door \in Door /\ pending.arg1 \in Mode
          /\ pending.arg2 \in SUBSET Bit
      BY <2>1 DEF RCInv, PendingOK
    <2>3. db' \in Seq(Row) /\ Unique(db')
      BY <1>1, <2>1, <2>2, SetRows
    <2>4. st' \in State /\ acked' \in [Door -> Commands \cup {NoCommand}]
      BY <1>1, <2>1, <2>2, SignalFields
    <2>5. phase' \in {"gpio", "timer"} /\ UNCHANGED <<cur, booted>>
      BY <2>1 DEF Answered, LoopStart
    <2>6. RCTypeOK'
      BY <1>1, <2>1, <2>3, <2>4, <2>5 DEF RCTypeOK, Unique, Phase
    <2>7. PendingOK'
      BY <2>5 DEF PendingOK
    <2>8. QED
      BY <2>6, <2>7 DEF RCInv
  <1>6. CASE Restart
    <2>1. PICK out \in PowerUp \cup {st.output} :
            st' = init_remote_control(StartState(out, st.led), db)
      BY <1>6 DEF Restart
    <2>2. /\ phase' \in {"gpio", "timer"} /\ cur' = 0 /\ booted' = FALSE
          /\ pending' = NoCommand /\ dbOk' = TRUE /\ UNCHANGED <<db, acked>>
      BY <1>6 DEF Restart, LoopStart
    <2>3. out \in [Output -> LockState] /\ st.led \in [Door -> Led]
      BY <1>1, ControllerAssumption DEF State
    <2>4. st' \in State
      BY <1>1, <2>1, <2>3, StartType, ReplayType
    <2>5. RCTypeOK'
      BY <1>1, <2>2, <2>4, DoorsCount DEF RCTypeOK, Unique, Phase
    <2>6. PendingOK'
      BY <2>2 DEF PendingOK
    <2>7. QED
      BY <2>5, <2>6 DEF RCInv
  <1>7. CASE UNCHANGED rcvars
    BY <1>7 DEF rcvars, RCInv, RCTypeOK, PendingOK
  <1>8. QED
    BY <1>2, <1>3, <1>4, <1>5, <1>6, <1>7 DEF RCNext, check_network

(* For every set of commands, with failing statements and restarts at any  *)
(* point, the doors stay well typed and the database keeps one row for a   *)
(* door and a mode.                                                        *)
THEOREM RemoteTypeCorrect == RCSpec => []RCTypeOK
  <1>1. RCInv => RCTypeOK
    BY DEF RCInv
  <1>2. QED
    BY <1>1, RCInitType, RCNextType, PTL DEF RCSpec

-----------------------------------------------------------------------------
(* Blocked outputs *)

(* The outputs of door d in a mask of blocked sub-doors. *)
Covered(mask, d) == ShiftLeft(maskFull[d] \cap mask, maskOffset[d]) \cap Output

(* No output under the administrative block of door d moves from s to t,   *)
(* none under its airlock block is released.                               *)
Frozen(s, t, d) ==
  /\ \A o \in Covered(s.admDisableMask[d], d) : t.output[o] = s.output[o]
  /\ \A o \in Covered(s.airLockMask[d], d) :
       s.output[o] = "lock" => t.output[o] = "lock"

(* A block of a door covers outputs of that door only.                     *)
LEMMA CoveredOutputs ==
  ASSUME NEW m, NEW d \in Door
  PROVE  Covered(m, d) \subseteq OutputsOf(d)
  BY DEF Covered, OutputsOf, ShiftLeft

(* lock_door moves outputs of its own door only.                           *)
LEMMA LockReaches ==
  ASSUME NEW s \in State, NEW d \in Door, NEW mask \in SUBSET Bit
  PROVE  lock_mask(s, d, mask) \cap Output \subseteq OutputsOf(d)
  BY DEF lock_mask, ShiftLeft, OutputsOf

(* What unlock_door and lock_door reach lies outside the blocks. *)
LEMMA BlocksSpared ==
  ASSUME NEW s \in State, NEW d \in Door, NEW mask \in SUBSET Bit
  PROVE  /\ Covered(s.admDisableMask[d], d) \cap unlock_mask(s, d, mask) = {}
         /\ Covered(s.admDisableMask[d], d) \cap lock_mask(s, d, mask) = {}
         /\ Covered(s.airLockMask[d], d) \cap unlock_mask(s, d, mask) = {}
  BY DEF Covered, unlock_mask, lock_mask, ShiftLeft

(* A change of the outputs of one door that spares its blocks spares them  *)
(* all.                                                                    *)
LEMMA OutputsFrozen ==
  ASSUME DisjointOutputs, NEW s \in State, NEW t \in State,
         NEW d \in Door, NEW e \in Door, NEW m, NEW op \in LockState,
         m \cap Output \subseteq OutputsOf(d),
         t.output = set_door_state(s.output, op, m),
         Covered(s.admDisableMask[d], d) \cap m = {},
         op = "lock" \/ Covered(s.airLockMask[d], d) \cap m = {}
  PROVE  Frozen(s, t, e)
  <1>1. \A o \in Output : t.output[o] = IF o \in m THEN op ELSE s.output[o]
    BY DEF set_door_state
  <1>2. CASE e = d
    <2>1. \A o \in Covered(s.admDisableMask[d], d) : o \in Output /\ o \notin m
      BY DEF Covered
    <2>2. \A o \in Covered(s.airLockMask[d], d) :
            o \in Output /\ (op = "lock" \/ o \notin m)
      BY DEF Covered
    <2>3. QED
      BY <1>1, <1>2, <2>1, <2>2 DEF Frozen
  <1>3. CASE e # d
    <2>1. \A o \in OutputsOf(e) : o \in Output /\ o \notin m
      BY <1>3 DEF OutputsOf, DisjointOutputs
    <2>2. \A o \in OutputsOf(e) : t.output[o] = s.output[o]
      BY <1>1, <2>1
    <2>3. QED
      BY <2>2, CoveredOutputs DEF Frozen
  <1>4. QED
    BY <1>2, <1>3

(* A step that moves no output freezes every door.                         *)
LEMMA SameFrozen ==
  ASSUME NEW s, NEW t, NEW e \in Door, t.output = s.output
  PROVE  Frozen(s, t, e)
  BY DEF Frozen

(* unlock_door spares both blocks of every door.                           *)
LEMMA UnlockFrozen ==
  ASSUME DisjointOutputs, NEW s \in State, NEW d \in Door, NEW e \in Door,
         NEW mask \in SUBSET Bit
  PROVE  Frozen(s, unlock_door(s, d, mask), e)
  <1> DEFINE t == unlock_door(s, d, mask)
             m == unlock_mask(s, d, mask)
  <1>1. /\ t \in State
        /\ m = {} => t = s
        /\ m # {} => t.output = set_door_state(s.output, "unlock", m)
    BY UnlockFields
  <1>2. m \cap Output \subseteq OutputsOf(d)
    BY UnlockOutputs
  <1>3. /\ Covered(s.admDisableMask[d], d) \cap m = {}
        /\ Covered(s.airLockMask[d], d) \cap m = {}
    BY BlocksSpared
  <1> HIDE DEF t, m
  <1>4. "unlock" \in LockState
    BY DEF LockState
  <1>5. Frozen(s, t, e)
    BY <1>1, <1>2, <1>3, <1>4, OutputsFrozen, SameFrozen
  <1>6. QED
    BY <1>5 DEF t

(* lock_door spares the administrative block and releases nothing.         *)
LEMMA LockFrozen ==
  ASSUME DisjointOutputs, NEW s \in State, NEW d \in Door, NEW e \in Door,
         NEW mask \in SUBSET Bit
  PROVE  Frozen(s, lock_door(s, d, mask), e)
  <1> DEFINE t == lock_door(s, d, mask)
             m == lock_mask(s, d, mask)
  <1>1. /\ t \in State
        /\ m = {} => t = s
        /\ m # {} => t.output = set_door_state(s.output, "lock", m)
    BY LockFields
  <1>2. m \cap Output \subseteq OutputsOf(d)
    BY LockReaches
  <1>3. Covered(s.admDisableMask[d], d) \cap m = {}
    BY BlocksSpared
  <1> HIDE DEF t, m
  <1>4. "lock" \in LockState
    BY DEF LockState
  <1>5. Frozen(s, t, e)
    BY <1>1, <1>2, <1>3, <1>4, OutputsFrozen, SameFrozen
  <1>6. QED
    BY <1>5 DEF t

(* The time-out of a door spares the blocks.                               *)
LEMMA TimerFrozen ==
  ASSUME DisjointOutputs, NEW s \in State, NEW d \in Door, NEW e \in Door
  PROVE  Frozen(s, door_timer(s, d), e)
  <1> DEFINE c == [s EXCEPT !.door_lock_timer[d] = s.door_lock_timer[d] - 1]
             t == door_timer(s, d)
  <1>1. CASE s.door_lock_timer[d] = 0
    <2>1. t = s
      BY <1>1, TimerFields
    <2>2. QED
      BY <2>1, SameFrozen
  <1>2. CASE s.door_lock_timer[d] # 0
    <2>1. /\ c \in State /\ c.output = s.output
          /\ c.admDisableMask = s.admDisableMask /\ c.airLockMask = s.airLockMask
          /\ t = c \/ t = lock_door(c, d, maskFull[d])
      BY <1>2, TimerFields
    <2>2. maskFull[d] \in SUBSET Bit
      BY DoorAssumption
    <2> HIDE DEF c, t
    <2>3. Frozen(c, t, e)
      BY <2>1, <2>2, LockFrozen, SameFrozen
    <2>4. Frozen(s, t, e)
      BY <2>1, <2>3 DEF Frozen
    <2>5. QED
      BY <2>4 DEF t
  <1>3. QED
    BY <1>1, <1>2

(* The button and the sensor of a door spare the blocks.                   *)
LEMMA CheckFrozen ==
  ASSUME DisjointOutputs, NEW s \in State, NEW d \in Door, NEW e \in Door,
         NEW input \in SUBSET InputBit
  PROVE  Frozen(s, check_input(s, d, input), e)
  <1>1. {0} \in SUBSET Bit
    BY DEF Bit
  <1>2. Frozen(s, unlock_door(s, d, {0}), e)
    BY <1>1, UnlockFrozen
  <1>3. QED
    BY <1>2, CheckReleases DEF Frozen

(* "set" of one door moves no output of another. *)
LEMMA SetFrozen ==
  ASSUME DisjointOutputs, NEW s \in State, NEW c \in Command, c.door \in Door,
         NEW e \in Door, e # c.door
  PROVE  Frozen(s, set_door(s, c), e)
  <1> DEFINE d == c.door
             z == [s EXCEPT !.admDisableMask[d] = {}, !.airLockMask[d] = {}]
             o == IF c.arg1 = "unlock" THEN unlock_door(z, d, c.arg2)
                                       ELSE lock_door(z, d, c.arg2)
  <1>1. z \in State /\ z.output = s.output
    BY DEF State
  <1>2. z.admDisableMask[e] = s.admDisableMask[e] /\ z.airLockMask[e] = s.airLockMask[e]
    BY DEF State
  <1>3. c.arg2 \in SUBSET Bit
    BY DEF Command
  <1>4. set_door(s, c).output = o.output
    BY SetFields, Zenon
  <1> HIDE DEF z
  <1>5. Frozen(z, o, e)
    BY <1>1, <1>3, UnlockFrozen, LockFrozen
  <1> HIDE DEF o
  <1>6. QED
    BY <1>1, <1>2, <1>4, <1>5 DEF Frozen

(* Every step except a "set" of the door itself and a restart.             *)
LEMMA StepFrozen ==
  ASSUME DisjointOutputs, RCInv, RCNext, NEW e \in Door, ~SetOn(e), ~Restart
  PROVE  Frozen(st, st', e)
  <1>1. st \in State /\ cur \in Door
    BY DEF RCInv, RCTypeOK
  <1>2. CASE Loop
    <2>1. CASE DoorTimer
      BY <1>1, <2>1, TimerFrozen DEF DoorTimer
    <2>2. CASE Grant
      <3>1. PICK m \in Grants[cur] : st' = unlock_door(st, cur, m)
        BY <2>2 DEF Grant
      <3>2. m \in SUBSET Bit
        BY <1>1, ControllerAssumption
      <3>3. QED
        BY <1>1, <3>1, <3>2, UnlockFrozen
    <2>3. CASE CheckInput
      <3>1. PICK i \in get_input_state(cur, phase = "inputFailed", Inputs) :
              st' = check_input(st, cur, i)
        BY <2>3 DEF CheckInput
      <3>2. i \in SUBSET InputBit
        BY ControllerAssumption DEF get_input_state
      <3>3. QED
        BY <1>1, <3>1, <3>2, CheckFrozen
    <2>4. CASE NextDoor \/ ReadInputs \/ NoDatagram
      <3>1. st' = st
        BY <2>4 DEF NextDoor, ReadInputs, NoDatagram
      <3>2. QED
        BY <3>1, SameFrozen
    <2>5. QED
      BY <1>2, <2>1, <2>2, <2>3, <2>4 DEF Loop, LoopStep
  <1>3. ASSUME NEW c \in Commands, Set(c) PROVE Frozen(st, st', e)
    <2>1. /\ c.door \in Polled /\ st' = set_door(st, c)
          /\ phase = "network" /\ phase' = "dbDelete" /\ pending' = c
      BY <1>3 DEF Set, Receive
    <2>2. e # c.door
      BY <2>1 DEF SetOn
    <2>3. c \in Command /\ c.door \in Door
      BY <2>1, CommandType
    <2>4. QED
      BY <1>1, <2>1, <2>2, <2>3, SetFrozen
  <1>4. ASSUME NEW c \in Commands, Unset(c) \/ DoBlock(c) \/ NoEffect(c)
        PROVE  Frozen(st, st', e)
    <2>1. CASE NoEffect(c)
      BY <2>1, SameFrozen DEF NoEffect
    <2>2. CASE Unset(c)
      <3>1. /\ c.door \in Polled
            /\ \/ st' = signalDoorStatus([st EXCEPT !.admDisableMask[c.door] = {}],
                                         c.door)
               \/ st' = st
        BY <2>2 DEF Unset
      <3>2. c.door \in Door /\ {} \in SUBSET Bit
        BY <3>1, CommandType
      <3> DEFINE free == [st EXCEPT !.admDisableMask[c.door] = {}]
      <3>3. free \in State /\ free.output = st.output
        BY <1>1, <3>2, MaskFields
      <3>4. st' = signalDoorStatus(free, c.door) \/ st' = st
        BY <3>1
      <3> HIDE DEF free
      <3>5. signalDoorStatus(free, c.door).output = free.output
        BY <3>2, <3>3, SignalFields
      <3>6. st'.output = st.output
        BY <3>3, <3>4, <3>5
      <3>7. QED
        BY <3>6, SameFrozen
    <2>3. CASE DoBlock(c)
      <3>1. /\ c.door \in Polled
            /\ st' = [st EXCEPT !.airLockMask[c.door] =
                        IF c.arg1 = "block" THEN st.airLockMask[c.door] \cup c.arg2
                        ELSE st.airLockMask[c.door] \ c.arg2]
        BY <2>3 DEF DoBlock
      <3>2. st'.output = st.output
        BY <1>1, <3>1 DEF State
      <3>3. QED
        BY <3>2, SameFrozen
    <2>4. QED
      BY <1>4, <2>1, <2>2, <2>3
  <1>5. ASSUME NEW c \in Commands, DoUnlock(c) \/ DoLock(c)
        PROVE  Frozen(st, st', e)
    <2>1. /\ c.door \in Polled
          /\ \/ st' = st
             \/ st' = signalDoorStatus(unlock_door(st, c.door, c.arg2), c.door)
             \/ st' = signalDoorStatus(lock_door(st, c.door, c.arg2), c.door)
      BY <1>5 DEF DoUnlock, DoLock
    <2>2. c.door \in Door /\ c.arg2 \in SUBSET Bit
      BY <2>1, CommandType
    <2>3. /\ unlock_door(st, c.door, c.arg2) \in State
          /\ lock_door(st, c.door, c.arg2) \in State
      BY <1>1, <2>2, UnlockFields, LockFields
    <2>4. \/ st'.output = st.output
          \/ st'.output = unlock_door(st, c.door, c.arg2).output
          \/ st'.output = lock_door(st, c.door, c.arg2).output
      BY <2>1, <2>2, <2>3, SignalFields
    <2>5. /\ Frozen(st, unlock_door(st, c.door, c.arg2), e)
          /\ Frozen(st, lock_door(st, c.door, c.arg2), e)
      BY <1>1, <2>2, UnlockFrozen, LockFrozen
    <2>6. QED
      BY <2>4, <2>5 DEF Frozen
  <1>6. CASE SetDelete
    <2>1. st' = st
      BY <1>6 DEF SetDelete
    <2>2. QED
      BY <2>1, SameFrozen
  <1>7. CASE SetInsert
    <2>1. st' = signalDoorStatus(st, pending.door) /\ pending.door \in Door
      BY <1>7 DEF SetInsert, RCInv, PendingOK
    <2>2. st'.output = st.output
      BY <1>1, <2>1, SignalFields
    <2>3. QED
      BY <2>2, SameFrozen
  <1>8. QED
    BY <1>2, <1>3, <1>4, <1>5, <1>6, <1>7 DEF RCNext, check_network

(* No reader, button, timer or command moves an output under an            *)
(* administrative block, apart from a new "set" of the door; for any       *)
(* commands, failing statements and crashes.                               *)
THEOREM BlockedOutputsStay ==
  ASSUME DisjointOutputs
  PROVE  RCSpec => AdmFreezes
  <1> DEFINE Step == \A d \in Door : ~SetOn(d) /\ ~Restart =>
                       \A o \in AdmOutputs(d) : st'.output[o] = st.output[o]
  <1>1. RCInv /\ [RCNext]_rcvars => [Step]_rcvars
    BY StepFrozen DEF Frozen, Covered, AdmOutputs
  <1>2. QED
    BY <1>1, RCInitType, RCNextType, PTL DEF RCSpec, AdmFreezes

(* Nothing but a new "set" of the door, or a restart, releases a lock that *)
(* is under the airlock block.                                             *)
THEOREM BlockadeIsKept ==
  ASSUME DisjointOutputs
  PROVE  RCSpec => BlockHolds
  <1> DEFINE Step == \A d \in Door : ~SetOn(d) /\ ~Restart =>
                       \A o \in ShiftLeft(maskFull[d] \cap st.airLockMask[d],
                                          maskOffset[d]) \cap Output :
                         st.output[o] = "lock" => st'.output[o] = "lock"
  <1>1. RCInv /\ [RCNext]_rcvars => [Step]_rcvars
    BY StepFrozen DEF Frozen, Covered
  <1>2. QED
    BY <1>1, RCInitType, RCNextType, PTL DEF RCSpec, BlockHolds
-----------------------------------------------------------------------------
(* An acknowledged "set" *)

(* A command c that sets door d is in force: its mask is the block of the  *)
(* door, and what it locks is locked.                                      *)
InForce(s, c, d) ==
  /\ s.admDisableMask[d] = c.arg2
  /\ c.arg1 = "lock" => \A o \in Covered(c.arg2, d) : s.output[o] = "lock"

(* The one row of door d is the row of command c.                          *)
OnlyRow(rows, d, c) ==
  \E k \in 1 .. Len(rows) :
    /\ rows[k] = [door |-> d, mode |-> c.arg1, arg |-> c.arg2]
    /\ \A j \in 1 .. Len(rows) : rows[j].door = d => j = k

(* The statements of a "set" run under its block: the first leaves rows of *)
(* its own mode only, so that the second leaves one row.                   *)
AckInv ==
  /\ \A d \in Door : acked[d] # NoCommand =>
       /\ d \in Polled /\ acked[d].arg1 \in Mode /\ acked[d].arg2 \in SUBSET Bit
       /\ InForce(st, acked[d], d)
       /\ OnlyRow(db, d, acked[d])
  /\ phase \in {"dbDelete", "dbInsert"} =>
       /\ pending.door \in Polled
       /\ acked[pending.door] = NoCommand
       /\ InForce(st, pending, pending.door)
  /\ phase = "dbInsert" /\ dbOk =>
       \A k \in 1 .. Len(db) :
         db[k].door = pending.door => db[k].mode = pending.arg1

(* A step that keeps the blocks of a door and freezes it keeps a command   *)
(* in force.                                                               *)
LEMMA FrozenInForce ==
  ASSUME NEW s, NEW t, NEW c, NEW d \in Door, InForce(s, c, d),
         Frozen(s, t, d), t.admDisableMask[d] = s.admDisableMask[d]
  PROVE  InForce(t, c, d)
  BY DEF InForce, Frozen

(* lock_door locks all it is asked to if the door has no block.            *)
LEMMA LockCovers ==
  ASSUME NEW s \in State, NEW d \in Door, NEW mask \in SUBSET Bit,
         s.admDisableMask[d] = {}
  PROVE  \A o \in Covered(mask, d) : lock_door(s, d, mask).output[o] = "lock"
  <1> DEFINE m == lock_mask(s, d, mask)
  <1>1. Covered(mask, d) = m \cap Output
    BY DEF Covered, lock_mask
  <1>2. m # {} => lock_door(s, d, mask).output = set_door_state(s.output, "lock", m)
    BY LockFields
  <1>3. QED
    BY <1>1, <1>2 DEF set_door_state

(* lock_door or unlock_door on an unblocked door, then its block, as "set" *)
(* and the replay do it.                                                   *)
LEMMA BlockInForce ==
  ASSUME NEW s \in State, NEW d \in Door, NEW c, NEW t,
         c.arg1 \in Mode, c.arg2 \in SUBSET Bit, s.admDisableMask[d] = {},
         t.admDisableMask[d] = c.arg2,
         t.output = (IF c.arg1 = "unlock" THEN unlock_door(s, d, c.arg2)
                                          ELSE lock_door(s, d, c.arg2)).output
  PROVE  InForce(t, c, d)
  <1>1. CASE c.arg1 = "lock"
    <2>1. t.output = lock_door(s, d, c.arg2).output
      BY <1>1
    <2>2. QED
      BY <2>1, LockCovers DEF InForce
  <1>2. CASE c.arg1 # "lock"
    BY <1>2 DEF InForce
  <1>3. QED
    BY <1>1, <1>2

(* "set" changes the administrative block of its door only. *)
LEMMA SetAdm ==
  ASSUME NEW s \in State, NEW c \in Command, c.door \in Door
  PROVE  set_door(s, c).admDisableMask = [s.admDisableMask EXCEPT ![c.door] = c.arg2]
  <1> DEFINE d == c.door
             z == [s EXCEPT !.admDisableMask[d] = {}, !.airLockMask[d] = {}]
             o == IF c.arg1 = "unlock" THEN unlock_door(z, d, c.arg2)
                                       ELSE lock_door(z, d, c.arg2)
  <1>1. c.arg2 \in SUBSET Bit
    BY DEF Command
  <1>2. z \in State /\ z.admDisableMask = [s.admDisableMask EXCEPT ![d] = {}]
    BY DEF State
  <1>3. set_door(s, c) = [o EXCEPT !.admDisableMask[d] = c.arg2]
    BY DEF set_door
  <1> HIDE DEF z
  <1>4. o \in State /\ o.admDisableMask = z.admDisableMask
    BY <1>1, <1>2, UnlockFields, LockFields
  <1> HIDE DEF o
  <1>5. [o EXCEPT !.admDisableMask[d] = c.arg2].admDisableMask
          = [o.admDisableMask EXCEPT ![d] = c.arg2]
    BY <1>4 DEF State
  <1>6. s.admDisableMask \in [Door -> SUBSET Bit]
    BY DEF State
  <1>7. QED
    BY <1>2, <1>3, <1>4, <1>5, <1>6

(* A "set" is in force as soon as the door was moved.                      *)
LEMMA SetInForce ==
  ASSUME NEW s \in State, NEW c \in Command, c.door \in Door, c.arg1 \in Mode
  PROVE  InForce(set_door(s, c), c, c.door)
  <1> DEFINE d == c.door
             z == [s EXCEPT !.admDisableMask[d] = {}, !.airLockMask[d] = {}]
             o == IF c.arg1 = "unlock" THEN unlock_door(z, d, c.arg2)
                                       ELSE lock_door(z, d, c.arg2)
             t == set_door(s, c)
  <1>1. c.arg2 \in SUBSET Bit
    BY DEF Command
  <1>2. z \in State /\ z.admDisableMask[d] = {}
    BY DEF State
  <1>3. t.output = o.output
    BY SetFields, Zenon
  <1>4. t.admDisableMask[d] = c.arg2
    <2>1. s.admDisableMask \in [Door -> SUBSET Bit]
      BY DEF State
    <2>2. QED
      BY <2>1, SetAdm
  <1> HIDE DEF z, t
  <1>5. InForce(t, c, d)
    BY <1>1, <1>2, <1>3, <1>4, BlockInForce
  <1>6. QED
    BY <1>5 DEF t

(* Every other step of the program leaves the administrative blocks alone, *)
(* apart from "unset", which lifts the one of its door.                    *)
LEMMA StepKeepsAdm ==
  ASSUME RCInv, RCNext, ~Restart, \A c \in Commands : ~Set(c) /\ ~Unset(c)
  PROVE  st'.admDisableMask = st.admDisableMask
  <1>1. st \in State /\ cur \in Door
    BY DEF RCInv, RCTypeOK
  <1>2. CASE Loop
    <2>1. CASE DoorTimer
      BY <1>1, <2>1, TimerAside DEF DoorTimer, Aside
    <2>2. CASE Grant
      <3>1. PICK m \in Grants[cur] : st' = unlock_door(st, cur, m)
        BY <2>2 DEF Grant
      <3>2. m \in SUBSET Bit
        BY <1>1, ControllerAssumption
      <3>3. QED
        BY <1>1, <3>1, <3>2, UnlockFields
    <2>3. CASE CheckInput
      <3>1. PICK i \in get_input_state(cur, phase = "inputFailed", Inputs) :
              st' = check_input(st, cur, i)
        BY <2>3 DEF CheckInput
      <3>2. i \in SUBSET InputBit
        BY ControllerAssumption DEF get_input_state
      <3>3. QED
        BY <1>1, <3>1, <3>2, CheckAside DEF Aside
    <2>4. CASE NextDoor \/ ReadInputs \/ NoDatagram
      BY <2>4 DEF NextDoor, ReadInputs, NoDatagram
    <2>5. QED
      BY <1>2, <2>1, <2>2, <2>3, <2>4 DEF Loop, LoopStep
  <1>3. ASSUME NEW c \in Commands, DoUnlock(c) \/ DoLock(c)
        PROVE  st'.admDisableMask = st.admDisableMask
    <2>1. /\ c.door \in Polled
          /\ \/ st' = st
             \/ st' = signalDoorStatus(unlock_door(st, c.door, c.arg2), c.door)
             \/ st' = signalDoorStatus(lock_door(st, c.door, c.arg2), c.door)
      BY <1>3 DEF DoUnlock, DoLock
    <2>2. c.door \in Door /\ c.arg2 \in SUBSET Bit
      BY <2>1, CommandType
    <2>3. /\ unlock_door(st, c.door, c.arg2) \in State
          /\ lock_door(st, c.door, c.arg2) \in State
          /\ unlock_door(st, c.door, c.arg2).admDisableMask = st.admDisableMask
          /\ lock_door(st, c.door, c.arg2).admDisableMask = st.admDisableMask
      BY <1>1, <2>2, UnlockFields, LockFields
    <2>4. QED
      BY <2>1, <2>2, <2>3, SignalFields
  <1>4. ASSUME NEW c \in Commands, DoBlock(c) \/ NoEffect(c)
        PROVE  st'.admDisableMask = st.admDisableMask
    BY <1>1, <1>4 DEF DoBlock, NoEffect, State
  <1>5. CASE SetDelete
    BY <1>5 DEF SetDelete
  <1>6. CASE SetInsert
    <2>1. st' = signalDoorStatus(st, pending.door) /\ pending.door \in Door
      BY <1>6 DEF SetInsert, RCInv, PendingOK
    <2>2. QED
      BY <1>1, <2>1, SignalFields
  <1>7. QED
    BY <1>2, <1>3, <1>4, <1>5, <1>6 DEF RCNext, check_network
(* The rows of the table hold one of the two modes. *)
LEMMA RowModes ==
  ASSUME NEW rows \in Seq(Row)
  PROVE  \A k \in 1 .. Len(rows) : rows[k].mode \in Mode
  <1>1. \A k \in 1 .. Len(rows) : rows[k] \in Row
    OBVIOUS
  <1>2. \A row \in Row : row.mode \in Mode
    BY DEF Row
  <1>3. QED
    BY <1>1, <1>2

(* The one row of a door outlives a change of the table that keeps the     *)
(* rows of the door and adds none.                                         *)
LEMMA OnlyRowKept ==
  ASSUME NEW rows \in Seq(Row), NEW q \in Seq(Row), Unique(q), NEW d, NEW c,
         OnlyRow(rows, d, c),
         \A j \in 1 .. Len(rows) : rows[j].door = d =>
           \E k \in 1 .. Len(q) : q[k] = rows[j],
         \A k \in 1 .. Len(q) : q[k].door = d =>
           \E j \in 1 .. Len(rows) : q[k] = rows[j]
  PROVE  OnlyRow(q, d, c)
  <1> DEFINE r == [door |-> d, mode |-> c.arg1, arg |-> c.arg2]
  <1>1. PICK i \in 1 .. Len(rows) :
          /\ rows[i] = r
          /\ \A j \in 1 .. Len(rows) : rows[j].door = d => j = i
    BY DEF OnlyRow
  <1>2. PICK k \in 1 .. Len(q) : q[k] = r
    BY <1>1
  <1>3. \A l \in 1 .. Len(q) : q[l].door = d => q[l] = r
    BY <1>1
  <1>4. \A l \in 1 .. Len(q) : q[l].door = d => l = k
    BY <1>2, <1>3 DEF Unique
  <1>5. QED
    BY <1>2, <1>4 DEF OnlyRow

(* DELETE of a row of another door, or of a row that is not there.         *)
LEMMA UnsetKeepsRow ==
  ASSUME NEW rows \in Seq(Row), Unique(rows), NEW e, NEW mode, NEW d, NEW c,
         d # e \/ mode \notin Mode, OnlyRow(rows, d, c)
  PROVE  OnlyRow(db_unset(rows, e, mode), d, c)
  <1> DEFINE q == db_unset(rows, e, mode)
  <1>1. KeptOf(q, Len(rows), rows, e, mode)
    BY UnsetRows
  <1>2. q \in Seq(Row) /\ Unique(q)
    BY <1>1 DEF KeptOf
  <1>3. \A j \in 1 .. Len(rows) : rows[j].door = d => ~Matches(rows[j], e, mode)
    <2>1. \A j \in 1 .. Len(rows) : rows[j].mode \in Mode
      BY RowModes
    <2>2. QED
      BY <2>1 DEF Matches
  <1>4. \A j \in 1 .. Len(rows) : rows[j].door = d =>
          \E k \in 1 .. Len(q) : q[k] = rows[j]
    BY <1>1, <1>3 DEF KeptOf
  <1>5. \A k \in 1 .. Len(q) : \E j \in 1 .. Len(rows) : q[k] = rows[j]
    BY <1>1 DEF KeptOf
  <1> HIDE DEF q
  <1>6. OnlyRow(q, d, c)
    BY <1>2, <1>4, <1>5, OnlyRowKept
  <1>7. QED
    BY <1>6 DEF q

(* INSERT OR REPLACE of a row of another door. *)
LEMMA SetKeepsRow ==
  ASSUME NEW rows \in Seq(Row), Unique(rows), NEW e \in Door, NEW mode \in Mode,
         NEW arg \in SUBSET Bit, NEW d, NEW c, d # e, OnlyRow(rows, d, c)
  PROVE  OnlyRow(db_set(rows, e, mode, arg), d, c)
  <1> DEFINE u == db_unset(rows, e, mode)
             r == [door |-> e, mode |-> mode, arg |-> arg]
             q == db_set(rows, e, mode, arg)
  <1>1. u \in Seq(Row) /\ OnlyRow(u, d, c)
    BY UnsetRows, UnsetKeepsRow DEF KeptOf
  <1>2. q = Append(u, r) /\ q \in Seq(Row) /\ Unique(q) /\ r.door = e
    BY SetRows DEF db_set
  <1> HIDE DEF u, r, q
  <1>3. /\ Len(u) \in Nat /\ Len(q) = Len(u) + 1 /\ q[Len(u) + 1] = r
        /\ \A k \in 1 .. Len(u) : q[k] = u[k]
    BY <1>1, <1>2
  <1>4. 1 .. Len(q) = (1 .. Len(u)) \cup {Len(u) + 1}
    BY <1>3
  <1>5. \A j \in 1 .. Len(u) : u[j].door = d => \E k \in 1 .. Len(q) : q[k] = u[j]
    BY <1>3, <1>4
  <1>6. \A k \in 1 .. Len(q) : q[k].door = d => \E j \in 1 .. Len(u) : q[k] = u[j]
    BY <1>2, <1>3, <1>4
  <1>7. OnlyRow(q, d, c)
    BY <1>1, <1>2, <1>5, <1>6, OnlyRowKept
  <1>8. QED
    BY <1>7 DEF q

(* After DELETE of the other mode the rows of the door have the mode that  *)
(* is to be set.                                                           *)
LEMMA OtherModeDeleted ==
  ASSUME NEW rows \in Seq(Row), NEW d, NEW mode \in Mode
  PROVE  LET q == db_unset(rows, d, Other(mode))
         IN \A k \in 1 .. Len(q) : q[k].door = d => q[k].mode = mode
  <1> DEFINE q == db_unset(rows, d, Other(mode))
  <1>1. q \in Seq(Row) /\ \A k \in 1 .. Len(q) : ~Matches(q[k], d, Other(mode))
    BY UnsetRows DEF KeptOf
  <1> HIDE DEF q
  <1>2. \A k \in 1 .. Len(q) : q[k].mode \in Mode
    BY <1>1, RowModes
  <1>3. QED
    BY <1>1, <1>2 DEF Matches, Other, Mode, q

(* INSERT OR REPLACE then leaves one row of the door.                      *)
LEMMA SetLeavesRow ==
  ASSUME NEW rows \in Seq(Row), NEW c, c.door \in Door, c.arg1 \in Mode,
         c.arg2 \in SUBSET Bit,
         \A k \in 1 .. Len(rows) : rows[k].door = c.door => rows[k].mode = c.arg1
  PROVE  OnlyRow(db_set(rows, c.door, c.arg1, c.arg2), c.door, c)
  <1> DEFINE d == c.door
             u == db_unset(rows, d, c.arg1)
             r == [door |-> d, mode |-> c.arg1, arg |-> c.arg2]
             q == db_set(rows, d, c.arg1, c.arg2)
  <1>1. /\ u \in Seq(Row)
        /\ \A k \in 1 .. Len(u) : ~Matches(u[k], d, c.arg1)
        /\ \A k \in 1 .. Len(u) : \E j \in 1 .. Len(rows) : u[k] = rows[j]
    BY UnsetRows DEF KeptOf
  <1>2. \A k \in 1 .. Len(u) : u[k].door # d
    BY <1>1 DEF Matches
  <1>3. q = Append(u, r)
    BY DEF db_set
  <1> HIDE DEF u, q
  <1>4. /\ Len(u) \in Nat /\ Len(q) = Len(u) + 1 /\ q[Len(u) + 1] = r
        /\ \A k \in 1 .. Len(u) : q[k] = u[k]
    BY <1>1, <1>3
  <1>5. 1 .. Len(q) = (1 .. Len(u)) \cup {Len(u) + 1}
    BY <1>4
  <1>6. OnlyRow(q, d, c)
    BY <1>2, <1>4, <1>5 DEF OnlyRow
  <1>7. QED
    BY <1>6 DEF q

(* Restoring a row changes the administrative block of its door only, and  *)
(* freezes the other doors.                                                *)
LEMMA RestoreFields ==
  ASSUME DisjointOutputs, NEW s \in State, NEW row \in Row, NEW d \in Door,
         row.door # d
  PROVE  LET t == restore_row(s, row)
         IN t.admDisableMask[d] = s.admDisableMask[d] /\ Frozen(s, t, d)
  <1> DEFINE e == row.door
             o == IF row.mode = "unlock" THEN unlock_door(s, e, row.arg)
                                         ELSE lock_door(s, e, row.arg)
             b == [o EXCEPT !.admDisableMask[e] = row.arg]
             t == restore_row(s, row)
  <1>1. e \in Door /\ row.arg \in SUBSET Bit
    BY DEF Row
  <1>2. o \in State /\ o.admDisableMask = s.admDisableMask /\ Frozen(s, o, d)
    BY <1>1, UnlockFields, LockFields, UnlockFrozen, LockFrozen
  <1>3. t = IF e \notin Polled THEN s ELSE signalDoorStatus(b, e)
    BY DEF restore_row
  <1> HIDE DEF o, t
  <1>4. /\ b \in State /\ b.output = o.output
        /\ b.admDisableMask = [o.admDisableMask EXCEPT ![e] = row.arg]
    BY <1>1, <1>2 DEF State
  <1> HIDE DEF b
  <1>5. CASE e \in Polled
    <2>1. t.output = o.output /\ t.admDisableMask = b.admDisableMask
      BY <1>1, <1>3, <1>4, <1>5, SignalFields
    <2>2. s.admDisableMask \in [Door -> SUBSET Bit]
      BY DEF State
    <2>3. t.admDisableMask[d] = s.admDisableMask[d]
      BY <1>2, <1>4, <2>1, <2>2
    <2>4. Frozen(s, t, d)
      BY <1>2, <2>1 DEF Frozen
    <2>5. QED
      BY <2>3, <2>4 DEF t
  <1>6. CASE e \notin Polled
    BY <1>3, <1>6 DEF t, Frozen
  <1>7. QED
    BY <1>5, <1>6

(* Restoring the row of a command puts the command in force.               *)
LEMMA RestoreInForce ==
  ASSUME NEW s \in State, NEW row \in Row, NEW c, NEW d \in Polled,
         row = [door |-> d, mode |-> c.arg1, arg |-> c.arg2],
         s.admDisableMask[d] = {}
  PROVE  InForce(restore_row(s, row), c, d)
  <1> DEFINE o == IF c.arg1 = "unlock" THEN unlock_door(s, d, c.arg2)
                                       ELSE lock_door(s, d, c.arg2)
             b == [o EXCEPT !.admDisableMask[d] = c.arg2]
             t == restore_row(s, row)
  <1>1. d \in Door /\ c.arg2 \in SUBSET Bit /\ c.arg1 \in Mode
    BY DoorsCount DEF Row
  <1>2. o \in State
    BY <1>1, UnlockFields, LockFields
  <1>3. row.door = d /\ row.mode = c.arg1 /\ row.arg = c.arg2
    OBVIOUS
  <1>4. t = signalDoorStatus(b, d)
    BY <1>3 DEF restore_row
  <1> HIDE DEF o
  <1>5. b \in State /\ b.output = o.output /\ b.admDisableMask[d] = c.arg2
    BY <1>1, <1>2 DEF State
  <1> HIDE DEF b
  <1>6. t.output = o.output /\ t.admDisableMask[d] = c.arg2
    BY <1>1, <1>4, <1>5, SignalFields
  <1> HIDE DEF t
  <1>7. InForce(t, c, d)
    BY <1>1, <1>6, BlockInForce DEF o
  <1>8. QED
    BY <1>7 DEF t

(* The replay puts a command in force whose row is the only one of the     *)
(* door, whatever the rows of the other doors are.                         *)
LEMMA ReplayInForce ==
  ASSUME DisjointOutputs, NEW s \in State, NEW rows \in Seq(Row), NEW c,
         NEW d \in Polled, OnlyRow(rows, d, c), s.admDisableMask[d] = {}
  PROVE  InForce(init_remote_control(s, rows), c, d)
  <1> DEFINE n == Len(rows)
  <1>1. n \in Nat /\ d \in Door /\ \A i \in 1 .. n : rows[i] \in Row
    BY DoorsCount
  <1>2. PICK k \in 1 .. n :
          /\ rows[k] = [door |-> d, mode |-> c.arg1, arg |-> c.arg2]
          /\ \A j \in 1 .. n : rows[j].door = d => j = k
    BY DEF OnlyRow
  <1>3. PICK h \in [0 .. n -> State] :
          /\ h[0] = s
          /\ \A i \in 1 .. n : h[i] = restore_row(h[i - 1], rows[i])
          /\ init_remote_control(s, rows) = h[n]
    BY ReplayRuns
  <1> HIDE DEF n
  <1> DEFINE T == {i \in 0 .. n : /\ i < k => h[i].admDisableMask[d] = {}
                                  /\ i >= k => InForce(h[i], c, d)}
  <1>4. T \in SUBSET (0 .. n)
    OBVIOUS
  <1>5. 0 \in T
    BY <1>1, <1>2, <1>3
  <1>6. ASSUME NEW i \in 1 .. n, i - 1 \in T PROVE i \in T
    <2>1. /\ i \in 0 .. n /\ i - 1 \in 0 .. n /\ h[i - 1] \in State
          /\ rows[i] \in Row /\ h[i] = restore_row(h[i - 1], rows[i])
      BY <1>1, <1>3
    <2>2. /\ i - 1 < k => h[i - 1].admDisableMask[d] = {}
          /\ i - 1 >= k => InForce(h[i - 1], c, d)
      BY <1>6
    <2> HIDE DEF T
    <2>3. CASE i = k
      <3>1. h[i - 1].admDisableMask[d] = {}
        BY <1>2, <2>2, <2>3
      <3>2. InForce(h[i], c, d)
        BY <1>2, <2>1, <2>3, <3>1, RestoreInForce
      <3>3. QED
        BY <1>2, <2>1, <2>3, <3>2 DEF T
    <2>4. CASE i # k
      <3>1. rows[i].door # d
        BY <1>2, <2>4
      <3>2. /\ h[i].admDisableMask[d] = h[i - 1].admDisableMask[d]
            /\ Frozen(h[i - 1], h[i], d)
        BY <1>1, <2>1, <3>1, RestoreFields
      <3>3. i < k => h[i].admDisableMask[d] = {}
        BY <1>2, <2>2, <3>2
      <3>4. i >= k => InForce(h[i], c, d)
        <4>1. i >= k => i - 1 >= k
          BY <1>2, <2>4
        <4>2. QED
          BY <1>1, <2>2, <3>2, <4>1, FrozenInForce
      <3>5. QED
        BY <2>1, <3>3, <3>4 DEF T
    <2>5. QED
      BY <2>3, <2>4
  <1> HIDE DEF T
  <1>7. \A i \in 0 .. n : i \in T
    BY <1>1, <1>4, <1>5, <1>6, EveryRound
  <1>8. n \in T /\ n >= k
    BY <1>1, <1>2, <1>7
  <1>9. InForce(h[n], c, d)
    BY <1>8 DEF T
  <1>10. QED
    BY <1>3, <1>9
(* At the first start nothing was acknowledged. *)
LEMMA AckInit == RCInit => AckInv
  <1> SUFFICES ASSUME RCInit PROVE AckInv
    OBVIOUS
  <1>1. \A d \in Door : acked[d] = NoCommand
    BY DEF RCInit
  <1>2. phase \notin {"dbDelete", "dbInsert"}
    BY DEF RCInit, Init, LoopStart
  <1>3. QED
    BY <1>1, <1>2 DEF AckInv

(* A step that touches neither the table nor the statements, and freezes   *)
(* the doors.                                                              *)
LEMMA AckFrozen ==
  ASSUME AckInv, UNCHANGED <<db, acked>>, phase' \notin {"dbDelete", "dbInsert"},
         st'.admDisableMask = st.admDisableMask,
         \A d \in Door : Frozen(st, st', d)
  PROVE  AckInv'
  <1>1. ASSUME NEW d \in Door, acked[d] # NoCommand
        PROVE  InForce(st', acked[d], d)
    <2>1. InForce(st, acked[d], d) /\ Frozen(st, st', d)
      BY <1>1 DEF AckInv
    <2>2. QED
      BY <2>1, FrozenInForce
  <1>2. QED
    BY <1>1 DEF AckInv

(* "set": the door is under the new block, the acknowledgement is gone.    *)
LEMMA AckSet ==
  ASSUME DisjointOutputs, RCInv, AckInv, NEW c \in Commands, Set(c)
  PROVE  AckInv'
  <1>1. /\ c.door \in Polled /\ c.arg1 \in Mode /\ st' = set_door(st, c)
        /\ phase' = "dbDelete" /\ pending' = c /\ db' = db
        /\ acked' = [acked EXCEPT ![c.door] = NoCommand]
    BY DEF Set
  <1>2. /\ c \in Command /\ c.door \in Door /\ st \in State
        /\ acked \in [Door -> Commands \cup {NoCommand}]
    BY <1>1, CommandType DEF RCInv, RCTypeOK
  <1>3. InForce(st', c, c.door)
    BY <1>1, <1>2, SetInForce
  <1>4. acked'[c.door] = NoCommand
    BY <1>1, <1>2
  <1>5. ASSUME NEW d \in Door, acked'[d] # NoCommand
        PROVE  d # c.door /\ acked'[d] = acked[d] /\ InForce(st', acked[d], d)
    <2>1. d # c.door /\ acked'[d] = acked[d]
      BY <1>1, <1>2, <1>5
    <2>2. Frozen(st, st', d)
      BY <1>1, <1>2, <2>1, SetFrozen
    <2>3. st'.admDisableMask[d] = st.admDisableMask[d]
      <3>1. st'.admDisableMask = [st.admDisableMask EXCEPT ![c.door] = c.arg2]
        BY <1>1, <1>2, SetAdm
      <3>2. st.admDisableMask \in [Door -> SUBSET Bit]
        BY <1>2 DEF State
      <3>3. QED
        BY <2>1, <3>1, <3>2
    <2>4. InForce(st, acked[d], d)
      BY <1>5, <2>1 DEF AckInv
    <2>5. QED
      BY <2>1, <2>2, <2>3, <2>4, FrozenInForce
  <1>6. QED
    BY <1>1, <1>3, <1>4, <1>5 DEF AckInv

(* "unset": the door is no longer promised anything, unless the command    *)
(* names no mode; then no row is deleted.                                  *)
LEMMA AckUnset ==
  ASSUME DisjointOutputs, RCInv, AckInv, NEW c \in Commands, Unset(c)
  PROVE  AckInv'
  <1> DEFINE free == [st EXCEPT !.admDisableMask[c.door] = {}]
  <1>1. /\ c.door \in Polled /\ Answered
        /\ \/ /\ db' = db_unset(db, c.door, c.arg1)
              /\ st' = IF c.arg1 \in Mode THEN signalDoorStatus(free, c.door) ELSE st
              /\ acked' = IF c.arg1 \in Mode
                          THEN [acked EXCEPT ![c.door] = NoCommand] ELSE acked
           \/ UNCHANGED <<db, st, acked>>
    BY DEF Unset
  <1>2. /\ c.door \in Door /\ st \in State /\ db \in Seq(Row) /\ Unique(db)
        /\ acked \in [Door -> Commands \cup {NoCommand}]
    BY <1>1, CommandType DEF RCInv, RCTypeOK, Unique
  <1>3. phase' \notin {"dbDelete", "dbInsert"}
    BY <1>1 DEF Answered, LoopStart
  <1>4. CASE UNCHANGED <<db, st, acked>>
    BY <1>3, <1>4, AckFrozen DEF Frozen
  <1>5. CASE ~UNCHANGED <<db, st, acked>>
    <2>1. ASSUME NEW d \in Door, acked'[d] # NoCommand
          PROVE  acked'[d] = acked[d] /\ (d # c.door \/ c.arg1 \notin Mode)
      BY <1>1, <1>2, <1>5, <2>1
    <2>2. ASSUME NEW d \in Door, acked'[d] # NoCommand
          PROVE  OnlyRow(db', d, acked'[d])
      <3>1. OnlyRow(db, d, acked[d]) /\ (d # c.door \/ c.arg1 \notin Mode)
        BY <2>1, <2>2 DEF AckInv
      <3>2. QED
        BY <1>1, <1>2, <1>5, <2>1, <2>2, <3>1, UnsetKeepsRow
    <2>3. ASSUME NEW d \in Door, acked'[d] # NoCommand
          PROVE  InForce(st', acked'[d], d)
      <3>1. InForce(st, acked[d], d) /\ acked'[d] = acked[d]
        BY <2>1, <2>3 DEF AckInv
      <3>2. CASE c.arg1 \notin Mode
        BY <1>1, <1>5, <3>1, <3>2
      <3>3. CASE c.arg1 \in Mode
        <4>1. d # c.door /\ st' = signalDoorStatus(free, c.door)
          BY <1>1, <1>5, <2>1, <2>3, <3>3
        <4>2. /\ free \in State /\ free.output = st.output
              /\ free.admDisableMask = [st.admDisableMask EXCEPT ![c.door] = {}]
              /\ st.admDisableMask \in [Door -> SUBSET Bit]
          BY <1>2 DEF State
        <4> HIDE DEF free
        <4>3. st'.output = st.output /\ st'.admDisableMask = free.admDisableMask
          BY <1>2, <4>1, <4>2, SignalFields
        <4>4. st'.admDisableMask[d] = st.admDisableMask[d]
          BY <4>1, <4>2, <4>3
        <4>5. QED
          BY <3>1, <4>3, <4>4 DEF InForce
      <3>4. QED
        BY <3>2, <3>3
    <2>4. QED
      BY <1>3, <2>1, <2>2, <2>3 DEF AckInv
  <1>6. QED
    BY <1>4, <1>5

(* The DELETE of the other mode. *)
LEMMA AckDelete ==
  ASSUME RCInv, AckInv, SetDelete
  PROVE  AckInv'
  <1> DEFINE e == pending.door
             q == db_unset(db, e, Other(pending.arg1))
  <1>1. /\ phase = "dbDelete" /\ phase' = "dbInsert"
        /\ db' = q \/ (db' = db /\ dbOk' = FALSE)
        /\ UNCHANGED <<st, pending, acked>>
    BY DEF SetDelete
  <1>2. /\ e \in Door /\ pending.arg1 \in Mode /\ db \in Seq(Row) /\ Unique(db)
    BY <1>1 DEF RCInv, RCTypeOK, PendingOK, Unique
  <1>3. e \in Polled /\ acked[e] = NoCommand /\ InForce(st, pending, e)
    BY <1>1 DEF AckInv
  <1>4. dbOk' => \A k \in 1 .. Len(db') :
                   db'[k].door = e => db'[k].mode = pending.arg1
    BY <1>1, <1>2, OtherModeDeleted
  <1>5. ASSUME NEW d \in Door, acked[d] # NoCommand
        PROVE  OnlyRow(db', d, acked[d])
    <2>1. OnlyRow(db, d, acked[d]) /\ d # e
      BY <1>3, <1>5 DEF AckInv
    <2>2. OnlyRow(q, d, acked[d])
      BY <1>2, <2>1, UnsetKeepsRow
    <2>3. QED
      BY <1>1, <2>1, <2>2
  <1>6. \A d \in Door : acked[d] # NoCommand =>
          /\ d \in Polled /\ acked[d].arg1 \in Mode /\ acked[d].arg2 \in SUBSET Bit
          /\ InForce(st, acked[d], d)
    BY DEF AckInv
  <1> HIDE DEF q
  <1>7. QED
    BY <1>1, <1>3, <1>4, <1>5, <1>6 DEF AckInv

(* The INSERT OR REPLACE and the answer: after two good statements the     *)
(* table holds the one row of the command that is in force.                *)
LEMMA AckInsert ==
  ASSUME RCInv, AckInv, SetInsert
  PROVE  AckInv'
  <1> DEFINE e == pending.door
             q == db_set(db, e, pending.arg1, pending.arg2)
  <1>1. /\ phase = "dbInsert" /\ Answered
        /\ \/ /\ db' = q
              /\ acked' = IF dbOk THEN [acked EXCEPT ![e] = pending] ELSE acked
           \/ UNCHANGED <<db, acked>>
        /\ st' = signalDoorStatus(st, e)
    BY DEF SetInsert
  <1>2. /\ e \in Door /\ pending.arg1 \in Mode /\ pending.arg2 \in SUBSET Bit
        /\ db \in Seq(Row) /\ Unique(db) /\ st \in State
        /\ acked \in [Door -> Commands \cup {NoCommand}]
    BY <1>1 DEF RCInv, RCTypeOK, PendingOK, Unique
  <1>3. e \in Polled /\ acked[e] = NoCommand /\ InForce(st, pending, e)
    BY <1>1 DEF AckInv
  <1>4. phase' \notin {"dbDelete", "dbInsert"}
    BY <1>1 DEF Answered, LoopStart
  <1>5. st'.output = st.output /\ st'.admDisableMask = st.admDisableMask
    BY <1>1, <1>2, SignalFields
  <1>6. ASSUME NEW c, NEW d, InForce(st, c, d) PROVE InForce(st', c, d)
    BY <1>5, <1>6 DEF InForce
  <1>7. ASSUME NEW d \in Door, d # e, acked[d] # NoCommand
        PROVE  OnlyRow(db', d, acked[d])
    <2>1. OnlyRow(db, d, acked[d])
      BY <1>7 DEF AckInv
    <2>2. OnlyRow(q, d, acked[d])
      BY <1>2, <1>7, <2>1, SetKeepsRow
    <2>3. QED
      BY <1>1, <2>1, <2>2
  <1>8. ASSUME acked'[e] # NoCommand
        PROVE  acked'[e] = pending /\ OnlyRow(db', e, pending)
    <2>1. dbOk /\ db' = q /\ acked' = [acked EXCEPT ![e] = pending]
      BY <1>1, <1>3, <1>8
    <2>2. \A k \in 1 .. Len(db) : db[k].door = e => db[k].mode = pending.arg1
      BY <1>1, <2>1 DEF AckInv
    <2>3. OnlyRow(q, e, pending)
      BY <1>2, <2>2, SetLeavesRow
    <2>4. QED
      BY <1>2, <2>1, <2>3
  <1>9. \A d \in Door : d # e => acked'[d] = acked[d]
    BY <1>1, <1>2
  <1>10. ASSUME NEW d \in Door, acked'[d] # NoCommand
         PROVE  /\ d \in Polled /\ acked'[d].arg1 \in Mode
                /\ acked'[d].arg2 \in SUBSET Bit
                /\ InForce(st', acked'[d], d)
                /\ OnlyRow(db', d, acked'[d])
    <2>1. CASE d = e
      BY <1>2, <1>3, <1>6, <1>8, <1>10, <2>1
    <2>2. CASE d # e
      BY <1>6, <1>7, <1>9, <1>10, <2>2 DEF AckInv
    <2>3. QED
      BY <2>1, <2>2
  <1>11. QED
    BY <1>4, <1>10 DEF AckInv

(* A restart replays the one row of every door that was promised one.      *)
LEMMA AckRestart ==
  ASSUME DisjointOutputs, RCInv, AckInv, Restart
  PROVE  AckInv'
  <1>1. st \in State /\ db \in Seq(Row)
    BY DEF RCInv, RCTypeOK
  <1>2. PICK out \in PowerUp \cup {st.output} :
          st' = init_remote_control(StartState(out, st.led), db)
    BY DEF Restart
  <1>3. phase' \notin {"dbDelete", "dbInsert"} /\ UNCHANGED <<db, acked>>
    BY DEF Restart, LoopStart
  <1>4. out \in [Output -> LockState] /\ st.led \in [Door -> Led]
    BY <1>1, ControllerAssumption DEF State
  <1> DEFINE s0 == StartState(out, st.led)
  <1>5. s0 \in State /\ \A d \in Door : s0.admDisableMask[d] = {}
    <2>1. s0 \in State
      BY <1>4, StartType
    <2>2. \A d \in Door : s0.admDisableMask[d] = {}
      BY DEF StartState
    <2>3. QED
      BY <2>1, <2>2
  <1> HIDE DEF s0
  <1>6. ASSUME NEW d \in Door, acked[d] # NoCommand
        PROVE  InForce(st', acked[d], d)
    <2>1. d \in Polled /\ OnlyRow(db, d, acked[d])
      BY <1>6 DEF AckInv
    <2>2. InForce(init_remote_control(s0, db), acked[d], d)
      BY <1>1, <1>5, <2>1, ReplayInForce
    <2>3. QED
      BY <1>2, <2>2 DEF s0
  <1>7. QED
    BY <1>3, <1>6 DEF AckInv

(* Every step of the program keeps what was acknowledged. *)
LEMMA AckNext ==
  ASSUME DisjointOutputs
  PROVE  RCInv /\ AckInv /\ [RCNext]_rcvars => AckInv'
  <1> SUFFICES ASSUME RCInv, AckInv, [RCNext]_rcvars PROVE AckInv'
    OBVIOUS
  <1>1. ASSUME NEW c \in Commands, Set(c) PROVE AckInv'
    BY <1>1, AckSet
  <1>2. ASSUME NEW c \in Commands, Unset(c) PROVE AckInv'
    BY <1>2, AckUnset
  <1>3. CASE SetDelete
    BY <1>3, AckDelete
  <1>4. CASE SetInsert
    BY <1>4, AckInsert
  <1>5. CASE Restart
    BY <1>5, AckRestart
  <1>6. CASE UNCHANGED rcvars
    BY <1>6 DEF rcvars, AckInv
  <1>7. CASE /\ RCNext /\ ~Restart /\ ~SetDelete /\ ~SetInsert
             /\ \A c \in Commands : ~Set(c) /\ ~Unset(c)
    <2>1. \/ Loop
          \/ \E c \in Commands : DoUnlock(c) \/ DoLock(c) \/ DoBlock(c) \/ NoEffect(c)
      BY <1>7 DEF RCNext, check_network
    <2>2. UNCHANGED <<db, acked>>
      BY <2>1 DEF Loop, DoUnlock, DoLock, DoBlock, NoEffect, rest
    <2>3. phase' \notin {"dbDelete", "dbInsert"}
      <3>1. CASE Loop
        BY <3>1 DEF Loop, LoopStep, DoorTimer, Grant, NextDoor, ReadInputs,
                    CheckInput, NoDatagram, LoopStart
      <3>2. CASE \E c \in Commands : DoUnlock(c) \/ DoLock(c) \/ DoBlock(c) \/ NoEffect(c)
        BY <3>2 DEF DoUnlock, DoLock, DoBlock, NoEffect, Answered, LoopStart
      <3>3. QED
        BY <2>1, <3>1, <3>2
    <2>4. st'.admDisableMask = st.admDisableMask
      BY <1>7, StepKeepsAdm
    <2>5. \A d \in Door : Frozen(st, st', d)
      <3>1. \A d \in Door : ~SetOn(d)
        BY <2>3 DEF SetOn
      <3>2. QED
        BY <1>7, <3>1, StepFrozen
    <2>6. QED
      BY <2>2, <2>3, <2>4, <2>5, AckFrozen
  <1>8. QED
    BY <1>1, <1>2, <1>3, <1>4, <1>5, <1>6, <1>7

(* The one row of a door is the row the replay ends with.                  *)
LEMMA StoredOfOnlyRow ==
  ASSUME NEW rows \in Seq(Row), NEW d, NEW c, OnlyRow(rows, d, c)
  PROVE  StoredMask(rows, d) = c.arg2
  <1> DEFINE own == {i \in 1 .. Len(rows) : rows[i].door = d}
  <1>1. PICK k \in 1 .. Len(rows) :
          /\ rows[k] = [door |-> d, mode |-> c.arg1, arg |-> c.arg2]
          /\ \A j \in 1 .. Len(rows) : rows[j].door = d => j = k
    BY DEF OnlyRow
  <1>2. own = {k} /\ rows[k].arg = c.arg2
    BY <1>1
  <1>3. (CHOOSE i \in own : \A j \in own : j <= i) = k
    BY <1>2
  <1>4. QED
    BY <1>2, <1>3 DEF StoredMask

(* The OK that answers a "set" is kept through every other command, failed *)
(* statement, crash and power loss: the block is in force, stored, and the *)
(* door locked; for any number of doors and any commands.                  *)
THEOREM AckedSetIsDurable ==
  ASSUME DisjointOutputs
  PROVE  RCSpec => []AckedSetDurable
  <1>1. RCInv /\ AckInv => AckedSetDurable
    <2> SUFFICES ASSUME RCInv, AckInv, NEW d \in Door, acked[d] # NoCommand
                 PROVE  /\ st.admDisableMask[d] = acked[d].arg2
                        /\ StoredMask(db, d) = acked[d].arg2
                        /\ acked[d].arg1 = "lock" =>
                             \A o \in AdmOutputs(d) : st.output[o] = "lock"
      BY DEF AckedSetDurable
    <2>1. db \in Seq(Row)
      BY DEF RCInv, RCTypeOK
    <2>2. InForce(st, acked[d], d) /\ OnlyRow(db, d, acked[d])
      BY DEF AckInv
    <2>3. StoredMask(db, d) = acked[d].arg2
      BY <2>1, <2>2, StoredOfOnlyRow
    <2>4. QED
      BY <2>2, <2>3 DEF InForce, AdmOutputs, Covered
  <1>2. QED
    BY <1>1, RCInitType, RCNextType, AckInit, AckNext, PTL DEF RCSpec
-----------------------------------------------------------------------------
(* The airlock of the whole program *)

(* Without a "set" the state database stays empty.                         *)
RemoteAirlockInv == AirlockInv /\ db = <<>> /\ phase \in Phase

(* A step that keeps timers, inputs and locks, and every blockade.         *)
LEMMA MoreBlocked ==
  ASSUME NEW s, NEW t, NEW V \in SUBSET Door, Protected(s, V),
         t.admDisableMask = s.admDisableMask, t.lastInput = s.lastInput,
         t.door_lock_timer = s.door_lock_timer, t.output = s.output,
         \A e \in Door : Blocked(s, e) => Blocked(t, e)
  PROVE  Protected(t, V)
  BY PartnerDoor DEF Protected, Unlocked, Opened

(* signalDoorStatus changes the LED only. *)
LEMMA SignalKeeps ==
  ASSUME NEW s \in State, NEW d \in Door, NEW V \in SUBSET Door, Protected(s, V)
  PROVE  Protected(signalDoorStatus(s, d), V)
  <1> DEFINE t == signalDoorStatus(s, d)
  <1>1. /\ t.admDisableMask = s.admDisableMask /\ t.lastInput = s.lastInput
        /\ t.door_lock_timer = s.door_lock_timer /\ t.output = s.output
        /\ t.airLockMask = s.airLockMask
    BY SignalFields
  <1>2. \A e \in Door : Blocked(s, e) => Blocked(t, e)
    BY <1>1 DEF Blocked
  <1> HIDE DEF t
  <1>3. Protected(t, V)
    BY <1>1, <1>2, MoreBlocked
  <1>4. QED
    BY <1>3 DEF t

(* lock_door while the timer runs: locked is not "locked" for the airlock, *)
(* so the partner stays blocked until the timer has run out.               *)
LEMMA LockKeeps ==
  ASSUME AirlockPairs, NEW s \in State, NEW V \in SUBSET Door, NEW d \in Door,
         NEW mask \in SUBSET Bit, Protected(s, V)
  PROVE  Protected(lock_door(s, d, mask), V)
  <1> DEFINE t == lock_door(s, d, mask)
             m == lock_mask(s, d, mask)
  <1>1. /\ t.lastInput = s.lastInput /\ t.admDisableMask = s.admDisableMask
        /\ t.door_lock_timer = s.door_lock_timer
        /\ m = {} => t = s
        /\ m # {} =>
             /\ t.output = set_door_state(s.output, "lock", m)
             /\ t.airLockMask = airLockOnPartner(s, d, {}).airLockMask
    BY LockFields
  <1> HIDE DEF t, m
  <1>2. CASE m = {}
    BY <1>1, <1>2 DEF t
  <1>3. CASE m # {}
    <2>1. \A e \in Door : Unlocked(t, e) => Unlocked(s, e)
      <3>1. \A o \in Output : t.output[o] = "unlock" => s.output[o] = "unlock"
        BY <1>1, <1>3 DEF set_door_state
      <3>2. QED
        BY <3>1 DEF Unlocked, OutputsOf
    <2>2. \A e \in Door : Blocked(s, e) =>
            \/ Blocked(t, e)
            \/ LockedAndClosed(s, d) /\ HasPartner(d) /\ e = airLockPartnerLocal[d]
      BY <1>1, <1>3, FreePartner DEF Blocked
    <2>3. \A e \in Door : e \in V => e \in Door
      OBVIOUS
    <2>4. ASSUME NEW e \in Door, HasPartner(e), Blocked(s, airLockPartnerLocal[e]),
                 s.door_lock_timer[e] > 0 \/ Opened(s, e)
          PROVE  Blocked(t, airLockPartnerLocal[e])
      <3>1. airLockPartnerLocal[e] \in Door
        BY <2>4, PartnerDoor
      <3>2. SUFFICES ASSUME LockedAndClosed(s, d), HasPartner(d),
                            airLockPartnerLocal[e] = airLockPartnerLocal[d]
                     PROVE  FALSE
        BY <2>2, <2>4, <3>1
      <3>3. e = d
        BY <3>2, PartnerUnique
      <3>4. s.door_lock_timer[d] \in 0 .. DOOR_OPEN_TIME
        BY DEF State
      <3>5. QED
        BY <2>4, <3>2, <3>3, <3>4, DoorAssumption DEF LockedAndClosed, Opened
    <2>5. /\ \A e \in Door : t.admDisableMask[e] = {}
          /\ \A e \in V : Unlocked(t, e) => t.door_lock_timer[e] > 0
          /\ \A e \in V : airLockPartnerLocal[e] \in V
               => t.door_lock_timer[e] = 0
                    \/ t.door_lock_timer[airLockPartnerLocal[e]] = 0
      BY <1>1, <2>1, <2>3 DEF Protected
    <2>6. \A e \in V : t.door_lock_timer[e] > 0 /\ HasPartner(e)
                         => Blocked(t, airLockPartnerLocal[e])
      BY <1>1, <2>3, <2>4 DEF Protected
    <2>7. \A e \in Door : Opened(t, e) /\ HasPartner(e)
                            => Blocked(t, airLockPartnerLocal[e])
      BY <1>1, <2>4 DEF Protected, Opened
    <2>8. Protected(t, V)
      BY <2>5, <2>6, <2>7 DEF Protected
    <2>9. QED
      BY <2>8 DEF t
  <1>4. QED
    BY <1>2, <1>3

(* A command is taken after all doors were visited; its end begins the     *)
(* next cycle.                                                             *)
LEMMA AnsweredAirlock ==
  ASSUME RCInv, AirlockInv, phase = "network", Answered,
         doorsCount = 0 => st' = st, doorsCount # 0 => Protected(st', Polled)
  PROVE  AirlockInv'
  <1>1. /\ phase' = LoopStart /\ cur' = 0 /\ booted' = booted
        /\ booted \/ doorsCount = 0
    BY DEF Answered, AirlockInv
  <1>2. CASE doorsCount = 0
    <2>1. Polled = {} /\ Visited = {} /\ Visited' = {}
      BY <1>2 DEF Visited, Polled
    <2>2. phase' = "gpio"
      BY <1>1, <1>2 DEF LoopStart
    <2>3. QED
      BY <1>1, <1>2, <2>1, <2>2 DEF AirlockInv, Protected
  <1>3. CASE doorsCount # 0
    <2>1. Visited' = Polled /\ Polled = Door
      BY <1>1, <1>3, AllPolled DEF Visited
    <2>2. phase' = "timer"
      BY <1>1, <1>3 DEF LoopStart
    <2>3. cur' \in Polled
      BY <1>1, <2>1, DoorsCount
    <2>4. QED
      BY <1>1, <1>3, <2>1, <2>2, <2>3 DEF AirlockInv
  <1>4. QED
    BY <1>2, <1>3

(* No command but those two takes a blockade back. *)
LEMMA CommandsKeepAirlock ==
  ASSUME AirlockPairs, DisjointOutputs, RCInv, AirlockInv, NEW c \in Commands,
         c.cmd # "set", ~(c.cmd = "do" /\ c.arg1 = "unblock"),
         Unset(c) \/ DoUnlock(c) \/ DoLock(c) \/ DoBlock(c) \/ NoEffect(c)
  PROVE  AirlockInv'
  <1>1. st \in State /\ phase = "network" /\ Answered
    BY DEF RCInv, RCTypeOK, Unset, DoUnlock, DoLock, DoBlock, NoEffect, Receive
  <1>2. doorsCount # 0 => Protected(st, Polled) /\ Polled \in SUBSET Door
    <2>1. doorsCount # 0 => Visited = Polled
      BY <1>1 DEF AirlockInv, Visited
    <2>2. QED
      BY <2>1, DoorsCount DEF AirlockInv
  <1>3. CASE NoEffect(c)
    <2>1. st' = st
      BY <1>3 DEF NoEffect
    <2>2. QED
      BY <1>1, <1>2, <2>1, AnsweredAirlock
  <1>4. CASE Unset(c) \/ DoUnlock(c) \/ DoLock(c) \/ DoBlock(c)
    <2>1. c.door \in Polled /\ c.door \in Door /\ c.arg2 \in SUBSET Bit
      BY <1>4, CommandType DEF Unset, DoUnlock, DoLock, DoBlock
    <2>2. doorsCount # 0 /\ Protected(st, Polled) /\ Polled \in SUBSET Door
      BY <1>2, <2>1, DoorsCount DEF Polled
    <2>3. CASE Unset(c)
      <3> DEFINE free == [st EXCEPT !.admDisableMask[c.door] = {}]
      <3>1. st' = st \/ st' = signalDoorStatus(free, c.door)
        BY <2>3 DEF Unset
      <3>2. /\ free \in State /\ free.admDisableMask = st.admDisableMask
            /\ free.lastInput = st.lastInput /\ free.output = st.output
            /\ free.door_lock_timer = st.door_lock_timer
            /\ free.airLockMask = st.airLockMask
        <4>1. st.admDisableMask[c.door] = {} /\ st.admDisableMask \in [Door -> SUBSET Bit]
          BY <1>1, <2>1, <2>2 DEF Protected, State
        <4>2. QED
          BY <1>1, <2>1, <4>1 DEF State
      <3> HIDE DEF free
      <3>3. Protected(free, Polled)
        BY <2>2, <3>2, MoreBlocked DEF Blocked
      <3>4. Protected(st', Polled)
        BY <2>1, <2>2, <3>1, <3>2, <3>3, SignalKeeps
      <3>5. QED
        BY <1>1, <2>2, <3>4, AnsweredAirlock
    <2>4. CASE DoUnlock(c)
      <3> DEFINE t == unlock_door(st, c.door, c.arg2)
      <3>1. st' = st \/ st' = signalDoorStatus(t, c.door)
        BY <2>4 DEF DoUnlock
      <3>2. t \in State /\ Protected(t, Polled)
        BY <1>1, <2>1, <2>2, UnlockFields, UnlockKeeps
      <3> HIDE DEF t
      <3>3. Protected(st', Polled)
        BY <2>1, <2>2, <3>1, <3>2, SignalKeeps
      <3>4. QED
        BY <1>1, <2>2, <3>3, AnsweredAirlock
    <2>5. CASE DoLock(c)
      <3> DEFINE t == lock_door(st, c.door, c.arg2)
      <3>1. st' = st \/ st' = signalDoorStatus(t, c.door)
        BY <2>5 DEF DoLock
      <3>2. t \in State /\ Protected(t, Polled)
        BY <1>1, <2>1, <2>2, LockFields, LockKeeps
      <3> HIDE DEF t
      <3>3. Protected(st', Polled)
        BY <2>1, <2>2, <3>1, <3>2, SignalKeeps
      <3>4. QED
        BY <1>1, <2>2, <3>3, AnsweredAirlock
    <2>6. CASE DoBlock(c)
      <3>1. st' = [st EXCEPT !.airLockMask[c.door] = st.airLockMask[c.door] \cup c.arg2]
        BY <2>6 DEF DoBlock
      <3>2. /\ st'.admDisableMask = st.admDisableMask
            /\ st'.lastInput = st.lastInput /\ st'.output = st.output
            /\ st'.door_lock_timer = st.door_lock_timer
            /\ \A e \in Door : st.airLockMask[e] \subseteq st'.airLockMask[e]
        BY <1>1, <2>1, <3>1 DEF State
      <3>3. \A e \in Door : Blocked(st, e) => Blocked(st', e)
        BY <3>2 DEF Blocked
      <3>4. Protected(st', Polled)
        BY <2>2, <3>2, <3>3, MoreBlocked
      <3>5. QED
        BY <1>1, <2>2, <3>4, AnsweredAirlock
    <2>7. QED
      BY <1>4, <2>3, <2>4, <2>5, <2>6
  <1>5. QED
    BY <1>3, <1>4

(* A restart with an empty database begins as the first start does.        *)
LEMMA RestartAirlock ==
  ASSUME RCInv, db = <<>>, Restart
  PROVE  AirlockInv'
  <1>1. st \in State
    BY DEF RCInv, RCTypeOK
  <1>2. PICK out \in PowerUp \cup {st.output} :
          st' = init_remote_control(StartState(out, st.led), db)
    BY DEF Restart
  <1>3. phase' = LoopStart /\ cur' = 0 /\ booted' = FALSE
    BY DEF Restart
  <1> DEFINE s0 == StartState(out, st.led)
  <1>4. s0 \in State
    BY <1>1, ControllerAssumption, StartType DEF State
  <1>5. /\ \A d \in Door : s0.admDisableMask[d] = {} /\ s0.door_lock_timer[d] = 1
        /\ \A d \in Door : ~Opened(s0, d)
    BY DEF StartState, Opened, InitialInput, AllInputs
  <1> HIDE DEF s0
  <1>6. st' = s0
    <2>1. db \in Seq(Row) /\ Len(db) = 0
      OBVIOUS
    <2>2. PICK h \in [0 .. Len(db) -> State] :
            /\ h[0] = s0
            /\ \A i \in 1 .. Len(db) : h[i] = restore_row(h[i - 1], db[i])
            /\ init_remote_control(s0, db) = h[Len(db)]
      BY <1>4, <2>1, ReplayRuns
    <2>3. QED
      BY <1>2, <2>1, <2>2 DEF s0
  <1>7. Visited' = {}
    BY <1>3, DoorsCount DEF Visited, Polled, LoopStart
  <1>8. phase' = "timer" => cur' \in Polled
    BY <1>3, DoorsCount DEF LoopStart, Polled
  <1>9. phase' = "gpio" => doorsCount = 0
    BY <1>3 DEF LoopStart
  <1>10. phase' \in {"timer", "gpio"}
    BY <1>3 DEF LoopStart
  <1>11. QED
    BY <1>3, <1>5, <1>6, <1>7, <1>8, <1>9, <1>10 DEF AirlockInv, Protected

LEMMA RemoteAirlockInit == RCInit => RemoteAirlockInv
  <1>1. RCInit => phase \in Phase
    BY DEF RCInit, Init, LoopStart, Phase
  <1>2. QED
    BY <1>1, AirlockInit DEF RCInit, RemoteAirlockInv

LEMMA RemoteAirlockNext ==
  ASSUME AirlockPairs, DisjointOutputs, NoOverride
  PROVE  RCInv /\ RemoteAirlockInv /\ [RCNext]_rcvars => RemoteAirlockInv'
  <1> SUFFICES ASSUME RCInv, RemoteAirlockInv, [RCNext]_rcvars
               PROVE  RemoteAirlockInv'
    OBVIOUS
  <1>1. AirlockInv /\ db = <<>> /\ phase \in Phase
    BY DEF RemoteAirlockInv
  <1>2. TypeOK
    BY <1>1 DEF RCInv, RCTypeOK, TypeOK
  <1>3. CASE Loop
    <2>1. Next /\ db' = db
      BY <1>3 DEF Loop, Next, rest
    <2>2. AirlockInv' /\ TypeOK'
      BY <1>1, <1>2, <2>1, AirlockNext, NextType
    <2>3. QED
      BY <1>1, <2>1, <2>2 DEF RemoteAirlockInv, TypeOK
  <1>4. ASSUME NEW c \in Commands,
               Set(c) \/ Unset(c) \/ DoUnlock(c) \/ DoLock(c) \/ DoBlock(c) \/ NoEffect(c)
        PROVE  RemoteAirlockInv'
    <2>1. c.cmd # "set" /\ ~(c.cmd = "do" /\ c.arg1 = "unblock")
      BY DEF NoOverride
    <2>2. Unset(c) \/ DoUnlock(c) \/ DoLock(c) \/ DoBlock(c) \/ NoEffect(c)
      BY <1>4, <2>1 DEF Set
    <2>3. AirlockInv'
      BY <1>1, <2>1, <2>2, CommandsKeepAirlock
    <2>4. db' = <<>>
      <3>1. db' = db \/ db' = db_unset(db, c.door, c.arg1)
        BY <2>2 DEF Unset, DoUnlock, DoLock, DoBlock, NoEffect, rest
      <3>2. db_unset(<<>>, c.door, c.arg1) = <<>>
        <4>1. <<>> \in Seq(Row) /\ Len(<<>>) = 0
          OBVIOUS
        <4>2. KeptOf(db_unset(<<>>, c.door, c.arg1), 0, <<>>, c.door, c.arg1)
          BY <4>1, UnsetRows
        <4> DEFINE q == db_unset(<<>>, c.door, c.arg1)
        <4>3. q \in Seq(Row) /\ \A k \in 1 .. Len(q) : FALSE
          BY <4>2 DEF KeptOf
        <4> HIDE DEF q
        <4>4. QED
          BY <4>3 DEF q
      <3>3. QED
        BY <1>1, <3>1, <3>2
    <2>5. phase' \in Phase
      BY <2>2 DEF Unset, DoUnlock, DoLock, DoBlock, NoEffect, Answered, LoopStart, Phase
    <2>6. QED
      BY <2>3, <2>4, <2>5 DEF RemoteAirlockInv
  <1>5. CASE SetDelete \/ SetInsert
    BY <1>1, <1>5 DEF SetDelete, SetInsert, Phase
  <1>6. CASE Restart
    <2>1. AirlockInv'
      BY <1>1, <1>6, RestartAirlock
    <2>2. QED
      BY <1>1, <1>6, <2>1 DEF RemoteAirlockInv, Restart, LoopStart, Phase
  <1>7. CASE UNCHANGED rcvars
    BY <1>1, <1>7 DEF rcvars, RemoteAirlockInv, AirlockInv, Visited
  <1>8. QED
    BY <1>3, <1>4, <1>5, <1>6, <1>7 DEF RCNext, check_network

(* The airlock outlives commands and crashes: the operator's "do unlock",  *)
(* "do lock", "do block" and "unset" never take a blockade back, and a     *)
(* restart forgets the blockades together with the doors that count.       *)
THEOREM RemoteKeepsAirlock ==
  ASSUME AirlockPairs, DisjointOutputs, NoOverride
  PROVE  RCSpec => []AirlockInv /\ []AirlockExclusion /\ []PartnerBlocked
  <1>1. RCInv /\ RemoteAirlockInv => AirlockInv /\ TypeOK
    BY DEF RCInv, RCTypeOK, RemoteAirlockInv, TypeOK
  <1>2. AirlockInv /\ TypeOK => AirlockExclusion /\ PartnerBlocked
    BY AirlockConsequences
  <1>3. QED
    BY <1>1, <1>2, RCInitType, RCNextType, RemoteAirlockInit, RemoteAirlockNext, PTL
    DEF RCSpec
=============================================================================
