-------------------------- MODULE EpsoLink_proofs --------------------------
(***************************************************************************)
(* The driver of the Roger readers, for any number of inputs, of           *)
(* unanswered requests and of fragments in its buffer: its types, and the  *)
(* channel it implements; and what that channel promises.                  *)
(***************************************************************************)
EXTENDS EpsoLink, SequenceTheorems, TLAPS

-----------------------------------------------------------------------------
(* Sequences *)

(* An element at the end of a sequence. *)
LEMMA Appended ==
  ASSUME NEW S, NEW s \in Seq(S), NEW e \in S
  PROVE  /\ Append(s, e) \in Seq(S)
         /\ Len(s) \in Nat /\ Len(Append(s, e)) = Len(s) + 1
         /\ Append(s, e)[Len(s) + 1] = e
         /\ \A k \in 1 .. Len(s) : Append(s, e)[k] = s[k]
         /\ \A k \in 1 .. Len(Append(s, e)) : k \in 1 .. Len(s) \/ k = Len(s) + 1
  OBVIOUS

(* An element that takes the place of another.                             *)
LEMMA Replaced ==
  ASSUME NEW S, NEW s \in Seq(S), NEW k \in 1 .. Len(s), NEW e \in S,
         NEW t, t = [s EXCEPT ![k] = e]
  PROVE  /\ t \in Seq(S) /\ Len(t) = Len(s)
         /\ \A i \in 1 .. Len(s) : t[i] = s[i] \/ t[i] = e
  OBVIOUS

(* Two queues in a row; the first elements of a queue, and the rest.       *)
InARow(s, t) == s \o t
First(s, n) == SubSeq(s, 1, n)
Rest(s, n) == SubSeq(s, n + 1, Len(s))

LEMMA InARowIs ==
  ASSUME NEW S, NEW s \in Seq(S), NEW t \in Seq(S)
  PROVE  /\ InARow(s, t) \in Seq(S) /\ Len(InARow(s, t)) = Len(s) + Len(t)
         /\ \A k \in 1 .. Len(s) : InARow(s, t)[k] = s[k]
         /\ \A k \in 1 .. Len(t) : InARow(s, t)[k + Len(s)] = t[k]
  BY DEF InARow

LEMMA Regrouped ==
  ASSUME NEW S, NEW s \in Seq(S), NEW a \in Seq(S), NEW b \in Seq(S)
  PROVE  InARow(InARow(s, a), b) = InARow(s, InARow(a, b))
  BY DEF InARow

LEMMA AppendedInARow ==
  ASSUME NEW S, NEW s \in Seq(S), NEW t \in Seq(S), NEW e \in S
  PROVE  InARow(s, Append(t, e)) = Append(InARow(s, t), e)
  BY DEF InARow

LEMMA Parted ==
  ASSUME NEW S, NEW s \in Seq(S), NEW n \in 0 .. Len(s)
  PROVE  /\ First(s, n) \in Seq(S) /\ Len(First(s, n)) = n
         /\ \A k \in 1 .. n : First(s, n)[k] = s[k]
         /\ Rest(s, n) \in Seq(S)
         /\ InARow(First(s, n), Rest(s, n)) = s
  <1>1. Len(s) \in Nat /\ n \in Int /\ \A i \in 1 .. Len(s) : s[i] \in S
    OBVIOUS
  <1>2. /\ SubSeq(s, 1, n) \in Seq(S) /\ Len(SubSeq(s, 1, n)) = n
        /\ \A k \in 1 .. n : SubSeq(s, 1, n)[k] = s[k]
    BY <1>1, SubSeqProperties
  <1>3. SubSeq(s, n + 1, Len(s)) \in Seq(S)
    BY <1>1, SubSeqProperties
  <1>4. SubSeq(s, 1, n) \o SubSeq(s, n + 1, Len(s)) = SubSeq(s, 1, Len(s))
    <2>1. /\ 1 \in 1 .. Len(s) + 1 /\ n \in 1 - 1 .. Len(s)
          /\ Len(s) \in n .. Len(s)
      BY <1>1
    <2>2. QED
      BY <2>1, ConcatAdjacentSubSeq, Zenon
  <1>5. SubSeq(s, 1, Len(s)) = s
    BY SubSeqFull
  <1>6. QED
    BY <1>2, <1>3, <1>4, <1>5, Zenon DEF First, Rest, InARow

(* What a read moves from one queue to the other does not change the two   *)
(* in a row.                                                               *)
LEMMA Moved ==
  ASSUME NEW S, NEW s \in Seq(S), NEW t \in Seq(S), NEW n \in 0 .. Len(t)
  PROVE  /\ InARow(s, First(t, n)) \in Seq(S)
         /\ Len(InARow(s, First(t, n))) = Len(s) + n
         /\ Rest(t, n) \in Seq(S)
         /\ InARow(InARow(s, First(t, n)), Rest(t, n)) = InARow(s, t)
  <1>1. /\ First(t, n) \in Seq(S) /\ Len(First(t, n)) = n
        /\ Rest(t, n) \in Seq(S)
        /\ InARow(First(t, n), Rest(t, n)) = t
    BY Parted
  <1>2. /\ InARow(s, First(t, n)) \in Seq(S)
        /\ Len(InARow(s, First(t, n))) = Len(s) + n
    BY <1>1, InARowIs
  <1>3. InARow(InARow(s, First(t, n)), Rest(t, n)) = InARow(s, t)
    BY <1>1, Regrouped
  <1>4. QED
    BY <1>1, <1>2, <1>3

-----------------------------------------------------------------------------
(* Types *)

Handed == [id : Nat, as : {"card", "pin"}]
Fragments == [part : {"head", "tail", "torn"}, of : Answer]

(* EpsoTypeOK with the contents of the queues.  A call without a buffer    *)
(* reads nothing, and so stays readable: it never leaves the loop.         *)
Typed ==
  /\ EpsoTypeOK
  /\ pc = "next" <=> op = "none"
  /\ op # "poll" => buf = <<>>
  /\ op = "command" /\ pc = "rest" => Readable
  /\ buf \in Seq(Fragments) /\ line \in Seq(Fragments)
  /\ shown \in Seq(Kinds)
  /\ waiting \in Seq(Nat)
  /\ \A k \in 1 .. Len(waiting) : waiting[k] \in 1 .. Len(shown)
  /\ owed \in Seq({"poll", "command"})
  /\ handed \in Seq(Handed)

(* The fragments in the tty carry answers. *)
LEMMA LineCarries ==
  ASSUME NEW queue \in Seq(Fragments)
  PROVE  \A k \in 1 .. Len(queue) : queue[k].of \in Answer
  <1>1. \A k \in 1 .. Len(queue) : queue[k] \in Fragments
    OBVIOUS
  <1>2. \A f \in Fragments : f.of \in Answer
    BY DEF Fragments
  <1>3. QED
    BY <1>1, <1>2

(* The answer of the reader is the oldest input it keeps, or nothing.      *)
LEMMA ReplyIs ==
  ASSUME Typed, owed # <<>>
  PROVE  /\ Reply \in Answer
         /\ Reply # Nothing =>
              /\ waiting # <<>> /\ 1 \in 1 .. Len(waiting)
              /\ Reply.id = waiting[1] /\ Reply.what = shown[waiting[1]]
  <1>1. CASE owed[1] = "poll" /\ waiting # <<>>
    <2>1. 1 \in 1 .. Len(waiting)
      BY <1>1 DEF Typed
    <2>2. waiting[1] \in Nat /\ waiting[1] \in 1 .. Len(shown)
      BY <2>1 DEF Typed
    <2>3. shown[waiting[1]] \in Kinds
      BY <2>2 DEF Typed
    <2>4. Reply = [id |-> waiting[1], what |-> shown[waiting[1]]]
      BY <1>1 DEF Reply
    <2>5. QED
      BY <1>1, <2>1, <2>2, <2>3, <2>4 DEF Answer
  <1>2. CASE ~(owed[1] = "poll" /\ waiting # <<>>)
    BY <1>2 DEF Reply, Nothing, Answer
  <1>3. QED
    BY <1>1, <1>2

(* Forgetting the oldest input keeps the types of the queue.               *)
LEMMA TailTyped ==
  ASSUME Typed, waiting # <<>>
  PROVE  /\ Tail(waiting) \in Seq(Nat)
         /\ Len(Tail(waiting)) = Len(waiting) - 1
         /\ \A k \in 1 .. Len(Tail(waiting)) :
              k + 1 \in 1 .. Len(waiting) /\ Tail(waiting)[k] = waiting[k + 1]
  <1>1. waiting \in Seq(Nat)
    BY DEF Typed
  <1>2. /\ Tail(waiting) \in Seq(Nat)
        /\ Len(Tail(waiting)) = Len(waiting) - 1
        /\ \A k \in 1 .. Len(Tail(waiting)) : Tail(waiting)[k] = waiting[k + 1]
    BY <1>1, HeadTailProperties
  <1>3. Len(waiting) \in Nat
    BY <1>1
  <1>4. QED
    BY <1>2, <1>3

(* What waits after an answer.                                             *)
LEMMA ForgetTyped ==
  ASSUME Typed, owed # <<>>, UNCHANGED shown,
         waiting' = IF Reply = Nothing THEN waiting ELSE Tail(waiting)
  PROVE  /\ waiting' \in Seq(Nat)
         /\ \A k \in 1 .. Len(waiting') : waiting'[k] \in 1 .. Len(shown')
  <1>1. CASE waiting' = waiting
    BY <1>1 DEF Typed
  <1>2. CASE waiting' = Tail(waiting) /\ Reply # Nothing
    <2>1. waiting # <<>>
      BY <1>2, ReplyIs
    <2>2. QED
      BY <1>2, <2>1, TailTyped DEF Typed
  <1>3. QED
    BY <1>1, <1>2

(* A request is answered or lost: one less is owed.                        *)
LEMMA OwedTyped ==
  ASSUME Typed, owed # <<>>, owed' = Tail(owed)
  PROVE  owed' \in Seq({"poll", "command"}) /\ Len(owed') <= MaxOwed
  <1>1. owed \in Seq({"poll", "command"}) /\ Len(owed) \in Nat /\ Len(owed) <= MaxOwed
    BY DEF Typed, EpsoTypeOK
  <1>2. Tail(owed) \in Seq({"poll", "command"}) /\ Len(Tail(owed)) = Len(owed) - 1
    BY <1>1, HeadTailProperties
  <1>3. MaxOwed \in Nat
    BY EpsoAssumption
  <1>4. QED
    BY <1>1, <1>2, <1>3

LEMMA InitTyped == Init => Typed
  <1> SUFFICES ASSUME Init PROVE Typed
    OBVIOUS
  <1>1. /\ buf = <<>> /\ line = <<>> /\ owed = <<>> /\ waiting = <<>>
        /\ shown = <<>> /\ handed = <<>>
    BY DEF Init
  <1>2. EpsoTypeOK
    <2>1. \A k \in 1 .. Len(line) : line[k].of \in Answer
      BY <1>1
    <2>2. /\ Len(<<>>) <= MaxOwed /\ Len(<<>>) <= MaxShown
          /\ Len(<<>>) <= BUF_FRAGMENTS /\ 3 \in 0 .. 4
      BY EpsoAssumption
    <2>3. QED
      BY <1>1, <2>1, <2>2, Zenon DEF Init, EpsoTypeOK, INIT_COMMANDS
  <1>3. /\ <<>> \in Seq(Fragments) /\ <<>> \in Seq(Kinds) /\ <<>> \in Seq(Nat)
        /\ <<>> \in Seq({"poll", "command"}) /\ <<>> \in Seq(Handed)
    OBVIOUS
  <1>4. \A k \in 1 .. Len(waiting) : waiting[k] \in 1 .. Len(shown)
    BY <1>1
  <1>5. pc = "next" /\ op = "none"
    BY DEF Init
  <1>6. QED
    BY <1>1, <1>2, <1>3, <1>4, <1>5 DEF Typed

(* What the driver takes a row of whole answers for is the head of the     *)
(* first.                                                                  *)
LEMMA ParsedIs ==
  ASSUME Typed
  PROVE  /\ Parsed \in Answer
         /\ Parsed.what # "none" =>
              /\ buf # <<>> /\ 1 \in 1 .. Len(buf)
              /\ buf[1].part = "head" /\ buf[1].of = Parsed /\ Parsed # Nothing
  <1>1. CASE buf # <<>> /\ Intact(buf)
    <2>1. buf \in Seq(Fragments) /\ 1 \in 1 .. Len(buf)
      BY <1>1 DEF Typed
    <2>2. buf[1] = Head1(buf[1].of)
      <3>1. 1 % 2 = 1
        OBVIOUS
      <3>2. QED
        BY <1>1, <2>1, <3>1 DEF Intact
    <2>3. Parsed = buf[1].of
      BY <1>1 DEF Parsed
    <2>4. buf[1].of \in Answer
      BY <2>1, LineCarries
    <2>5. buf[1].part = "head"
      BY <2>2 DEF Head1
    <2>6. QED
      BY <1>1, <2>1, <2>3, <2>4, <2>5 DEF Nothing
  <1>2. CASE ~(buf # <<>> /\ Intact(buf))
    BY <1>2 DEF Parsed, Nothing, Answer
  <1>3. QED
    BY <1>1, <1>2

(* What is handed over has the type of an input.                           *)
LEMMA HandsTyped ==
  ASSUME Typed, HandOver
  PROVE  handed' \in Seq(Handed)
  <1>1. Parsed \in Answer
    BY ParsedIs
  <1>2. ASSUME Parsed.what # "none"
        PROVE  [id |-> Parsed.id, as |-> TakenFor(Parsed.what)] \in Handed
    <2>1. Parsed.id \in Nat /\ Parsed.what \in {"card", "pin", "both"}
      BY <1>1, <1>2, EpsoAssumption DEF Answer
    <2>2. TakenFor(Parsed.what) \in {"card", "pin"}
      BY <2>1 DEF TakenFor
    <2>3. QED
      BY <2>1, <2>2 DEF Handed
  <1>3. handed \in Seq(Handed)
    BY DEF Typed
  <1>4. QED
    BY <1>2, <1>3 DEF HandOver

(* A read moves fragments from the tty to the buffer, as many as fit.      *)
LEMMA ReadMoves ==
  ASSUME Typed, Read
  PROVE  /\ buf' \in Seq(Fragments) /\ line' \in Seq(Fragments)
         /\ Len(buf') <= BUF_FRAGMENTS
         /\ InARow(buf', line') = InARow(buf, line)
         /\ op # "poll" => buf' = <<>> /\ line' = line
  <1> DEFINE n == Smaller(Room, Len(line))
  <1>1. buf' = InARow(buf, First(line, n)) /\ line' = Rest(line, n)
    BY DEF Read, InARow, First, Rest
  <1>2. /\ buf \in Seq(Fragments) /\ line \in Seq(Fragments)
        /\ Len(buf) \in Nat /\ Len(line) \in Nat
        /\ Len(buf) <= BUF_FRAGMENTS /\ BUF_FRAGMENTS \in Nat
    BY EpsoAssumption DEF Typed, EpsoTypeOK
  <1>3. ASSUME op # "poll"
        PROVE  buf = <<>> /\ Room = 0
    <2>1. buf = <<>> /\ BufLen = 0
      BY <1>3 DEF Typed, BufLen
    <2>2. Room = 0 - Len(buf) /\ Len(buf) = 0
      BY <2>1 DEF Room
    <2>3. Room = 0
      BY <2>2
    <2>4. QED
      BY <2>1, <2>3
  <1>4. op = "poll" => Room = BUF_FRAGMENTS - Len(buf)
    BY DEF Room, BufLen
  <1>5. Room \in Nat /\ Len(buf) + Room <= BUF_FRAGMENTS
    <2>1. CASE op = "poll"
      BY <1>2, <1>4, <2>1
    <2>2. CASE op # "poll"
      BY <1>2, <1>3, <2>2
    <2>3. QED
      BY <2>1, <2>2
  <1>6. n \in 0 .. Len(line) /\ n <= Room
    BY <1>2, <1>5 DEF Smaller
  <1> HIDE DEF n
  <1>7. /\ buf' \in Seq(Fragments) /\ line' \in Seq(Fragments)
        /\ Len(buf') = Len(buf) + n
        /\ InARow(buf', line') = InARow(buf, line)
    BY <1>1, <1>2, <1>6, Moved
  <1>8. Len(buf') <= BUF_FRAGMENTS
    BY <1>2, <1>5, <1>6, <1>7
  <1>9. ASSUME op # "poll"
        PROVE  buf' = <<>> /\ line' = line
    <2>1. buf = <<>> /\ n = 0
      BY <1>3, <1>5, <1>6, <1>9
    <2>2. Len(buf') = 0
      BY <1>7, <2>1
    <2>3. line' = SubSeq(line, 1, Len(line))
      BY <1>1, <2>1 DEF Rest
    <2>4. QED
      BY <1>2, <1>7, <2>2, <2>3, SubSeqFull
  <1>10. QED
    BY <1>7, <1>8, <1>9

(* A read that fails takes back the last byte of the buffer, which was     *)
(* whole or torn already.                                                  *)
LEMMA ReadFailsTakesBack ==
  ASSUME Typed, ReadFails, buf # <<>>
  PROVE  /\ buf' \in Seq(Fragments) /\ Len(buf') <= Len(buf)
         /\ \A k \in 1 .. Len(buf') : buf'[k] = buf[k] \/ buf'[k] = Torn
         /\ op = "poll"
  <1> DEFINE k == Len(buf)
  <1>1. buf \in Seq(Fragments) /\ k \in Nat /\ k \in 1 .. Len(buf)
    BY DEF Typed
  <1>2. buf' = IF buf[k] = Torn THEN SubSeq(buf, 1, k - 1) ELSE [buf EXCEPT ![k] = Torn]
    BY DEF ReadFails
  <1> HIDE DEF k
  <1>3. CASE buf[k] = Torn
    <2>1. buf' = First(buf, k - 1) /\ k - 1 \in 0 .. Len(buf)
      BY <1>1, <1>2, <1>3 DEF First
    <2>2. /\ buf' \in Seq(Fragments) /\ Len(buf') = k - 1
          /\ \A i \in 1 .. k - 1 : buf'[i] = buf[i]
      BY <1>1, <2>1, Parted, Zenon
    <2>3. QED
      BY <1>1, <2>2 DEF k, Typed
  <1>4. CASE buf[k] # Torn
    <2>1. buf' = [buf EXCEPT ![k] = Torn]
      BY <1>2, <1>4
    <2>2. Torn \in Fragments
      BY DEF Torn, Nothing, Fragments, Answer
    <2>3. /\ buf' \in Seq(Fragments) /\ Len(buf') = Len(buf)
          /\ \A i \in 1 .. Len(buf) : buf'[i] = buf[i] \/ buf'[i] = Torn
      BY <1>1, <2>1, <2>2, Replaced
    <2>4. QED
      BY <2>3, <1>1 DEF k, Typed
  <1>5. QED
    BY <1>3, <1>4

(* A request. *)
LEMMA RequestTyped ==
  ASSUME Typed, Command \/ Poll
  PROVE  Typed'
  <1>1. EpsoTypeOK
    BY DEF Typed
  <1>2. PICK call \in {"poll", "command"} : Request(call)
    BY DEF Command, Poll
  <1>3. owed' \in Seq({"poll", "command"}) /\ Len(owed') <= MaxOwed
    <2>1. /\ owed \in Seq({"poll", "command"}) /\ Len(owed) \in Nat /\ MaxOwed \in Nat
          /\ Len(owed) <= MaxOwed
      BY <1>1, EpsoAssumption DEF Typed, EpsoTypeOK
    <2>2. owed' = owed \/ (owed' = Append(owed, call) /\ Len(owed) # MaxOwed)
      BY <1>2 DEF Request
    <2>3. QED
      BY <2>1, <2>2
  <1>4. todo' \in 0 .. 4
    BY <1>1 DEF Command, Poll, EpsoTypeOK
  <1>5. /\ pc = "next" /\ pc' = "first" /\ op' = call
        /\ UNCHANGED <<buf, line, half, waiting, shown, handed, weather, dead>>
    BY <1>2 DEF Request, outside
  <1>6. buf = <<>>
    BY <1>5 DEF Typed
  <1>7. QED
    BY <1>1, <1>3, <1>4, <1>5, <1>6 DEF Typed, EpsoTypeOK

(* What the driver keeps when a call returns or reads on.                  *)
LEMMA DriverTyped ==
  ASSUME Typed, Read \/ ReadFails \/ NoReply \/ Silence \/ HandOver
  PROVE  Typed'
  <1>1. EpsoTypeOK
    BY DEF Typed
  <1>2. CASE Read
    <2>1. /\ pc \in {"first", "rest"} /\ Readable
          /\ pc' = "rest"
          /\ UNCHANGED <<op, todo, owed, half, waiting, shown, weather, dead, handed>>
      BY <1>2 DEF Read, AfterRead, reader, outside
    <2>2. /\ buf' \in Seq(Fragments) /\ line' \in Seq(Fragments)
          /\ Len(buf') <= BUF_FRAGMENTS
          /\ op # "poll" => buf' = <<>> /\ line' = line
      BY <1>2, ReadMoves
    <2>3. op' = "command" => Readable'
      BY <2>1, <2>2 DEF Readable
    <2>4. \A k \in 1 .. Len(line') : line'[k].of \in Answer
      BY <2>2, LineCarries
    <2>5. QED
      BY <1>1, <2>1, <2>2, <2>3, <2>4 DEF Typed, EpsoTypeOK
  <1>3. CASE ReadFails /\ buf # <<>>
    <2>1. /\ pc \in {"first", "rest"} /\ line' = <<>>
          /\ UNCHANGED <<pc, op, todo, owed, half, waiting, shown, weather, dead, handed>>
      BY <1>3 DEF ReadFails, reader, outside
    <2>2. buf' \in Seq(Fragments) /\ Len(buf') <= Len(buf) /\ op = "poll"
      BY <1>3, ReadFailsTakesBack
    <2>3. Len(buf') <= BUF_FRAGMENTS
      <3>1. Len(buf) \in Nat /\ Len(buf') \in Nat /\ Len(buf) <= BUF_FRAGMENTS
        BY <1>1, <2>2 DEF Typed, EpsoTypeOK
      <3>2. QED
        BY <2>2, <3>1, EpsoAssumption
    <2>4. line' \in Seq(Fragments) /\ \A k \in 1 .. Len(line') : line'[k].of \in Answer
      BY <2>1
    <2>5. QED
      BY <1>1, <2>1, <2>2, <2>3, <2>4 DEF Typed, EpsoTypeOK
  <1>4. CASE Silence
    <2>1. /\ pc = "rest" /\ ~Readable /\ pc' = "check"
          /\ UNCHANGED <<op, todo, buf, line, owed, half, waiting, shown, weather,
                         dead, handed>>
      BY <1>4 DEF Silence, TimeRunsOut, reader, outside
    <2>2. op = "poll"
      BY <1>1, <2>1 DEF Typed, EpsoTypeOK
    <2>3. QED
      BY <1>1, <2>1, <2>2 DEF Typed, EpsoTypeOK
  <1>5. CASE (ReadFails /\ buf = <<>>) \/ NoReply \/ HandOver
    <2>1. /\ pc' = "next" /\ op' = "none" /\ buf' = <<>> /\ line' \in {line, <<>>}
          /\ todo' = todo \/ todo' \in {0, 1, 2, 4}
          /\ UNCHANGED <<owed, half, waiting, shown, weather, dead>>
      BY <1>5 DEF ReadFails, NoReply, HandOver, Return, Signals, SignalCommands,
                  reader, outside
    <2>2. todo' \in 0 .. 4
      BY <1>1, <2>1 DEF EpsoTypeOK
    <2>3. line' \in Seq(Fragments)
      <3>1. line \in Seq(Fragments) /\ <<>> \in Seq(Fragments)
        BY DEF Typed
      <3>2. QED
        BY <2>1, <3>1
    <2>4. \A k \in 1 .. Len(line') : line'[k].of \in Answer
      BY <2>3, LineCarries
    <2>5. handed' \in Seq(Handed)
      <3>1. CASE handed' = handed
        BY <3>1 DEF Typed
      <3>2. CASE handed' # handed
        BY <1>5, <3>2, HandsTyped DEF ReadFails, NoReply
      <3>3. QED
        BY <3>1, <3>2
    <2>6. Len(buf') <= BUF_FRAGMENTS
      BY <2>1, EpsoAssumption
    <2>7. buf' \in Seq(Fragments)
      BY <2>1
    <2>8. QED
      BY <1>1, <2>1, <2>2, <2>3, <2>4, <2>5, <2>6, <2>7 DEF Typed, EpsoTypeOK
  <1>6. QED
    BY <1>2, <1>3, <1>4, <1>5
(* A fragment comes in. *)
LEMMA ReaderTyped ==
  ASSUME Typed, Reader
  PROVE  Typed'
  <1>1. EpsoTypeOK
    BY DEF Typed
  <1>2. /\ line \in Seq(Fragments)
        /\ UNCHANGED <<pc, op, todo, buf, shown, weather, dead, handed>>
    BY DEF Typed, Reader, AnswerHead, AnswerTail, driver, outside
  <1>3. ASSUME NEW f \in Fragments, line' = Append(line, f)
        PROVE  /\ line' \in Seq(Fragments) /\ line' # <<>>
               /\ \A k \in 1 .. Len(line') : line'[k].of \in Answer
    <2>1. line' \in Seq(Fragments) /\ line' # <<>>
      BY <1>2, <1>3, AppendProperties
    <2>2. QED
      BY <2>1, LineCarries
  <1>4. CASE AnswerHead
    <2>1. /\ owed # <<>> /\ owed' = Tail(owed) /\ half' = Reply
          /\ line' = Append(line, Head1(Reply))
          /\ waiting' = IF Reply = Nothing THEN waiting ELSE Tail(waiting)
      BY <1>4 DEF AnswerHead
    <2>2. Head1(Reply) \in Fragments /\ Reply \in Answer
      BY <2>1, ReplyIs DEF Head1, Fragments
    <2>3. /\ line' \in Seq(Fragments) /\ line' # <<>>
          /\ \A k \in 1 .. Len(line') : line'[k].of \in Answer
      BY <1>3, <2>1, <2>2
    <2>4. owed' \in Seq({"poll", "command"}) /\ Len(owed') <= MaxOwed
      BY <2>1, OwedTyped
    <2>5. /\ waiting' \in Seq(Nat)
          /\ \A k \in 1 .. Len(waiting') : waiting'[k] \in 1 .. Len(shown')
      BY <1>2, <2>1, ForgetTyped
    <2>6. Readable'
      BY <2>3 DEF Readable
    <2>7. half' \in Answer
      BY <2>1, <2>2
    <2>8. QED
      BY <1>1, <1>2, <2>3, <2>4, <2>5, <2>6, <2>7 DEF Typed, EpsoTypeOK
  <1>5. CASE AnswerTail
    <2>1. /\ half # NoAnswer /\ half' = NoAnswer /\ line' = Append(line, Tail1(half))
          /\ UNCHANGED <<owed, waiting>>
      BY <1>5 DEF AnswerTail
    <2>2. Tail1(half) \in Fragments
      BY <1>1, <2>1 DEF EpsoTypeOK, Tail1, Fragments
    <2>3. /\ line' \in Seq(Fragments) /\ line' # <<>>
          /\ \A k \in 1 .. Len(line') : line'[k].of \in Answer
      BY <1>3, <2>1, <2>2
    <2>4. Readable'
      BY <2>3 DEF Readable
    <2>5. QED
      BY <1>1, <1>2, <2>1, <2>3, <2>4 DEF Typed, EpsoTypeOK
  <1>6. QED
    BY <1>4, <1>5 DEF Reader

(* A user shows an input. *)
LEMMA ShowTyped ==
  ASSUME Typed, Show
  PROVE  Typed'
  <1>1. EpsoTypeOK
    BY DEF Typed
  <1>2. PICK what \in Kinds : shown' = Append(shown, what)
    BY DEF Show
  <1>3. /\ Len(shown) < MaxShown /\ waiting' = Append(waiting, Len(shown'))
        /\ UNCHANGED <<pc, op, todo, buf, line, owed, half, weather, dead, handed>>
    BY DEF Show, driver, outside
  <1>4. shown \in Seq(Kinds) /\ Len(shown) \in Nat /\ MaxShown \in Nat
    BY EpsoAssumption DEF Typed
  <1>5. shown' \in Seq(Kinds) /\ Len(shown') = Len(shown) + 1
    BY <1>2, <1>4
  <1>6. waiting \in Seq(Nat) /\ \A k \in 1 .. Len(waiting) : waiting[k] \in 1 .. Len(shown)
    BY DEF Typed
  <1>7. /\ waiting' \in Seq(Nat)
        /\ Len(waiting) \in Nat
        /\ waiting'[Len(waiting) + 1] = Len(shown')
        /\ \A k \in 1 .. Len(waiting) : waiting'[k] = waiting[k]
        /\ \A k \in 1 .. Len(waiting') : k \in 1 .. Len(waiting) \/ k = Len(waiting) + 1
    BY <1>3, <1>4, <1>5, <1>6
  <1>8. \A k \in 1 .. Len(waiting') : waiting'[k] \in 1 .. Len(shown')
    <2>1. Len(shown') \in 1 .. Len(shown')
      BY <1>4, <1>5
    <2>2. \A k \in 1 .. Len(waiting) : waiting'[k] \in 1 .. Len(shown')
      <3>1. \A n \in 1 .. Len(shown) : n \in 1 .. Len(shown')
        BY <1>4, <1>5
      <3>2. QED
        BY <1>6, <1>7, <3>1, Zenon
    <2>3. QED
      BY <1>7, <2>1, <2>2, Zenon
  <1>9. Len(shown') <= MaxShown
    BY <1>3, <1>4, <1>5
  <1>10. Readable' = Readable
    BY <1>3 DEF Readable
  <1>11. QED
    BY <1>1, <1>3, <1>5, <1>7, <1>8, <1>9, <1>10 DEF Typed, EpsoTypeOK

(* Every step keeps the types. *)
LEMMA NextTyped == Typed /\ [Next]_vars => Typed'
  <1> SUFFICES ASSUME Typed, [Next]_vars PROVE Typed'
    OBVIOUS
  <1>1. EpsoTypeOK
    BY DEF Typed
  <1>2. CASE Command \/ Poll
    BY <1>2, RequestTyped
  <1>3. CASE Read \/ ReadFails \/ NoReply \/ Silence \/ HandOver
    BY <1>3, DriverTyped
  <1>4. CASE Reader
    BY <1>4, ReaderTyped
  <1>5. CASE Show
    BY <1>5, ShowTyped
  <1>6. CASE Ignore
    <2>1. /\ owed # <<>> /\ owed' = Tail(owed)
          /\ UNCHANGED <<pc, op, todo, buf, line, half, waiting, shown, weather, dead, handed>>
      BY <1>6 DEF Ignore, driver, outside
    <2>2. owed' \in Seq({"poll", "command"}) /\ Len(owed') <= MaxOwed
      BY <2>1, OwedTyped
    <2>3. Readable' = Readable
      BY <2>1 DEF Readable
    <2>4. QED
      BY <1>1, <2>1, <2>2, <2>3 DEF Typed, EpsoTypeOK
  <1>7. CASE LoseTail \/ ClearUp \/ UNCHANGED vars
    <2>1. /\ UNCHANGED <<pc, op, todo, buf, line, owed, waiting, shown, dead, handed>>
          /\ half' \in {half, NoAnswer} /\ weather' \in {weather, "good"}
      BY <1>7 DEF LoseTail, ClearUp, vars, driver, reader, outside
    <2>2. Readable' = Readable
      BY <2>1 DEF Readable
    <2>3. QED
      BY <1>1, <2>1, <2>2 DEF Typed, EpsoTypeOK
  <1>8. CASE Hangup
    <2>1. /\ UNCHANGED <<pc, op, todo, buf, owed, half, waiting, shown, weather, handed>>
          /\ dead' = TRUE /\ line' = <<>>
      BY <1>8 DEF Hangup, driver, reader
    <2>2. line' \in Seq(Fragments) /\ \A k \in 1 .. Len(line') : line'[k].of \in Answer
      BY <2>1
    <2>3. Readable'
      BY <2>1 DEF Readable
    <2>4. QED
      BY <1>1, <2>1, <2>2, <2>3 DEF Typed, EpsoTypeOK
  <1>9. QED
    BY <1>2, <1>3, <1>4, <1>5, <1>6, <1>7, <1>8 DEF Next, Driver

(* The call, the buffer, the tty and the reader keep their types: no read  *)
(* goes past the buffer, and only a poll gets past the loop that reads.    *)
THEOREM EpsoTypeCorrect == Spec => []EpsoTypeOK
  <1>1. Typed => EpsoTypeOK
    BY DEF Typed
  <1>2. QED
    BY <1>1, InitTyped, NextTyped, PTL DEF Spec-----------------------------------------------------------------------------
(* Order *)

(* An input on its way from the reader to the driver: it is what was shown *)
(* there, later than what was handed over, earlier than what still waits.  *)
Fits(input, inputs, last, kept) ==
  /\ input.id \in 1 .. Len(inputs) /\ input.what = inputs[input.id]
  /\ input.id > last
  /\ \A k \in 1 .. Len(kept) : kept[k] > input.id

(* Only the head of an answer counts: no row of whole answers starts with  *)
(* another fragment.                                                       *)
Carries(f) == f.part = "head" /\ f.of # Nothing

Place(f) == f.of.id

InOrder(path, inputs, last, kept) ==
  /\ \A k \in 1 .. Len(path) :
       Carries(path[k]) => Fits(path[k].of, inputs, last, kept)
  /\ \A j, k \in 1 .. Len(path) :
       j < k /\ Carries(path[j]) /\ Carries(path[k]) => Place(path[j]) < Place(path[k])

(* The way from the reader to the driver. *)
Path == InARow(buf, line)

(* Requests and answers have no numbers.  The inputs leave the reader, and *)
(* stand in the tty and in the buffer, in the order of the users.          *)
Ordered ==
  /\ IC!Last <= Len(shown)
  /\ \A j, k \in 1 .. Len(waiting) : j < k => waiting[j] < waiting[k]
  /\ \A k \in 1 .. Len(waiting) : waiting[k] > IC!Last
  /\ InOrder(Path, shown, IC!Last, waiting)

(* Fragments that are dropped at either end, or torn, leave the others in  *)
(* order; so does an input that is handed over, m, if it was the first.    *)
LEMMA Shorter ==
  ASSUME NEW p, NEW q, NEW d \in Nat, NEW inputs, NEW last, NEW m, NEW kept,
         InOrder(p, inputs, last, kept), Len(q) \in Nat, Len(p) \in Nat,
         \A k \in 1 .. Len(q) : k + d \in 1 .. Len(p) /\ (Carries(q[k]) => q[k] = p[k + d]),
         \A k \in 1 .. Len(q) : Carries(q[k]) => Place(q[k]) > m
  PROVE  InOrder(q, inputs, m, kept)
  <1>1. ASSUME NEW k \in 1 .. Len(q), Carries(q[k])
        PROVE  Fits(q[k].of, inputs, m, kept)
    <2>1. k + d \in 1 .. Len(p) /\ q[k] = p[k + d]
      BY <1>1
    <2>2. Fits(q[k].of, inputs, last, kept)
      BY <1>1, <2>1, Zenon DEF InOrder
    <2>3. q[k].of.id > m
      BY <1>1 DEF Place
    <2>4. QED
      BY <2>2, <2>3, Zenon DEF Fits
  <1>2. ASSUME NEW j \in 1 .. Len(q), NEW k \in 1 .. Len(q), j < k,
               Carries(q[j]), Carries(q[k])
        PROVE  Place(q[j]) < Place(q[k])
    <2>1. /\ j + d \in 1 .. Len(p) /\ q[j] = p[j + d]
          /\ k + d \in 1 .. Len(p) /\ q[k] = p[k + d]
      BY <1>2
    <2>2. j + d < k + d
      BY <1>2
    <2>3. QED
      BY <1>2, <2>1, <2>2, Zenon DEF InOrder
  <1>3. QED
    BY <1>1, <1>2, Zenon DEF InOrder

(* A fragment joins the others. *)
LEMMA Longer ==
  ASSUME NEW p \in Seq(Fragments), NEW f \in Fragments, NEW q, q = Append(p, f),
         NEW inputs, NEW last, NEW kept,
         InOrder(p, inputs, last, kept),
         Carries(f) => /\ Fits(f.of, inputs, last, kept)
                       /\ \A k \in 1 .. Len(p) : Carries(p[k]) => Place(p[k]) < Place(f)
  PROVE  InOrder(q, inputs, last, kept)
  <1> DEFINE n == Len(p)
  <1>1. /\ n \in Nat /\ Len(q) = n + 1 /\ q[n + 1] = f
        /\ \A k \in 1 .. n : q[k] = p[k]
        /\ \A k \in 1 .. Len(q) : k \in 1 .. n \/ k = n + 1
    BY Appended
  <1>2. /\ \A k \in 1 .. n : Carries(p[k]) => Fits(p[k].of, inputs, last, kept)
        /\ \A j, k \in 1 .. n :
             j < k /\ Carries(p[j]) /\ Carries(p[k]) => Place(p[j]) < Place(p[k])
        /\ Carries(f) => \A k \in 1 .. n : Carries(p[k]) => Place(p[k]) < Place(f)
    BY Zenon DEF InOrder
  <1> HIDE DEF n
  <1>3. \A k \in 1 .. Len(q) : Carries(q[k]) => Fits(q[k].of, inputs, last, kept)
    BY <1>1, <1>2, Zenon
  <1>4. ASSUME NEW j \in 1 .. Len(q), NEW k \in 1 .. Len(q), j < k,
               Carries(q[j]), Carries(q[k])
        PROVE  Place(q[j]) < Place(q[k])
    <2>1. j \in 1 .. n
      BY <1>1, <1>4
    <2>2. CASE k \in 1 .. n
      BY <1>1, <1>2, <1>4, <2>1, <2>2, Zenon
    <2>3. CASE k = n + 1
      BY <1>1, <1>2, <1>4, <2>1, <2>3, Zenon
    <2>4. QED
      BY <1>1, <2>2, <2>3, Zenon
  <1>5. QED
    BY <1>3, <1>4, Zenon DEF InOrder

(* The place of the last input that was handed over.                       *)
LEMMA LastType ==
  ASSUME Typed
  PROVE  IC!Last \in Nat
  <1>1. CASE handed = <<>>
    BY <1>1 DEF IC!Last
  <1>2. CASE handed # <<>>
    <2>1. handed \in Seq(Handed)
      BY DEF Typed
    <2>2. handed[Len(handed)] \in Handed
      BY <1>2, <2>1
    <2>3. handed[Len(handed)].id \in Nat
      BY <2>2 DEF Handed
    <2>4. QED
      BY <1>2, <2>3 DEF IC!Last
  <1>3. QED
    BY <1>1, <1>2

(* The fragments of the way are those of the buffer and those of the tty.  *)
LEMMA PathIs ==
  ASSUME Typed
  PROVE  /\ Path \in Seq(Fragments) /\ Len(Path) = Len(buf) + Len(line)
         /\ Len(Path) \in Nat /\ Len(buf) \in Nat /\ Len(line) \in Nat
         /\ \A k \in 1 .. Len(buf) : Path[k] = buf[k]
         /\ \A k \in 1 .. Len(line) : Path[k + Len(buf)] = line[k]
  <1>1. buf \in Seq(Fragments) /\ line \in Seq(Fragments)
    BY DEF Typed
  <1>2. QED
    <2>1. Len(buf) \in Nat /\ Len(line) \in Nat
      BY <1>1
    <2>2. /\ Path \in Seq(Fragments) /\ Len(Path) = Len(buf) + Len(line)
          /\ \A k \in 1 .. Len(buf) : Path[k] = buf[k]
          /\ \A k \in 1 .. Len(line) : Path[k + Len(buf)] = line[k]
      BY <1>1 DEF Path, InARow
    <2>3. QED
      BY <2>1, <2>2

(* An input under way is later than what was handed over.                  *)
LEMMA Later ==
  ASSUME NEW p, NEW inputs, NEW last, NEW kept, InOrder(p, inputs, last, kept)
  PROVE  \A k \in 1 .. Len(p) : Carries(p[k]) => Place(p[k]) > last
  BY Zenon DEF InOrder, Fits, Place

(* A step that takes nothing from the reader and adds nothing to the tty.  *)
LEMMA SameOrder ==
  ASSUME Ordered, UNCHANGED <<waiting, shown, handed>>, Path' = Path
  PROVE  Ordered'
  <1>1. IC!Last' = IC!Last
    BY DEF IC!Last
  <1>2. QED
    BY <1>1 DEF Ordered

(* A step that only drops or tears fragments.                              *)
LEMMA LessOrder ==
  ASSUME Ordered, UNCHANGED <<waiting, shown, handed>>, NEW d \in Nat,
         Len(Path') \in Nat, Len(Path) \in Nat,
         \A k \in 1 .. Len(Path') :
           k + d \in 1 .. Len(Path) /\ (Carries(Path'[k]) => Path'[k] = Path[k + d])
  PROVE  Ordered'
  <1>1. IC!Last' = IC!Last
    BY DEF IC!Last
  <1>2. InOrder(Path, shown, IC!Last, waiting)
    BY DEF Ordered
  <1>3. \A k \in 1 .. Len(Path') : Carries(Path'[k]) => Place(Path'[k]) > IC!Last
    BY <1>2, Later, Zenon
  <1>4. InOrder(Path', shown, IC!Last, waiting)
    BY <1>2, <1>3, Shorter
  <1>5. QED
    BY <1>1, <1>4 DEF Ordered(* The same way, among inputs shown and kept that are others.              *)
LEMMA Refit ==
  ASSUME NEW p, NEW inputs, NEW last, NEW kept, NEW inputs2, NEW kept2,
         InOrder(p, inputs, last, kept),
         \A k \in 1 .. Len(p) : Carries(p[k]) => Fits(p[k].of, inputs2, last, kept2)
  PROVE  InOrder(p, inputs2, last, kept2)
  BY Zenon DEF InOrder

(* The call returns, and its buffer is gone.                               *)
LEMMA ReturnPath ==
  ASSUME Typed, buf' = <<>>, line' \in {line, <<>>}
  PROVE  /\ Len(Path') \in Nat /\ Len(buf) \in Nat /\ Len(Path) \in Nat
         /\ \A k \in 1 .. Len(Path') :
              k + Len(buf) \in 1 .. Len(Path) /\ Path'[k] = Path[k + Len(buf)]
  <1>1. /\ Len(Path) = Len(buf) + Len(line)
        /\ Len(Path) \in Nat /\ Len(buf) \in Nat /\ Len(line) \in Nat
        /\ \A k \in 1 .. Len(line) : Path[k + Len(buf)] = line[k]
    BY PathIs
  <1>2. Path' = line'
    <2>1. line' \in Seq(Fragments)
      <3>1. line \in Seq(Fragments) /\ <<>> \in Seq(Fragments)
        BY DEF Typed
      <3>2. QED
        BY <3>1
    <2>2. QED
      BY <2>1, ConcatEmptySeq DEF Path, InARow
  <1>3. CASE line' = line
    BY <1>1, <1>2, <1>3
  <1>4. CASE line' = <<>>
    BY <1>1, <1>2, <1>4
  <1>5. QED
    BY <1>3, <1>4

LEMMA ReturnOrder ==
  ASSUME Typed, Ordered, UNCHANGED <<waiting, shown, handed>>,
         buf' = <<>>, line' \in {line, <<>>}
  PROVE  Ordered'
  BY ReturnPath, LessOrder

(* What the driver keeps of the way: all, or less. *)
LEMMA DriverOrder ==
  ASSUME Typed, Typed', Ordered,
         Command \/ Poll \/ Read \/ ReadFails \/ NoReply \/ Silence \/ Hangup
  PROVE  Ordered' /\ UNCHANGED <<shown, handed>>
  <1>1. UNCHANGED <<waiting, shown, handed>>
    BY DEF Command, Poll, Request, Read, ReadFails, NoReply, Silence, Hangup, reader
  <1>2. /\ Len(Path) = Len(buf) + Len(line)
        /\ Len(Path) \in Nat /\ Len(buf) \in Nat /\ Len(line) \in Nat
        /\ \A k \in 1 .. Len(buf) : Path[k] = buf[k]
        /\ \A k \in 1 .. Len(line) : Path[k + Len(buf)] = line[k]
    BY PathIs
  <1>3. /\ buf' \in Seq(Fragments) /\ line' \in Seq(Fragments)
        /\ Len(buf') \in Nat /\ Len(line') \in Nat
    BY DEF Typed
  <1>4. /\ Len(Path') = Len(buf') + Len(line') /\ Len(Path') \in Nat
        /\ \A k \in 1 .. Len(buf') : Path'[k] = buf'[k]
        /\ \A k \in 1 .. Len(line') : Path'[k + Len(buf')] = line'[k]
    BY <1>3 DEF Path, InARow
  <1>5. CASE Command \/ Poll \/ Silence
    <2>1. UNCHANGED <<buf, line>>
      BY <1>5 DEF Command, Poll, Request, Silence
    <2>2. Path' = Path
      BY <2>1 DEF Path
    <2>3. QED
      BY <1>1, <2>2, SameOrder
  <1>6. CASE Read
    <2>1. Path' = Path
      BY <1>6, ReadMoves DEF Path
    <2>2. QED
      BY <1>1, <2>1, SameOrder
  <1>7. CASE (ReadFails /\ buf # <<>>) \/ Hangup
    <2>1. /\ line' = <<>> /\ Len(buf') <= Len(buf)
          /\ \A k \in 1 .. Len(buf') : buf'[k] = buf[k] \/ buf'[k] = Torn
      <3>1. CASE ReadFails /\ buf # <<>>
        BY <3>1, ReadFailsTakesBack DEF ReadFails
      <3>2. CASE Hangup
        BY <1>2, <3>2 DEF Hangup, driver
      <3>3. QED
        BY <1>7, <3>1, <3>2
    <2>2. ~Carries(Torn)
      BY DEF Carries, Torn
    <2>3. Len(Path') = Len(buf')
      BY <1>3, <1>4, <2>1
    <2>4. \A k \in 1 .. Len(Path') :
            /\ k \in 1 .. Len(buf') /\ k \in 1 .. Len(buf)
            /\ k + 0 \in 1 .. Len(Path) /\ k + 0 = k
      BY <1>2, <1>3, <2>1, <2>3
    <2>5. \A k \in 1 .. Len(Path') : Carries(Path'[k]) => Path'[k] = Path[k + 0]
      BY <1>2, <1>4, <2>1, <2>2, <2>4, Zenon
    <2>6. QED
      BY <1>1, <1>2, <1>4, <2>4, <2>5, LessOrder
  <1>8. CASE (ReadFails /\ buf = <<>>) \/ NoReply
    BY <1>1, <1>8, ReturnOrder DEF ReadFails, NoReply, Return
  <1>9. QED
    BY <1>1, <1>5, <1>6, <1>7, <1>8

(* An input the reader sends is later than all under way and earlier than  *)
(* all that still wait.                                                    *)
LEMMA ReplyFits ==
  ASSUME Typed, Ordered, owed # <<>>, UNCHANGED <<shown, handed>>,
         waiting' = Tail(waiting), Reply # Nothing
  PROVE  /\ Fits(Reply, shown', IC!Last, waiting')
         /\ \A k \in 1 .. Len(Path) : Carries(Path[k]) => Place(Path[k]) < Reply.id
  <1>1. /\ waiting # <<>> /\ 1 \in 1 .. Len(waiting)
        /\ Reply.id = waiting[1] /\ Reply.what = shown[waiting[1]]
    BY ReplyIs
  <1>2. waiting[1] \in 1 .. Len(shown) /\ waiting[1] > IC!Last
    BY <1>1 DEF Typed, Ordered
  <1>3. \A k \in 1 .. Len(waiting') : waiting'[k] > waiting[1]
    <2>1. \A k \in 1 .. Len(waiting') :
            k + 1 \in 1 .. Len(waiting) /\ waiting'[k] = waiting[k + 1]
      BY <1>1, TailTyped
    <2>2. \A k \in 1 .. Len(waiting') : 1 < k + 1
      OBVIOUS
    <2>3. QED
      BY <1>1, <2>1, <2>2 DEF Ordered
  <1>4. Fits(Reply, shown', IC!Last, waiting')
    BY <1>1, <1>2, <1>3 DEF Fits
  <1>5. \A k \in 1 .. Len(Path) : Carries(Path[k]) => Place(Path[k]) < Reply.id
    <2> SUFFICES ASSUME NEW k \in 1 .. Len(Path), Carries(Path[k])
                 PROVE  Place(Path[k]) < Reply.id
      OBVIOUS
    <2>1. Fits(Path[k].of, shown, IC!Last, waiting)
      BY DEF Ordered, InOrder
    <2>2. waiting[1] > Path[k].of.id
      BY <1>1, <2>1 DEF Fits
    <2>3. waiting[1] \in Nat /\ Path[k].of.id \in Nat
      BY <1>2, <2>1 DEF Fits
    <2>4. QED
      BY <1>1, <2>2, <2>3 DEF Place
  <1>6. QED
    BY <1>4, <1>5

(* The reader forgets the oldest input: what waits is still in order, and  *)
(* what is under way still fits.                                           *)
LEMMA ForgetOrder ==
  ASSUME Typed, Ordered, UNCHANGED <<shown, handed>>, owed # <<>>,
         waiting' = IF Reply = Nothing THEN waiting ELSE Tail(waiting)
  PROVE  /\ \A j, k \in 1 .. Len(waiting') : j < k => waiting'[j] < waiting'[k]
         /\ \A k \in 1 .. Len(waiting') : waiting'[k] > IC!Last
         /\ InOrder(Path, shown', IC!Last, waiting')
  <1>1. InOrder(Path, shown, IC!Last, waiting)
    BY DEF Ordered
  <1>2. CASE waiting' = waiting
    BY <1>1, <1>2 DEF Ordered
  <1>3. CASE waiting' = Tail(waiting) /\ Reply # Nothing
    <2>1. waiting # <<>>
      BY <1>3, ReplyIs
    <2>2. \A k \in 1 .. Len(waiting') :
            k + 1 \in 1 .. Len(waiting) /\ waiting'[k] = waiting[k + 1]
      BY <1>3, <2>1, TailTyped
    <2>3. \A j, k \in 1 .. Len(waiting') : j < k => j + 1 < k + 1
      OBVIOUS
    <2>4. /\ \A j, k \in 1 .. Len(waiting') : j < k => waiting'[j] < waiting'[k]
          /\ \A k \in 1 .. Len(waiting') : waiting'[k] > IC!Last
      BY <2>2, <2>3 DEF Ordered
    <2>5. \A k \in 1 .. Len(Path) :
            Carries(Path[k]) => Fits(Path[k].of, shown', IC!Last, waiting')
      <3> SUFFICES ASSUME NEW k \in 1 .. Len(Path), Carries(Path[k])
                   PROVE  Fits(Path[k].of, shown', IC!Last, waiting')
        OBVIOUS
      <3>1. Fits(Path[k].of, shown, IC!Last, waiting)
        BY <1>1 DEF InOrder
      <3>2. QED
        BY <2>2, <3>1 DEF Fits
    <2>6. QED
      BY <1>1, <2>4, <2>5, Refit
  <1>4. QED
    BY <1>2, <1>3(* A fragment comes in. *)
LEMMA ReaderOrder ==
  ASSUME Typed, Ordered, Reader
  PROVE  Ordered' /\ UNCHANGED <<shown, handed>>
  <1>1. UNCHANGED <<buf, shown, handed>>
    BY DEF Reader, AnswerHead, AnswerTail, driver
  <1>2. IC!Last' = IC!Last
    BY <1>1 DEF IC!Last
  <1>3. Path \in Seq(Fragments)
    BY PathIs
  <1>4. ASSUME NEW f \in Fragments, line' = Append(line, f)
        PROVE  Path' = Append(Path, f)
    <2>1. buf \in Seq(Fragments) /\ line \in Seq(Fragments)
      BY DEF Typed
    <2>2. Path' = InARow(buf, Append(line, f))
      BY <1>1, <1>4 DEF Path
    <2>3. QED
      BY <2>1, <2>2, AppendedInARow DEF Path
  <1>5. CASE AnswerHead
    <2>1. /\ owed # <<>> /\ line' = Append(line, Head1(Reply))
          /\ waiting' = IF Reply = Nothing THEN waiting ELSE Tail(waiting)
      BY <1>5 DEF AnswerHead
    <2>2. /\ Head1(Reply) \in Fragments /\ Head1(Reply).of = Reply
          /\ Place(Head1(Reply)) = Reply.id
          /\ Carries(Head1(Reply)) => Reply # Nothing
      BY <2>1, ReplyIs DEF Head1, Fragments, Carries, Place
    <2>3. /\ \A j, k \in 1 .. Len(waiting') : j < k => waiting'[j] < waiting'[k]
          /\ \A k \in 1 .. Len(waiting') : waiting'[k] > IC!Last
          /\ InOrder(Path, shown', IC!Last, waiting')
      BY <1>1, <2>1, ForgetOrder
    <2>4. Reply # Nothing =>
            /\ Fits(Reply, shown', IC!Last, waiting')
            /\ \A k \in 1 .. Len(Path) : Carries(Path[k]) => Place(Path[k]) < Reply.id
      BY <1>1, <2>1, ReplyFits
    <2>5. PICK f \in Fragments : f = Head1(Reply)
      BY <2>2
    <2>6. /\ Path' = Append(Path, f)
          /\ Carries(f) =>
               /\ Fits(f.of, shown', IC!Last, waiting')
               /\ \A k \in 1 .. Len(Path) : Carries(Path[k]) => Place(Path[k]) < Place(f)
      BY <1>4, <2>1, <2>2, <2>4, <2>5
    <2>7. InOrder(Path', shown', IC!Last, waiting')
      BY <1>3, <2>3, <2>6, Longer
    <2>8. QED
      BY <1>1, <1>2, <2>3, <2>7 DEF Ordered
  <1>6. CASE AnswerTail
    <2>1. half # NoAnswer /\ line' = Append(line, Tail1(half)) /\ waiting' = waiting
      BY <1>6 DEF AnswerTail
    <2>2. Tail1(half) \in Fragments /\ ~Carries(Tail1(half))
      BY <2>1 DEF Typed, EpsoTypeOK, Tail1, Fragments, Carries
    <2>3. PICK f \in Fragments : f = Tail1(half)
      BY <2>2
    <2>4. Path' = Append(Path, f) /\ ~Carries(f)
      BY <1>4, <2>1, <2>2, <2>3
    <2>5. InOrder(Path, shown, IC!Last, waiting)
      BY DEF Ordered
    <2>6. InOrder(Path', shown, IC!Last, waiting)
      BY <1>3, <2>4, <2>5, Longer
    <2>7. QED
      BY <1>1, <1>2, <2>1, <2>6 DEF Ordered
  <1>7. QED
    BY <1>1, <1>5, <1>6 DEF Reader

(* The last place after an input was handed over.                          *)
LEMMA LastAppended ==
  ASSUME handed \in Seq(Handed), NEW h \in Handed, handed' = Append(handed, h)
  PROVE  IC!Last' = h.id
  <1>1. /\ Len(handed) \in Nat /\ Len(handed') = Len(handed) + 1
        /\ handed'[Len(handed) + 1] = h
    BY Appended, Zenon
  <1>2. handed' # <<>>
    BY <1>1
  <1>3. QED
    BY <1>1, <1>2 DEF IC!Last

(* A row of whole answers that starts with an input is a step of the       *)
(* channel; any other is none.                                             *)
LEMMA HandOverImplements ==
  ASSUME Typed, Ordered, HandOver
  PROVE  Ordered' /\ [IC!Next]_(IC!vars)
  <1>1. /\ buf' = <<>> /\ line' = line /\ UNCHANGED <<waiting, shown>>
        /\ handed' = IF Parsed.what = "none" THEN handed
                     ELSE Append(handed, [id |-> Parsed.id, as |-> TakenFor(Parsed.what)])
    BY DEF HandOver, Return, reader
  <1>2. CASE Parsed.what = "none"
    BY <1>1, <1>2, ReturnOrder DEF IC!vars
  <1>3. CASE Parsed.what # "none"
    <2>1. /\ Parsed \in Answer /\ 1 \in 1 .. Len(buf)
          /\ buf[1].part = "head" /\ buf[1].of = Parsed /\ Parsed # Nothing
      BY <1>3, ParsedIs
    <2>2. 1 \in 1 .. Len(Path) /\ Path[1] = buf[1]
      BY <2>1, PathIs
    <2>3. Carries(Path[1]) /\ Path[1].of = Parsed /\ Place(Path[1]) = Parsed.id
      BY <2>1, <2>2 DEF Carries, Place
    <2>4. InOrder(Path, shown, IC!Last, waiting)
      BY DEF Ordered
    <2>5. Fits(Parsed, shown, IC!Last, waiting)
      BY <2>2, <2>3, <2>4 DEF InOrder
    <2>6. /\ Parsed.id \in 1 .. Len(shown) /\ Parsed.what = shown[Parsed.id]
          /\ Parsed.id > IC!Last
          /\ \A k \in 1 .. Len(waiting) : waiting[k] > Parsed.id
      BY <2>5 DEF Fits
    <2>7. handed' = Append(handed, [id |-> Parsed.id, as |-> TakenFor(Parsed.what)])
      BY <1>1, <1>3
    <2>8. IC!Last' = Parsed.id
      <3>1. Parsed.id \in Nat /\ Parsed.what \in {"card", "pin", "both"}
        BY <1>3, <2>1, EpsoAssumption DEF Answer
      <3>2. [id |-> Parsed.id, as |-> TakenFor(Parsed.what)] \in Handed
        BY <3>1 DEF Handed, TakenFor
      <3>3. handed \in Seq(Handed)
        BY DEF Typed
      <3>4. QED
        BY <2>7, <3>2, <3>3, LastAppended
    <2>9. InOrder(Path', shown, Parsed.id, waiting)
      <3>1. /\ Len(Path') \in Nat /\ Len(buf) \in Nat /\ Len(Path) \in Nat
            /\ \A k \in 1 .. Len(Path') :
                 k + Len(buf) \in 1 .. Len(Path) /\ Path'[k] = Path[k + Len(buf)]
        BY <1>1, ReturnPath
      <3>2. \A k \in 1 .. Len(Path') : 1 < k + Len(buf)
        BY <2>1, <3>1
      <3>3. \A k \in 1 .. Len(Path') : Carries(Path'[k]) => Parsed.id < Place(Path'[k])
        BY <2>2, <2>3, <2>4, <3>1, <3>2, Zenon DEF InOrder
      <3>4. \A k \in 1 .. Len(Path') : Carries(Path'[k]) => Place(Path'[k]) > Parsed.id
        BY <3>3
      <3>5. QED
        BY <2>4, <3>1, <3>4, Shorter
    <2>10. Ordered'
      <3>1. IC!Last' <= Len(shown')
        BY <1>1, <2>6, <2>8
      <3>2. \A k \in 1 .. Len(waiting') : waiting'[k] > IC!Last'
        BY <1>1, <2>6, <2>8
      <3>3. \A j, k \in 1 .. Len(waiting') : j < k => waiting'[j] < waiting'[k]
        BY <1>1 DEF Ordered
      <3>4. InOrder(Path', shown', IC!Last', waiting')
        BY <1>1, <2>8, <2>9
      <3>5. QED
        BY <3>1, <3>2, <3>3, <3>4 DEF Ordered
    <2>11. IC!HandOver(Parsed.id)
      <3>1. IC!Taken(shown[Parsed.id]) = TakenFor(Parsed.what)
        BY <2>6 DEF IC!Taken, TakenFor
      <3>2. QED
        BY <1>1, <2>6, <2>7, <3>1 DEF IC!HandOver
    <2>12. QED
      BY <2>6, <2>10, <2>11 DEF IC!Next
  <1>4. QED
    BY <1>2, <1>3

(* A user shows an input: the latest of all.                               *)
LEMMA ShowImplements ==
  ASSUME Typed, Ordered, Show
  PROVE  Ordered' /\ [IC!Next]_(IC!vars)
  <1> DEFINE latest == Len(shown) + 1
  <1>1. PICK what \in Kinds : shown' = Append(shown, what)
    BY DEF Show
  <1>2. /\ shown \in Seq(Kinds) /\ latest \in Nat /\ Len(shown') = latest
        /\ \A k \in 1 .. Len(shown) : k \in 1 .. Len(shown') /\ shown'[k] = shown[k]
    BY <1>1 DEF Typed
  <1>3. waiting' = Append(waiting, latest) /\ UNCHANGED <<buf, line, handed>>
    BY <1>2 DEF Show, driver
  <1>4. IC!Last' = IC!Last /\ Path' = Path
    BY <1>3 DEF IC!Last, Path
  <1>5. /\ Len(waiting) \in Nat /\ Len(waiting') = Len(waiting) + 1
        /\ waiting'[Len(waiting) + 1] = latest
        /\ \A k \in 1 .. Len(waiting) : waiting'[k] = waiting[k]
        /\ \A k \in 1 .. Len(waiting') : k \in 1 .. Len(waiting) \/ k = Len(waiting) + 1
    <2>1. waiting \in Seq(Nat) /\ latest \in Nat
      BY <1>2 DEF Typed
    <2> HIDE DEF latest
    <2>2. QED
      BY <1>3, <2>1, Appended
  <1>6. \A k \in 1 .. Len(waiting) : waiting[k] \in Nat /\ waiting[k] < latest
    BY <1>2 DEF Typed
  <1>7. IC!Last \in Nat /\ IC!Last < latest
    <2>1. IC!Last <= Len(shown)
      BY DEF Ordered
    <2>2. IC!Last \in Nat /\ Len(shown) \in Nat
      BY <1>2, LastType
    <2>3. QED
      BY <2>1, <2>2
  <1> HIDE DEF latest
  <1>8. \A k \in 1 .. Len(waiting') : waiting'[k] > IC!Last
    BY <1>2, <1>5, <1>7 DEF Ordered
  <1>9. \A j, k \in 1 .. Len(waiting') : j < k => waiting'[j] < waiting'[k]
    <2>1. \A j, k \in 1 .. Len(waiting) : j < k => waiting[j] < waiting[k]
      BY DEF Ordered
    <2>2. QED
      BY <1>5, <1>6, <2>1
  <1>10. InOrder(Path, shown', IC!Last, waiting')
    <2>1. InOrder(Path, shown, IC!Last, waiting)
      BY DEF Ordered
    <2>2. ASSUME NEW k \in 1 .. Len(Path), Carries(Path[k])
          PROVE  Fits(Path[k].of, shown', IC!Last, waiting')
      <3>1. Fits(Path[k].of, shown, IC!Last, waiting)
        BY <2>1, <2>2 DEF InOrder
      <3>2. Path[k].of.id \in 1 .. Len(shown) /\ Path[k].of.id < latest
        BY <1>2, <3>1 DEF Fits, latest
      <3>3. QED
        BY <1>2, <1>5, <3>1, <3>2 DEF Fits
    <2>3. QED
      BY <2>1, <2>2, Refit
  <1>11. Ordered'
    <2>1. IC!Last' <= Len(shown')
      BY <1>2, <1>4, <1>7 DEF latest
    <2>2. \A k \in 1 .. Len(waiting') : waiting'[k] > IC!Last'
      BY <1>4, <1>8
    <2>3. QED
      BY <1>4, <1>9, <1>10, <2>1, <2>2 DEF Ordered
  <1>12. IC!Show(what)
    BY <1>1, <1>3 DEF IC!Show
  <1>13. QED
    BY <1>11, <1>12, EpsoAssumption DEF IC!Next

LEMMA InitOrder == Init => Ordered /\ IC!Init
  BY DEF Init, Ordered, InOrder, Path, InARow, IC!Last, IC!Init

(* Every step keeps the order, and is a step of the channel or none.       *)
LEMMA NextOrder ==
  ASSUME Typed, Typed', Ordered, [Next]_vars
  PROVE  Ordered' /\ [IC!Next]_(IC!vars)
  <1>1. CASE Command \/ Poll \/ Read \/ ReadFails \/ NoReply \/ Silence \/ Hangup
    BY <1>1, DriverOrder DEF IC!vars
  <1>2. CASE HandOver
    BY <1>2, HandOverImplements
  <1>3. CASE Reader
    BY <1>3, ReaderOrder DEF IC!vars
  <1>4. CASE Show
    BY <1>4, ShowImplements
  <1>5. CASE Ignore \/ LoseTail \/ ClearUp \/ UNCHANGED vars
    <2>1. UNCHANGED <<buf, line, waiting, shown, handed>>
      BY <1>5 DEF Ignore, LoseTail, ClearUp, vars, driver, reader
    <2>2. Path' = Path
      BY <2>1 DEF Path
    <2>3. QED
      BY <2>1, <2>2, SameOrder DEF IC!vars
  <1>6. QED
    BY <1>1, <1>2, <1>3, <1>4, <1>5 DEF Next, Driver

(* Whatever answers come late, in pieces, torn or after one another, and   *)
(* however many fit the buffer, get_reader_data hands over the inputs      *)
(* users showed, each at most once and in their order.                     *)
THEOREM EpsoIsChannel == Spec => EpsoImplementsChannel
  <1>1. Init => Typed /\ Ordered /\ IC!Init
    BY InitTyped, InitOrder
  <1>2. Typed /\ Ordered /\ [Next]_vars
          => Typed' /\ Ordered' /\ [IC!Next]_(IC!vars)
    BY NextTyped, NextOrder
  <1>3. QED
    BY <1>1, <1>2, PTL DEF Spec, EpsoImplementsChannel, IC!Spec-----------------------------------------------------------------------------
(* What the channel is for *)

Shown == {"card", "pin", "both"}

ChannelInv == shown \in Seq(Shown) /\ handed \in Seq(Handed) /\ IC!InOrder

(* All that was handed over is no later than the last.                     *)
LEMMA LastIsLatest ==
  ASSUME ChannelInv
  PROVE  \A k \in 1 .. Len(handed) : handed[k].id \in Nat /\ handed[k].id <= IC!Last
  <1> SUFFICES ASSUME NEW k \in 1 .. Len(handed)
               PROVE  handed[k].id \in Nat /\ handed[k].id <= IC!Last
    OBVIOUS
  <1>1. handed \in Seq(Handed) /\ handed # <<>>
    BY DEF ChannelInv
  <1>2. /\ Len(handed) \in Nat /\ Len(handed) \in 1 .. Len(handed)
        /\ handed[k] \in Handed /\ handed[Len(handed)] \in Handed
    BY <1>1
  <1>3. handed[k].id \in Nat /\ handed[Len(handed)].id \in Nat
    BY <1>2 DEF Handed
  <1>4. IC!Last = handed[Len(handed)].id
    BY <1>1 DEF IC!Last
  <1>5. CASE k < Len(handed)
    <2>1. handed[k].id < handed[Len(handed)].id
      BY <1>2, <1>5 DEF ChannelInv, IC!InOrder
    <2>2. QED
      BY <1>3, <1>4, <2>1
  <1>6. CASE k = Len(handed)
    BY <1>3, <1>4, <1>6
  <1>7. QED
    BY <1>2, <1>5, <1>6

(* A user shows an input. *)
LEMMA ChannelShows ==
  ASSUME ChannelInv, NEW what \in Shown, IC!Show(what)
  PROVE  ChannelInv'
  <1>1. /\ shown' = Append(shown, what) /\ handed' = handed
        /\ shown \in Seq(Shown) /\ handed \in Seq(Handed)
    BY DEF IC!Show, ChannelInv
  <1>2. /\ shown' \in Seq(Shown) /\ Len(shown) \in Nat /\ Len(shown') = Len(shown) + 1
        /\ \A i \in 1 .. Len(shown) : shown'[i] = shown[i]
    BY <1>1, Appended
  <1>3. \A i \in 1 .. Len(shown) : i \in 1 .. Len(shown') /\ shown'[i] = shown[i]
    BY <1>2
  <1>4. QED
    BY <1>1, <1>2, <1>3 DEF ChannelInv, IC!InOrder

(* An input is handed over. *)
LEMMA ChannelHands ==
  ASSUME ChannelInv, NEW i \in 1 .. Len(shown), IC!HandOver(i)
  PROVE  ChannelInv'
  <1> DEFINE n == Len(handed)
             as == IC!Taken(shown[i])
  <1>1. PICK h : h = [id |-> i, as |-> as]
    OBVIOUS
  <1>2. /\ handed' = Append(handed, h) /\ shown' = shown /\ i > IC!Last
        /\ shown \in Seq(Shown) /\ handed \in Seq(Handed)
    BY <1>1 DEF IC!HandOver, ChannelInv
  <1>3. shown[i] \in Shown /\ i \in Nat
    BY <1>2
  <1>4. h \in Handed /\ h.id = i /\ h.as = as
    BY <1>1, <1>3 DEF Handed, IC!Taken, Shown
  <1>5. /\ handed' \in Seq(Handed) /\ n \in Nat /\ Len(handed') = n + 1
        /\ handed'[n + 1] = h
        /\ \A k \in 1 .. n : handed'[k] = handed[k]
        /\ \A k \in 1 .. Len(handed') : k \in 1 .. n \/ k = n + 1
    BY <1>2, <1>4, Appended
  <1>6. \A k \in 1 .. n : handed[k].id < i
    <2>1. \A k \in 1 .. n : handed[k].id \in Nat /\ handed[k].id <= IC!Last
      BY LastIsLatest
    <2>2. IC!Last \in Nat
      <3>1. CASE handed = <<>>
        BY <3>1 DEF IC!Last
      <3>2. CASE handed # <<>>
        <4>1. n \in 1 .. n
          BY <1>2, <3>2
        <4>2. IC!Last = handed[n].id
          BY <3>2 DEF IC!Last
        <4>3. QED
          BY <2>1, <4>1, <4>2
      <3>3. QED
        BY <3>1, <3>2
    <2>3. QED
      BY <1>2, <1>3, <2>1, <2>2
  <1> HIDE DEF n, as
  <1>7. \A k \in 1 .. n : /\ handed[k].id \in 1 .. Len(shown)
                          /\ handed[k].as = IC!Taken(shown[handed[k].id])
    BY DEF ChannelInv, IC!InOrder, n
  <1>8. \A j, k \in 1 .. n : j < k => handed[j].id < handed[k].id
    BY DEF ChannelInv, IC!InOrder, n
  <1>9. \A k \in 1 .. Len(handed') :
          /\ handed'[k].id \in 1 .. Len(shown')
          /\ handed'[k].as = IC!Taken(shown'[handed'[k].id])
    BY <1>2, <1>4, <1>5, <1>7 DEF as
  <1>10. ASSUME NEW j \in 1 .. Len(handed'), NEW k \in 1 .. Len(handed'), j < k
         PROVE  handed'[j].id < handed'[k].id
    <2>1. j \in 1 .. n
      BY <1>5, <1>10
    <2>2. CASE k \in 1 .. n
      BY <1>5, <1>8, <1>10, <2>1, <2>2
    <2>3. CASE k = n + 1
      BY <1>4, <1>5, <1>6, <2>1, <2>3
    <2>4. QED
      BY <1>5, <2>2, <2>3
  <1>11. QED
    BY <1>2, <1>5, <1>9, <1>10 DEF ChannelInv, IC!InOrder

(* The channel, and so whatever implements it, hands over what was shown,  *)
(* for what it was, in the order of the users, and nothing twice.          *)
THEOREM ChannelKeepsOrder == IC!Spec => []IC!InOrder
  <1>1. IC!Init => ChannelInv
    BY DEF IC!Init, ChannelInv, IC!InOrder
  <1>2. ChannelInv /\ [IC!Next]_(IC!vars) => ChannelInv'
    <2> SUFFICES ASSUME ChannelInv, [IC!Next]_(IC!vars)
                 PROVE  ChannelInv'
      OBVIOUS
    <2>1. CASE \E what \in Shown : IC!Show(what)
      BY <2>1, ChannelShows
    <2>2. CASE \E i \in 1 .. Len(shown) : IC!HandOver(i)
      BY <2>2, ChannelHands
    <2>3. CASE UNCHANGED IC!vars
      BY <2>3 DEF IC!vars, ChannelInv, IC!InOrder
    <2>4. QED
      BY <2>1, <2>2, <2>3 DEF IC!Next, Shown
  <1>3. ChannelInv => IC!InOrder
    BY DEF ChannelInv
  <1>4. QED
    BY <1>1, <1>2, <1>3, PTL DEF IC!Spec
=============================================================================
