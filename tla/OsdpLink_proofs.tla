-------------------------- MODULE OsdpLink_proofs --------------------------
(***************************************************************************)
(* The driver of the Idesco readers, for any number of inputs and of       *)
(* unanswered requests: its types, and, on a line that damages no packet   *)
(* behind its first byte, the channel it implements.                       *)
(***************************************************************************)
EXTENDS OsdpLink, SequenceTheorems, TLAPS

-----------------------------------------------------------------------------
(* Types *)

Handed == [id : Nat, as : Kinds \cup {"none"}]
Packets == [form : Form, says : Content]

(* OsdpTypeOK with the contents of the queues: the inputs the reader keeps *)
(* were shown.                                                             *)
Typed ==
  /\ OsdpTypeOK
  /\ shown \in Seq(Kinds)
  /\ waiting \in Seq(Nat)
  /\ \A k \in 1 .. Len(waiting) : waiting[k] \in 1 .. Len(shown)
  /\ owed \in Seq({"poll", "command"})
  /\ handed \in Seq(Handed)

(* The answer of the reader is the oldest input it keeps, or nothing.      *)
LEMMA ReplyIs ==
  ASSUME Typed, owed # <<>>
  PROVE  /\ Reply \in Content
         /\ Reply # Nothing =>
              /\ waiting # <<>> /\ 1 \in 1 .. Len(waiting)
              /\ Reply.id = waiting[1] /\ Reply.what = shown[waiting[1]]
  <1>1. CASE owed[1] = "poll" /\ waiting # <<>>
    <2>1. 1 \in 1 .. Len(waiting)
      BY <1>1 DEF Typed
    <2>2. waiting[1] \in Nat /\ waiting[1] \in 1 .. Len(shown)
      BY <2>1 DEF Typed
    <2>3. shown[waiting[1]] \in Kinds
      BY <2>2 DEF Typed
    <2>4. Reply = [id |-> waiting[1], what |-> shown[waiting[1]]]
      BY <1>1 DEF Reply
    <2>5. QED
      BY <1>1, <2>1, <2>2, <2>3, <2>4 DEF Content
  <1>2. CASE ~(owed[1] = "poll" /\ waiting # <<>>)
    BY <1>2 DEF Reply, Nothing, Content
  <1>3. QED
    BY <1>1, <1>2

(* Forgetting the oldest input keeps the types of the queue.               *)
LEMMA TailTyped ==
  ASSUME Typed, waiting # <<>>
  PROVE  /\ Tail(waiting) \in Seq(Nat)
         /\ Len(Tail(waiting)) = Len(waiting) - 1
         /\ \A k \in 1 .. Len(Tail(waiting)) :
              k + 1 \in 1 .. Len(waiting) /\ Tail(waiting)[k] = waiting[k + 1]
  <1>1. waiting \in Seq(Nat)
    BY DEF Typed
  <1>2. /\ Tail(waiting) \in Seq(Nat)
        /\ Len(Tail(waiting)) = Len(waiting) - 1
        /\ \A k \in 1 .. Len(Tail(waiting)) : Tail(waiting)[k] = waiting[k + 1]
    BY <1>1, HeadTailProperties
  <1>3. Len(waiting) \in Nat
    BY <1>1
  <1>4. QED
    BY <1>2, <1>3

(* What waits after an answer or a loss. *)
LEMMA ForgetTyped ==
  ASSUME Typed, owed # <<>>, UNCHANGED shown,
         waiting' = waiting \/ waiting' = IF Reply = Nothing THEN waiting ELSE Tail(waiting)
  PROVE  /\ waiting' \in Seq(Nat)
         /\ \A k \in 1 .. Len(waiting') : waiting'[k] \in 1 .. Len(shown')
  <1>1. CASE waiting' = waiting
    BY <1>1 DEF Typed
  <1>2. CASE waiting' = Tail(waiting) /\ Reply # Nothing
    <2>1. waiting # <<>>
      BY <1>2, ReplyIs
    <2>2. QED
      BY <1>2, <2>1, TailTyped DEF Typed
  <1>3. QED
    BY <1>1, <1>2

(* A request is answered or lost: one less is owed.                        *)
LEMMA OwedTyped ==
  ASSUME Typed, owed # <<>>, owed' = Tail(owed)
  PROVE  owed' \in Seq({"poll", "command"}) /\ Len(owed') <= MaxOwed
  <1>1. owed \in Seq({"poll", "command"}) /\ Len(owed) \in Nat /\ Len(owed) <= MaxOwed
    BY DEF Typed, OsdpTypeOK
  <1>2. Tail(owed) \in Seq({"poll", "command"}) /\ Len(Tail(owed)) = Len(owed) - 1
    BY <1>1, HeadTailProperties
  <1>3. MaxOwed \in Nat
    BY OsdpAssumption
  <1>4. QED
    BY <1>1, <1>2, <1>3

LEMMA InitTyped == Init => Typed
  BY OsdpAssumption DEF Init, Typed, OsdpTypeOK, Nothing, Content

(* Every step keeps the types. *)
LEMMA NextTyped == Typed /\ [Next]_vars => Typed'
  <1> SUFFICES ASSUME Typed, [Next]_vars PROVE Typed'
    OBVIOUS
  <1>1. OsdpTypeOK
    BY DEF Typed
  <1>2. CASE Command \/ Poll
    <2>1. PICK call \in {"poll", "command"} : Request(call)
      BY <1>2 DEF Command, Poll
    <2>2. owed' \in Seq({"poll", "command"}) /\ Len(owed') <= MaxOwed
      <3>1. owed \in Seq({"poll", "command"}) /\ Len(owed) \in Nat /\ MaxOwed \in Nat
        BY OsdpAssumption DEF Typed
      <3>2. owed' = owed \/ (owed' = Append(owed, call) /\ Len(owed) < MaxOwed)
        BY <2>1 DEF Request
      <3>3. QED
        BY <1>1, <3>1, <3>2 DEF OsdpTypeOK
    <2>3. todo' \in 0 .. 2
      BY <1>1, <1>2 DEF Command, Poll, OsdpTypeOK
    <2>4. /\ pc' = "sleep" /\ op' = call
          /\ UNCHANGED <<fd, res, line, waiting, shown, handed, weather, plugged>>
      BY <2>1 DEF Request, outside
    <2>5. QED
      BY <1>1, <2>2, <2>3, <2>4 DEF Typed, OsdpTypeOK
  <1>3. CASE CommandDone
    <2>1. /\ pc' = "next" /\ op' = "none" /\ line' = <<>>
          /\ UNCHANGED <<todo, fd, res, owed, waiting, shown, weather, plugged, handed>>
      BY <1>3 DEF CommandDone, Return, Fetched, reader, outside
    <2>2. QED
      BY <1>1, <2>1 DEF Typed, OsdpTypeOK
  <1>4. CASE PollAnswered
    <2>1. /\ pc' = "next" /\ op' = "none" /\ line' = <<>> /\ todo' \in {0, 1, 2}
          /\ UNCHANGED <<fd, owed, waiting, shown, weather, plugged>>
          /\ line # <<>> /\ res' \in process_packet(line[1])
          /\ handed' = IF res' = Nothing THEN handed
                       ELSE Append(handed, [id |-> res'.id, as |-> res'.what])
      BY <1>4 DEF PollAnswered, Received, Packet, Return, Fetched, SignalCommands,
                  reader, outside
    <2>2. line[1].says \in Content
      <3>1. line \in Seq(Packets)
        BY <1>1 DEF OsdpTypeOK, Packets
      <3>2. line[1] \in Packets
        BY <2>1, <3>1
      <3>3. QED
        BY <3>2 DEF Packets
    <2>3. res' \in Content
      <3>1. Nothing \in Content /\ res \in Content
        BY <1>1 DEF OsdpTypeOK, Nothing, Content
      <3>2. QED
        BY <2>1, <2>2, <3>1 DEF process_packet
    <2>4. handed' \in Seq(Handed)
      <3>1. [id |-> res'.id, as |-> res'.what] \in Handed
        BY <2>3 DEF Content, Handed
      <3>2. handed \in Seq(Handed)
        BY DEF Typed
      <3>3. QED
        BY <2>1, <3>1, <3>2
    <2>5. QED
      BY <1>1, <2>1, <2>3, <2>4 DEF Typed, OsdpTypeOK
  <1>5. CASE PollFailed
    <2>1. /\ pc' = "next" /\ op' = "none" /\ line' = <<>> /\ todo' \in {0, 1, 2}
          /\ fd' \in {"open", "closed"}
          /\ UNCHANGED <<res, owed, waiting, shown, weather, plugged, handed>>
      BY <1>5 DEF PollFailed, Reopened, Return, SignalCommands, reader, outside
    <2>2. QED
      BY <1>1, <2>1 DEF Typed, OsdpTypeOK
  <1>6. CASE Answer
    <2>1. /\ owed # <<>> /\ owed' = Tail(owed)
          /\ waiting' = IF Reply = Nothing THEN waiting ELSE Tail(waiting)
          /\ UNCHANGED <<pc, op, todo, fd, res, shown, weather, plugged, handed>>
          /\ \/ \E form \in Form : line' = Append(line, [form |-> form, says |-> Reply])
             \/ line' = line
      BY <1>6 DEF Answer, Arriving, Form, driver, outside
    <2>2. line' \in Seq([form : Form, says : Content])
      <3>1. Reply \in Content /\ line \in Seq(Packets)
        BY <1>1, <2>1, ReplyIs DEF OsdpTypeOK, Packets
      <3>2. \A form \in Form : [form |-> form, says |-> Reply] \in Packets
        BY <3>1 DEF Packets
      <3>3. line' = line \/ \E packet \in Packets : line' = Append(line, packet)
        BY <2>1, <3>2
      <3>4. line' \in Seq(Packets)
        BY <3>1, <3>3
      <3>5. QED
        BY <3>4 DEF Packets
    <2>3. QED
      BY <1>1, <2>1, <2>2, ForgetTyped, OwedTyped DEF Typed, OsdpTypeOK
  <1>7. CASE Show
    <2>1. /\ Len(shown) < MaxShown
          /\ \E what \in Kinds : shown' = Append(shown, what)
          /\ waiting' = Append(waiting, Len(shown'))
          /\ UNCHANGED <<pc, op, todo, fd, res, line, owed, weather, plugged, handed>>
      BY <1>7 DEF Show, driver, outside
    <2>2. shown \in Seq(Kinds) /\ Len(shown) \in Nat /\ MaxShown \in Nat
      BY OsdpAssumption DEF Typed
    <2>3. shown' \in Seq(Kinds) /\ Len(shown') = Len(shown) + 1
      BY <2>1, <2>2
    <2>4. /\ waiting' \in Seq(Nat)
          /\ \A k \in 1 .. Len(waiting') : waiting'[k] \in 1 .. Len(shown')
      <3>1. waiting \in Seq(Nat) /\ Len(waiting) \in Nat
        BY DEF Typed
      <3>2. /\ waiting' \in Seq(Nat) /\ Len(waiting') = Len(waiting) + 1
            /\ waiting'[Len(waiting) + 1] = Len(shown')
            /\ \A k \in 1 .. Len(waiting) : waiting'[k] = waiting[k]
        BY <2>1, <2>2, <2>3, <3>1
      <3>3. \A k \in 1 .. Len(waiting) : waiting[k] \in 1 .. Len(shown)
        BY DEF Typed
      <3>4. \A k \in 1 .. Len(waiting') : k \in 1 .. Len(waiting) \/ k = Len(waiting) + 1
        BY <3>1, <3>2
      <3>5. QED
        BY <2>2, <2>3, <3>2, <3>3, <3>4
    <2>5. QED
      BY <1>1, <2>1, <2>2, <2>3, <2>4 DEF Typed, OsdpTypeOK
  <1>8. CASE Lose
    <2>1. /\ owed # <<>> /\ owed' = Tail(owed)
          /\ waiting' = waiting
               \/ waiting' = IF Reply = Nothing THEN waiting ELSE Tail(waiting)
          /\ UNCHANGED <<pc, op, todo, fd, res, line, shown, weather, plugged, handed>>
      BY <1>8 DEF Lose, driver, outside
    <2>2. QED
      BY <1>1, <2>1, ForgetTyped, OwedTyped DEF Typed, OsdpTypeOK
  <1>9. CASE ClearUp \/ Unplug \/ Plug
    <2>1. /\ UNCHANGED <<pc, op, todo, fd, res, owed, waiting, shown, handed>>
          /\ line' = line \/ line' = <<>>
          /\ weather' \in {weather, "good"} /\ plugged' \in BOOLEAN
      BY <1>1, <1>9 DEF ClearUp, Unplug, Plug, driver, reader, OsdpTypeOK
    <2>2. line' \in Seq([form : Form, says : Content])
      <3>1. line \in Seq(Packets)
        BY <1>1 DEF OsdpTypeOK, Packets
      <3>2. line' = line \/ line' = <<>>
        BY <2>1
      <3>3. <<>> \in Seq(Packets)
        OBVIOUS
      <3>4. line' \in Seq(Packets)
        BY <3>1, <3>2, <3>3
      <3>5. QED
        BY <3>4 DEF Packets
    <2>3. QED
      BY <1>1, <2>1, <2>2 DEF Typed, OsdpTypeOK
  <1>10. CASE UNCHANGED vars
    BY <1>10 DEF vars, Typed, OsdpTypeOK
  <1>11. QED
    BY <1>2, <1>3, <1>4, <1>5, <1>6, <1>7, <1>8, <1>9, <1>10 DEF Next, Driver

(* The driver, the tty and the reader keep their types, whatever the line  *)
(* does, damaged packets included.                                         *)
THEOREM OsdpTypeCorrect == Spec => []OsdpTypeOK
  <1>1. Typed => OsdpTypeOK
    BY DEF Typed
  <1>2. QED
    BY <1>1, InitTyped, NextTyped, PTL DEF Spec
-----------------------------------------------------------------------------
(* Order *)

(* An input on its way from the reader to the driver: it is what was shown *)
(* there, later than what was handed over, earlier than what still waits.  *)
Fits(input, inputs, last, kept) ==
  /\ input.id \in 1 .. Len(inputs) /\ input.what = inputs[input.id]
  /\ input.id > last
  /\ \A k \in 1 .. Len(kept) : kept[k] > input.id

UnderWay(input) == Fits(input, shown, IC!Last, waiting)

Carries(k) == line[k].says # Nothing

(* A line that damages no packet behind its first byte. *)
NoDamage == CrcDamage = FALSE

(* The driver cannot tell whose answer it reads.  It need not: the inputs  *)
(* leave the reader, and stand in the tty, in the order of the users.      *)
Ordered ==
  /\ IC!Last <= Len(shown)
  /\ \A j, k \in 1 .. Len(waiting) : j < k => waiting[j] < waiting[k]
  /\ \A k \in 1 .. Len(waiting) : waiting[k] > IC!Last
  /\ \A k \in 1 .. Len(line) : line[k].form # "bad crc"
  /\ \A k \in 1 .. Len(line) : Carries(k) => UnderWay(line[k].says)
  /\ \A j, k \in 1 .. Len(line) :
       j < k /\ Carries(j) /\ Carries(k) => line[j].says.id < line[k].says.id

(* The place of the last input that was handed over.                       *)
LEMMA LastType ==
  ASSUME Typed
  PROVE  IC!Last \in Nat
  <1>1. CASE handed = <<>>
    BY <1>1 DEF IC!Last
  <1>2. CASE handed # <<>>
    <2>1. handed \in Seq(Handed)
      BY DEF Typed
    <2>2. handed[Len(handed)] \in Handed
      BY <1>2, <2>1
    <2>3. handed[Len(handed)].id \in Nat
      BY <2>2 DEF Handed
    <2>4. QED
      BY <1>2, <2>3 DEF IC!Last
  <1>3. QED
    BY <1>1, <1>2

(* A step that takes nothing from the reader and adds nothing to the tty.  *)
LEMMA SameOrder ==
  ASSUME Typed, Ordered, UNCHANGED <<waiting, shown, handed>>,
         line' = line \/ line' = <<>>
  PROVE  Ordered'
  <1>1. IC!Last' = IC!Last
    BY DEF IC!Last
  <1>2. CASE line' = line
    BY <1>1, <1>2 DEF Ordered, Carries, UnderWay
  <1>3. CASE line' = <<>>
    <2>1. \A k \in 1 .. Len(line') : FALSE
      BY <1>3
    <2>2. QED
      BY <1>1, <2>1 DEF Ordered
  <1>4. QED
    BY <1>2, <1>3

(* A step that drops the oldest input of the reader keeps the order; so    *)
(* does an answer that carries it.                                         *)
LEMMA ForgetOrder ==
  ASSUME Typed, Ordered, UNCHANGED <<shown, handed>>, owed # <<>>,
         waiting' = waiting \/ waiting' = IF Reply = Nothing THEN waiting ELSE Tail(waiting)
  PROVE  /\ \A j, k \in 1 .. Len(waiting') : j < k => waiting'[j] < waiting'[k]
         /\ \A k \in 1 .. Len(waiting') : waiting'[k] > IC!Last
         /\ \A n \in Nat : (\A k \in 1 .. Len(waiting) : waiting[k] > n)
              => \A k \in 1 .. Len(waiting') : waiting'[k] > n
  <1>1. CASE waiting' = waiting
    BY <1>1 DEF Ordered
  <1>2. CASE waiting' = Tail(waiting) /\ Reply # Nothing
    <2>1. waiting # <<>>
      BY <1>2, ReplyIs
    <2>2. \A k \in 1 .. Len(waiting') :
            k + 1 \in 1 .. Len(waiting) /\ waiting'[k] = waiting[k + 1]
      BY <1>2, <2>1, TailTyped
    <2>3. \A j, k \in 1 .. Len(waiting') : j < k => j + 1 < k + 1
      OBVIOUS
    <2>4. QED
      BY <2>2, <2>3 DEF Ordered
  <1>3. QED
    BY <1>1, <1>2

(* An input the reader sends is later than all in the tty and earlier than *)
(* all that still wait.                                                    *)
LEMMA ReplyFits ==
  ASSUME Typed, Ordered, owed # <<>>, UNCHANGED <<shown, handed>>,
         waiting' = Tail(waiting), Reply # Nothing
  PROVE  /\ Fits(Reply, shown', IC!Last, waiting')
         /\ \A k \in 1 .. Len(line) : Carries(k) => line[k].says.id < Reply.id
  <1>1. /\ waiting # <<>> /\ 1 \in 1 .. Len(waiting)
        /\ Reply.id = waiting[1] /\ Reply.what = shown[waiting[1]]
    BY ReplyIs
  <1>2. waiting[1] \in 1 .. Len(shown) /\ waiting[1] > IC!Last
    BY <1>1 DEF Typed, Ordered
  <1>3. \A k \in 1 .. Len(waiting') : waiting'[k] > waiting[1]
    <2>1. \A k \in 1 .. Len(waiting') :
            k + 1 \in 1 .. Len(waiting) /\ waiting'[k] = waiting[k + 1]
      BY <1>1, TailTyped
    <2>2. \A k \in 1 .. Len(waiting') : 1 < k + 1
      OBVIOUS
    <2>3. QED
      BY <1>1, <2>1, <2>2 DEF Ordered
  <1>4. Fits(Reply, shown', IC!Last, waiting')
    BY <1>1, <1>2, <1>3 DEF Fits
  <1>5. \A k \in 1 .. Len(line) : Carries(k) => line[k].says.id < Reply.id
    <2> SUFFICES ASSUME NEW k \in 1 .. Len(line), Carries(k)
                 PROVE  line[k].says.id < Reply.id
      OBVIOUS
    <2>1. UnderWay(line[k].says)
      BY DEF Ordered
    <2>2. waiting[1] > line[k].says.id
      BY <1>1, <2>1 DEF UnderWay, Fits
    <2>3. waiting[1] \in Nat /\ line[k].says.id \in Nat
      BY <1>2, <2>1 DEF UnderWay, Fits
    <2>4. QED
      BY <1>1, <2>2, <2>3
  <1>6. QED
    BY <1>4, <1>5

(* What the tty holds still fits after the reader sent or lost an input.   *)
LEMMA StillFits ==
  ASSUME Typed, Ordered, owed # <<>>, UNCHANGED <<shown, handed>>,
         waiting' = waiting \/ waiting' = IF Reply = Nothing THEN waiting ELSE Tail(waiting)
  PROVE  \A k \in 1 .. Len(line) : Carries(k) =>
           Fits(line[k].says, shown', IC!Last, waiting')
  <1> SUFFICES ASSUME NEW k \in 1 .. Len(line), Carries(k)
               PROVE  Fits(line[k].says, shown', IC!Last, waiting')
    OBVIOUS
  <1>1. UnderWay(line[k].says)
    BY DEF Ordered
  <1>2. line[k].says.id \in Nat
    BY <1>1 DEF UnderWay, Fits
  <1>3. \A i \in 1 .. Len(waiting') : waiting'[i] > line[k].says.id
    BY <1>1, <1>2, ForgetOrder DEF UnderWay, Fits
  <1>4. QED
    BY <1>1, <1>3 DEF UnderWay, Fits

(* The reader loses a request or an answer.                                *)
LEMMA LoseOrder ==
  ASSUME Typed, Ordered, Lose
  PROVE  Ordered'
  <1>1. /\ owed # <<>> /\ UNCHANGED <<line, shown, handed>>
        /\ waiting' = waiting
             \/ waiting' = IF Reply = Nothing THEN waiting ELSE Tail(waiting)
    BY DEF Lose
  <1>2. IC!Last' = IC!Last
    BY <1>1 DEF IC!Last
  <1>3. QED
    BY <1>1, <1>2, StillFits, ForgetOrder DEF Ordered, Carries, UnderWay

(* An element at the end of a sequence. *)
LEMMA Appended ==
  ASSUME NEW S, NEW s \in Seq(S), NEW e \in S
  PROVE  /\ Len(s) \in Nat /\ Len(Append(s, e)) = Len(s) + 1
         /\ Append(s, e)[Len(s) + 1] = e
         /\ \A k \in 1 .. Len(s) : Append(s, e)[k] = s[k]
         /\ \A k \in 1 .. Len(Append(s, e)) : k \in 1 .. Len(s) \/ k = Len(s) + 1
  OBVIOUS

(* The packet is no damaged one, and what it says comes after the inputs   *)
(* in the tty.                                                             *)
Comes(packet, queue, inputs, last, kept) ==
  /\ packet.form # "bad crc"
  /\ packet.says # Nothing =>
       /\ Fits(packet.says, inputs, last, kept)
       /\ \A k \in 1 .. Len(queue) :
            queue[k].says # Nothing => queue[k].says.id < packet.says.id

(* A packet joins the tty.                                                 *)
LEMMA AppendOrder ==
  ASSUME line \in Seq(Packets), NEW packet \in Packets, line' = Append(line, packet),
         Ordered, IC!Last' = IC!Last, IC!Last <= Len(shown'),
         \A j, k \in 1 .. Len(waiting') : j < k => waiting'[j] < waiting'[k],
         \A k \in 1 .. Len(waiting') : waiting'[k] > IC!Last,
         \A k \in 1 .. Len(line) : Carries(k) =>
           Fits(line[k].says, shown', IC!Last, waiting'),
         Comes(packet, line, shown', IC!Last, waiting')
  PROVE  Ordered'
  <1> DEFINE n == Len(line)
  <1>1. /\ n \in Nat /\ Len(line') = n + 1
        /\ line'[n + 1] = packet
        /\ \A k \in 1 .. n : line'[k] = line[k]
        /\ \A k \in 1 .. Len(line') : k \in 1 .. n \/ k = n + 1
    BY Appended, Zenon
  <1> HIDE DEF n
  <1>2. \A k \in 1 .. n : line'[k].says # Nothing <=> Carries(k)
    BY <1>1 DEF Carries
  <1>3. \A k \in 1 .. Len(line') : line'[k].form # "bad crc"
    BY <1>1 DEF Ordered, n, Comes
  <1>4. \A k \in 1 .. Len(line') : line'[k].says # Nothing =>
          Fits(line'[k].says, shown', IC!Last, waiting')
    BY <1>1, <1>2, Zenon DEF n, Comes
  <1>5. ASSUME NEW j \in 1 .. Len(line'), NEW k \in 1 .. Len(line'),
               j < k, line'[j].says # Nothing, line'[k].says # Nothing
        PROVE  line'[j].says.id < line'[k].says.id
    <2>1. j \in 1 .. n
      BY <1>1, <1>5
    <2>2. line'[j] = line[j] /\ Carries(j)
      BY <1>1, <1>2, <1>5, <2>1, Zenon
    <2>3. CASE k \in 1 .. n
      <3>1. line'[k] = line[k] /\ Carries(k)
        BY <1>1, <1>2, <1>5, <2>3, Zenon
      <3>2. QED
        BY <1>5, <2>1, <2>2, <2>3, <3>1 DEF Ordered, n
    <2>4. CASE k = n + 1
      <3>1. line'[k] = packet
        BY <1>1, <2>4, Zenon
      <3>2. QED
        BY <1>5, <2>1, <2>2, <3>1, Zenon DEF Comes, Carries, n
    <2>5. QED
      BY <1>1, <2>3, <2>4, Zenon
  <1>6. QED
    BY <1>3, <1>4, <1>5 DEF Ordered, Carries, UnderWay

(* The packet of an answer. *)
LEMMA AnswerPacket ==
  ASSUME NoDamage, Typed, Answer, line' # line
  PROVE  \E packet \in Packets :
           /\ line' = Append(line, packet)
           /\ packet.form # "bad crc" /\ packet.says = Reply
  <1>1. owed # <<>>
    BY DEF Answer
  <1>2. PICK f \in {"intact", "bad start"} :
          line' = Append(line, [form |-> f, says |-> Reply])
    BY DEF Answer, Arriving, NoDamage
  <1>3. [form |-> f, says |-> Reply] \in Packets
    BY <1>1, ReplyIs DEF Packets, Form
  <1>4. QED
    BY <1>2, <1>3

(* The reader answers. *)
LEMMA AnswerOrder ==
  ASSUME NoDamage, Typed, Ordered, Answer
  PROVE  Ordered'
  <1>1. /\ owed # <<>> /\ UNCHANGED <<shown, handed>>
        /\ waiting' = IF Reply = Nothing THEN waiting ELSE Tail(waiting)
    BY DEF Answer
  <1>2. IC!Last' = IC!Last
    BY <1>1 DEF IC!Last
  <1>3. /\ \A k \in 1 .. Len(line) : Carries(k) =>
             Fits(line[k].says, shown', IC!Last, waiting')
        /\ \A j, k \in 1 .. Len(waiting') : j < k => waiting'[j] < waiting'[k]
        /\ \A k \in 1 .. Len(waiting') : waiting'[k] > IC!Last
        /\ IC!Last <= Len(shown')
    BY <1>1, StillFits, ForgetOrder DEF Ordered
  <1>4. CASE line' = line
    BY <1>2, <1>3, <1>4 DEF Ordered, Carries, UnderWay
  <1>5. CASE line' # line
    <2>1. PICK packet \in Packets :
            /\ line' = Append(line, packet)
            /\ packet.form # "bad crc" /\ packet.says = Reply
      BY <1>5, AnswerPacket
    <2>2. line \in Seq(Packets)
      BY DEF Typed, OsdpTypeOK, Packets
    <2>3. Comes(packet, line, shown', IC!Last, waiting')
      BY <1>1, <2>1, ReplyFits DEF Comes, Carries
    <2>4. QED
      BY <1>2, <1>3, <2>1, <2>2, <2>3, AppendOrder
  <1>6. QED
    BY <1>4, <1>5

(* On such a line the packet a poll looks at is intact.                    *)
LEMMA FirstIntact ==
  ASSUME Typed, Ordered, PollAnswered
  PROVE  line # <<>> /\ 1 \in 1 .. Len(line) /\ line[1].form = "intact"
  <1>1. line \in Seq(Packets)
    BY DEF Typed, OsdpTypeOK, Packets
  <1>2. line # <<>> /\ 1 \in 1 .. Len(line) /\ line[1] \in Packets
    <2>1. line # <<>>
      BY DEF PollAnswered, Received
    <2>2. QED
      BY <1>1, <2>1
  <1>3. line[1].form \in Form
    BY <1>2 DEF Packets
  <1>4. line[1].form # "bad crc" /\ line[1].form # "bad start"
    BY <1>2 DEF Ordered, PollAnswered, Received
  <1>5. QED
    BY <1>2, <1>3, <1>4 DEF Form

(* What the driver hands over is what that packet says.                    *)
LEMMA AnswerHands ==
  ASSUME Typed, Ordered, PollAnswered
  PROVE  /\ line # <<>> /\ 1 \in 1 .. Len(line)
         /\ UNCHANGED <<shown, waiting>> /\ line' = <<>>
         /\ res' = line[1].says
         /\ ~Carries(1) => handed' = handed
         /\ Carries(1) =>
              handed' = Append(handed, [id |-> res'.id, as |-> res'.what])
  <1>1. res' = line[1].says
    BY FirstIntact DEF PollAnswered, process_packet, Packet
  <1>2. QED
    BY <1>1, FirstIntact DEF PollAnswered, Carries, reader, Fetched

(* The last place after an input was handed over.                          *)
LEMMA LastAppended ==
  ASSUME handed \in Seq(Handed), NEW h \in Handed, handed' = Append(handed, h)
  PROVE  IC!Last' = h.id
  <1>1. /\ Len(handed) \in Nat /\ Len(handed') = Len(handed) + 1
        /\ handed'[Len(handed) + 1] = h
    BY Appended, Zenon
  <1>2. handed' # <<>>
    BY <1>1
  <1>3. QED
    BY <1>1, <1>2 DEF IC!Last

(* An answer that carries an input is a step of the channel; every other   *)
(* answer is none.                                                         *)
LEMMA AnswerImplements ==
  ASSUME Typed, Ordered, PollAnswered
  PROVE  Ordered' /\ [IC!Next]_(IC!vars)
  <1>1. /\ line # <<>> /\ 1 \in 1 .. Len(line)
        /\ UNCHANGED <<shown, waiting>> /\ line' = <<>>
        /\ res' = line[1].says
        /\ ~Carries(1) => handed' = handed
        /\ Carries(1) =>
             handed' = Append(handed, [id |-> res'.id, as |-> res'.what])
    BY AnswerHands
  <1>2. CASE ~Carries(1)
    BY <1>1, <1>2, SameOrder DEF IC!vars
  <1>3. CASE Carries(1)
    <2>1. UnderWay(res')
      BY <1>1, <1>3 DEF Ordered
    <2>2. /\ res'.id \in 1 .. Len(shown) /\ res'.what = shown[res'.id]
          /\ res'.id > IC!Last
          /\ \A k \in 1 .. Len(waiting) : waiting[k] > res'.id
      BY <2>1 DEF UnderWay, Fits
    <2>3. shown[res'.id] \in Kinds /\ IC!Taken(shown[res'.id]) = shown[res'.id]
      BY <2>2, OsdpAssumption DEF Typed, IC!Taken
    <2>4. handed' = Append(handed, [id |-> res'.id, as |-> res'.what])
      BY <1>1, <1>3
    <2>5. IC!Last' = res'.id
      <3>1. [id |-> res'.id, as |-> res'.what] \in Handed
        BY <2>2, <2>3 DEF Handed
      <3>2. handed \in Seq(Handed)
        BY DEF Typed
      <3>3. QED
        BY <2>4, <3>1, <3>2, LastAppended
    <2>6. Ordered'
      <3>1. \A k \in 1 .. Len(line') : FALSE
        BY <1>1
      <3>2. QED
        <4>1. IC!Last' <= Len(shown')
          BY <1>1, <2>2, <2>5
        <4>2. \A k \in 1 .. Len(waiting') : waiting'[k] > IC!Last'
          BY <1>1, <2>2, <2>5
        <4>3. \A j, k \in 1 .. Len(waiting') : j < k => waiting'[j] < waiting'[k]
          BY <1>1 DEF Ordered
        <4>4. QED
          BY <3>1, <4>1, <4>2, <4>3 DEF Ordered
    <2>7. IC!HandOver(res'.id)
      BY <1>1, <2>2, <2>3, <2>4 DEF IC!HandOver
    <2>8. QED
      BY <2>2, <2>6, <2>7 DEF IC!Next
  <1>4. QED
    BY <1>2, <1>3

(* A user shows an input: the latest of all.                               *)
LEMMA ShowImplements ==
  ASSUME Typed, Ordered, Show
  PROVE  Ordered' /\ [IC!Next]_(IC!vars)
  <1> DEFINE latest == Len(shown) + 1
  <1>1. PICK what \in Kinds : shown' = Append(shown, what)
    BY DEF Show
  <1>2. /\ shown \in Seq(Kinds) /\ latest \in Nat /\ Len(shown') = latest
        /\ \A k \in 1 .. Len(shown) : k \in 1 .. Len(shown') /\ shown'[k] = shown[k]
    BY <1>1 DEF Typed
  <1>3. waiting' = Append(waiting, latest) /\ UNCHANGED <<line, handed>>
    BY <1>2 DEF Show
  <1>4. IC!Last' = IC!Last
    BY <1>3 DEF IC!Last
  <1>5. /\ Len(waiting) \in Nat /\ Len(waiting') = Len(waiting) + 1
        /\ waiting'[Len(waiting) + 1] = latest
        /\ \A k \in 1 .. Len(waiting) : waiting'[k] = waiting[k]
        /\ \A k \in 1 .. Len(waiting') : k \in 1 .. Len(waiting) \/ k = Len(waiting) + 1
    <2>1. waiting \in Seq(Nat) /\ latest \in Nat
      BY <1>2 DEF Typed
    <2> HIDE DEF latest
    <2>2. QED
      BY <1>3, <2>1, Appended, Zenon
  <1>6. \A k \in 1 .. Len(waiting) : waiting[k] \in Nat /\ waiting[k] < latest
    BY <1>2 DEF Typed
  <1>7. IC!Last \in Nat /\ IC!Last < latest
    <2>1. IC!Last <= Len(shown)
      BY DEF Ordered
    <2>2. IC!Last \in Nat /\ Len(shown) \in Nat
      BY <1>2, LastType
    <2>3. QED
      BY <2>1, <2>2
  <1> HIDE DEF latest
  <1>8. \A k \in 1 .. Len(waiting') : waiting'[k] > IC!Last
    BY <1>2, <1>5, <1>7 DEF Ordered
  <1>9. \A j, k \in 1 .. Len(waiting') : j < k => waiting'[j] < waiting'[k]
    <2>1. \A j, k \in 1 .. Len(waiting) : j < k => waiting[j] < waiting[k]
      BY DEF Ordered
    <2>2. QED
      BY <1>5, <1>6, <2>1
  <1>10. \A k \in 1 .. Len(line) : Carries(k) =>
           Fits(line[k].says, shown', IC!Last, waiting')
    <2> SUFFICES ASSUME NEW k \in 1 .. Len(line), Carries(k)
                 PROVE  Fits(line[k].says, shown', IC!Last, waiting')
      OBVIOUS
    <2>1. Fits(line[k].says, shown, IC!Last, waiting)
      BY DEF Ordered, UnderWay
    <2>2. line[k].says.id \in 1 .. Len(shown) /\ line[k].says.id < latest
      BY <2>1 DEF Fits, latest, Typed
    <2>3. QED
      BY <1>2, <1>5, <2>1, <2>2 DEF Fits
  <1>11. Ordered'
    <2>1. IC!Last' <= Len(shown')
      BY <1>2, <1>4, <1>7 DEF latest
    <2>2. \A k \in 1 .. Len(waiting') : waiting'[k] > IC!Last'
      BY <1>4, <1>8
    <2>3. QED
      BY <1>3, <1>4, <1>9, <1>10, <2>1, <2>2 DEF Ordered, Carries, UnderWay
  <1>12. IC!Show(what)
    BY <1>1, <1>3 DEF IC!Show
  <1>13. QED
    BY <1>11, <1>12, OsdpAssumption DEF IC!Next

LEMMA InitOrder == Init => Ordered /\ IC!Init
  BY DEF Init, Ordered, IC!Last, IC!Init

(* Every step keeps the order, and is a step of the channel or none.       *)
LEMMA NextOrder ==
  ASSUME NoDamage, Typed, Ordered, [Next]_vars
  PROVE  Ordered' /\ [IC!Next]_(IC!vars)
  <1>1. CASE Command \/ Poll
    <2>1. UNCHANGED <<line, waiting, shown, handed>>
      BY <1>1 DEF Command, Poll, Request
    <2>2. QED
      BY <2>1, SameOrder DEF IC!vars
  <1>2. CASE CommandDone \/ PollFailed
    <2>1. line' = <<>> /\ UNCHANGED <<waiting, shown, handed>>
      BY <1>2 DEF CommandDone, PollFailed, Fetched, reader
    <2>2. QED
      BY <2>1, SameOrder DEF IC!vars
  <1>3. CASE PollAnswered
    BY <1>3, AnswerImplements
  <1>4. CASE Answer
    BY <1>4, AnswerOrder DEF Answer, IC!vars
  <1>5. CASE Lose
    BY <1>5, LoseOrder DEF Lose, IC!vars
  <1>6. CASE Show
    BY <1>6, ShowImplements
  <1>7. CASE ClearUp \/ Unplug \/ Plug
    <2>1. (line' = line \/ line' = <<>>) /\ UNCHANGED <<waiting, shown, handed>>
      BY <1>7 DEF ClearUp, Unplug, Plug, reader
    <2>2. QED
      BY <2>1, SameOrder DEF IC!vars
  <1>8. CASE UNCHANGED vars
    <2>1. UNCHANGED <<line, waiting, shown, handed>>
      BY <1>8 DEF vars
    <2>2. QED
      BY <2>1, SameOrder DEF IC!vars
  <1>9. QED
    BY <1>1, <1>2, <1>3, <1>4, <1>5, <1>6, <1>7, <1>8 DEF Next, Driver

(* Late, lost and unreadable answers, reopened ports and a device that is  *)
(* unplugged and comes back do not make get_reader_data hand over an input *)
(* twice, out of order, or one that nobody showed: on a line that damages  *)
(* no packet behind its first byte (run bad_crc shows what one can do).    *)
THEOREM OsdpIsChannel == NoDamage => (Spec => OsdpImplementsChannel)
  <1> SUFFICES ASSUME NoDamage
               PROVE  Spec => OsdpImplementsChannel
    OBVIOUS
  <1>1. Init => Typed /\ Ordered /\ IC!Init
    BY InitTyped, InitOrder
  <1>2. Typed /\ Ordered /\ [Next]_vars
          => Typed' /\ Ordered' /\ [IC!Next]_(IC!vars)
    BY NextTyped, NextOrder
  <1>3. QED
    BY <1>1, <1>2, PTL DEF Spec, OsdpImplementsChannel, IC!Spec
(* Without such damage process_user_info is called only for an input of    *)
(* the answer that was just read: it takes an ignored CRC error, as in the *)
(* run bad_crc, to hand over anything else.                                *)
THEOREM IntactWithoutDamage == NoDamage => (Spec => HandedAnswerIsIntact)
  <1> SUFFICES ASSUME NoDamage
               PROVE  Spec => HandedAnswerIsIntact
    OBVIOUS
  <1> DEFINE Step == handed' # handed =>
                       /\ line[1].form = "intact"
                       /\ handed'[Len(handed')].id = line[1].says.id
  <1>1. Init => Typed /\ Ordered
    BY InitTyped, InitOrder
  <1>2. Typed /\ Ordered /\ [Next]_vars => Typed' /\ Ordered'
    BY NextTyped, NextOrder
  <1>3. Typed /\ Ordered /\ [Next]_vars => [Step]_vars
    <2> SUFFICES ASSUME Typed, Ordered, Next, handed' # handed
                 PROVE  /\ line[1].form = "intact"
                        /\ handed'[Len(handed')].id = line[1].says.id
      OBVIOUS
    <2>1. PollAnswered
      BY DEF Next, Driver, Command, Poll, Request, CommandDone, PollFailed, Answer,
             Show, Lose, ClearUp, Unplug, Plug
    <2>2. /\ line # <<>> /\ 1 \in 1 .. Len(line) /\ res' = line[1].says
          /\ handed' = Append(handed, [id |-> res'.id, as |-> res'.what])
      BY <2>1, AnswerHands
    <2>3. line[1].form = "intact"
      BY <2>1, FirstIntact
    <2>4. handed'[Len(handed')].id = line[1].says.id
      <3>1. line[1].says \in Content
        <4>1. line \in Seq(Packets)
          BY DEF Typed, OsdpTypeOK, Packets
        <4>2. line[1] \in Packets
          BY <2>2, <4>1
        <4>3. QED
          BY <4>2 DEF Packets
      <3>2. PICK h \in Handed : h = [id |-> res'.id, as |-> res'.what]
        BY <2>2, <3>1 DEF Content, Handed
      <3>3. handed \in Seq(Handed) /\ handed' = Append(handed, h) /\ h.id = line[1].says.id
        BY <2>2, <3>2 DEF Typed
      <3>4. Len(handed') = Len(handed) + 1 /\ handed'[Len(handed) + 1] = h
        BY <3>3, Appended
      <3>5. QED
        BY <3>3, <3>4
    <2>5. QED
      BY <2>3, <2>4
  <1>4. QED
    BY <1>1, <1>2, <1>3, PTL DEF Spec, HandedAnswerIsIntact
=============================================================================
