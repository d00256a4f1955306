------------------------------ MODULE OsdpLink ------------------------------
(***************************************************************************)
(* The driver of the Idesco readers: get_reader_data and reader_signal of  *)
(* reader-idesco.c on the packets of osdp.c.  Every request is a write, a  *)
(* sleep and one read of what the tty holds by then; the first packet of   *)
(* it is looked at, whatever request it answers.                           *)
(*                                                                         *)
(* A packet is what it says (an input or nothing, which stands for ACK,    *)
(* NACK and short cards) and the form in which it arrived; CRC16 is taken  *)
(* to find every damage.  What process_user_info does with a card or a key *)
(* press is in ReaderAuth.  The reader and the line are external: weather  *)
(* tells whether the line delays, drops and damages.                       *)
(***************************************************************************)
EXTENDS Integers, Sequences

CONSTANTS
  Kinds,        \* what users show: "card", "pin"
  MaxShown,     \* bound on the number of inputs
  MaxOwed,      \* bound on the requests the reader has not answered; the
                \* answers fit the PACKETLEN bytes of one read
  CrcDamage     \* may the line damage a packet behind its first byte?

ASSUME OsdpAssumption ==
  /\ Kinds \subseteq {"card", "pin"}
  /\ MaxShown \in Nat /\ MaxOwed \in Nat \ {0}
  /\ CrcDamage \in BOOLEAN

VARIABLES
  pc,       \* "next" between two requests, "sleep" in usleep after one
  op,       \* the request: "poll", "command", or "none"
  todo,     \* commands still to send before the next poll
  fd,       \* serial: "open", or "closed" after an open that failed (-1)
  res,      \* the stack slot of struct osdp_response
  line,     \* packets in the tty
  owed,     \* requests the reader has not answered yet
  waiting,  \* ids of the inputs the reader keeps for a poll
  weather,  \* "bad", later for ever "good": answers are prompt and intact
  plugged,  \* is the device of the line there?
  shown,    \* history: the inputs users showed
  handed    \* history: the inputs given to process_user_info

vars == <<pc, op, todo, fd, res, line, owed, waiting, weather, plugged, shown, handed>>
driver == <<pc, op, todo, fd, res>>
reader == <<owed, waiting, shown>>
outside == <<weather, plugged>>

Content == [id : Nat, what : Kinds \cup {"none"}]
Nothing == [id |-> 0, what |-> "none"]
Form == {"intact", "bad start", "bad crc"}

-----------------------------------------------------------------------------
(* reader-idesco.c *)

(* Commands reader_signal sends per signal. *)
SignalCommands == {0, 1, 2}

Init ==
  /\ pc = "next" /\ op = "none" /\ todo = 0 /\ fd = "open" /\ res = Nothing
  /\ line = <<>> /\ owed = <<>> /\ waiting = <<>>
  /\ weather = "bad" /\ plugged = TRUE
  /\ shown = <<>> /\ handed = <<>>

Connected == fd = "open" /\ plugged

(* send_packet.  A request that finds MaxOwed others is dropped.           *)
Request(call) ==
  /\ pc = "next"
  /\ pc' = "sleep" /\ op' = call
  /\ owed' = IF Connected /\ Len(owed) < MaxOwed THEN Append(owed, call) ELSE owed
  /\ UNCHANGED <<fd, res, line, waiting, shown, handed, outside>>

(* Mutant: one command too many. *)
Command_one_more == todo >= 0 /\ Request("command") /\ todo' = todo - 1

Command == todo > 0 /\ Request("command") /\ todo' = todo - 1

Poll == todo = 0 /\ Request("poll") /\ UNCHANGED todo

(* usleep(OSDP_SLEEP_TIME) is over; in good weather that is long enough    *)
(* for the answer.                                                         *)
Awake(call) ==
  /\ pc = "sleep" /\ op = call
  /\ weather = "good" => owed = <<>> \/ ~Connected

Return == pc' = "next" /\ op' = "none"

(* Mutant: the answer to the last command of a signal is not read. *)
Fetched_leaves_last == IF op = "command" /\ todo = 0 THEN line ELSE <<>>

(* read fetches all the tty holds. *)
Fetched == <<>>

(* reader_signal reads the answer to a command and does not look at it.    *)
CommandDone ==
  /\ Awake("command")
  /\ Return /\ line' = Fetched
  /\ UNCHANGED <<todo, fd, res, reader, outside, handed>>

(* recv_packet: there is something to read and it starts with 0x53.        *)
Received == fd = "open" /\ line # <<>> /\ line[1].form # "bad start"

(* Mutant: an answer without an input leaves res as it is.                 *)
process_packet_keeps_ack(packet) ==
  IF packet.form = "intact" /\ packet.says # Nothing THEN {packet.says} ELSE {res}

Packet == line[1]

(* process_packet returns false on a bad CRC and leaves the response as it *)
(* is: uninitialised, that is, what the poll before left in this place of  *)
(* the stack or something the switch has no case for.  Nobody asks for the *)
(* returned value.                                                         *)
process_packet(packet) ==
  IF packet.form = "intact" THEN {packet.says} ELSE {res, Nothing}

(* get_reader_data after an answer: osdp_RAW and osdp_KPD are handed over. *)
PollAnswered ==
  /\ Awake("poll") /\ Received
  /\ res' \in process_packet(Packet)
  /\ handed' = IF res' = Nothing THEN handed
               ELSE Append(handed, [id |-> res'.id, as |-> res'.what])
  /\ Return /\ line' = Fetched
  /\ todo' \in SignalCommands
  /\ UNCHANGED <<fd, reader, outside>>

(* What portsetup makes of the port after close.  The path comes from the  *)
(* link of the open descriptor; when there is none, filePath is            *)
(* uninitialised: an earlier path may or may not be still in that place.   *)
Reopened ==
  IF ~plugged THEN {"closed"}
  ELSE IF fd = "open" THEN {"open"} ELSE {"open", "closed"}

(* get_reader_data without an answer: the tty is flushed and opened again. *)
PollFailed ==
  /\ Awake("poll") /\ ~Received
  /\ fd' \in Reopened
  /\ Return /\ line' = <<>>
  /\ todo' \in SignalCommands
  /\ UNCHANGED <<res, reader, outside, handed>>

-----------------------------------------------------------------------------
(* External: users, the reader and the line. *)
Show ==
  /\ Len(shown) < MaxShown
  /\ \E what \in Kinds : shown' = Append(shown, what)
  /\ waiting' = Append(waiting, Len(shown'))
  /\ UNCHANGED <<driver, line, owed, outside, handed>>

(* A poll is answered with the oldest input, which the reader then         *)
(* forgets; a command with its acknowledgement.                            *)
Reply ==
  IF owed[1] = "poll" /\ waiting # <<>>
  THEN [id |-> waiting[1], what |-> shown[waiting[1]]] ELSE Nothing

Arriving ==
  IF weather = "good" THEN {"intact"}
  ELSE {"intact", "bad start"} \cup (IF CrcDamage THEN {"bad crc"} ELSE {})

Answer ==
  /\ owed # <<>> /\ owed' = Tail(owed)
  /\ waiting' = IF Reply = Nothing THEN waiting ELSE Tail(waiting)
  /\ IF Connected
     THEN \E form \in Arriving : line' = Append(line, [form |-> form, says |-> Reply])
     ELSE UNCHANGED line
  /\ UNCHANGED <<driver, shown, outside, handed>>

(* A request or an answer is lost. *)
Lose ==
  /\ weather = "bad" /\ owed # <<>> /\ owed' = Tail(owed)
  /\ waiting' \in {waiting, IF Reply = Nothing THEN waiting ELSE Tail(waiting)}
  /\ UNCHANGED <<driver, line, shown, outside, handed>>

ClearUp ==
  /\ weather = "bad" /\ weather' = "good"
  /\ UNCHANGED <<driver, line, reader, plugged, handed>>

(* The adapter of the line is unplugged, or comes back. *)
Unplug ==
  /\ plugged /\ plugged' = FALSE /\ line' = <<>>
  /\ UNCHANGED <<driver, reader, weather, handed>>

Plug ==
  /\ ~plugged /\ plugged' = TRUE
  /\ UNCHANGED <<driver, line, reader, weather, handed>>

Driver == Command \/ Poll \/ CommandDone \/ PollAnswered \/ PollFailed
Next == Driver \/ Answer \/ Show \/ Lose \/ ClearUp \/ Unplug \/ Plug

Spec == Init /\ [][Next]_vars

(* The main thread runs, and the reader answers.                           *)
FairSpec == Spec /\ WF_vars(Driver) /\ WF_vars(Answer)

-----------------------------------------------------------------------------
(* Properties *)

(* The driver, the tty and the reader keep their types.                    *)
OsdpTypeOK ==
  /\ pc \in {"next", "sleep"} /\ op \in {"poll", "command", "none"}
  /\ pc = "next" <=> op = "none"
  /\ todo \in 0 .. 2 /\ fd \in {"open", "closed"} /\ res \in Content
  /\ line \in Seq([form : Form, says : Content])
  /\ Len(owed) <= MaxOwed /\ Len(shown) <= MaxShown
  /\ weather \in {"bad", "good"} /\ plugged \in BOOLEAN

(* Although the driver cannot tell which request an answer belongs to,     *)
(* late, lost and unreadable answers and reopened ports do not make it     *)
(* hand over an input twice, out of order, or one that nobody showed.      *)
IC == INSTANCE InputChannel
OsdpImplementsChannel == IC!Spec

(* Nothing is under way. *)
Clean == pc = "next" /\ line = <<>> /\ owed = <<>>

(* On an open line that has come to rest and is prompt from now on, every  *)
(* input the reader keeps reaches process_user_info: no signal, and no     *)
(* answer to one, makes the driver overlook it.                            *)
GoodLineDelivers ==
  \A i \in 1 .. MaxShown :
    /\ weather = "good" /\ Clean /\ Connected
    /\ \E k \in 1 .. Len(waiting) : waiting[k] = i
    ~> (\E k \in 1 .. Len(handed) : handed[k].id = i) \/ ~plugged

(* osdp.c: "check crc" and "CRC not OK".  process_user_info is called only *)
(* for an input of the answer that was just read, found intact.            *)
HandedAnswerIsIntact ==
  [][handed' # handed =>
       /\ line[1].form = "intact"
       /\ handed'[Len(handed')].id = line[1].says.id]_vars
=============================================================================
