------------------------------ MODULE EpsoLink ------------------------------
(***************************************************************************)
(* The driver of the Roger readers: epso_write_read of epso.c with its two *)
(* select time-outs, and what reader-roger.c makes of the answers.         *)
(*                                                                         *)
(* The driver does not number its requests: it takes for the answer what   *)
(* the tty holds when it reads.  An answer travels as two fragments, a     *)
(* head and a tail, so that a read may come between them; a fragment is a  *)
(* record, not its bytes, and the XOR checksum is taken to find every read *)
(* that is not a row of whole answers.  The reader and the line between    *)
(* the two are external: weather tells whether the line delays and drops.  *)
(***************************************************************************)
EXTENDS Integers, Sequences

CONSTANTS
  Kinds,        \* what users show: "card", "pin", "both"
  MaxShown,     \* bound on the number of inputs
  MaxOwed,      \* bound on the requests the reader has not answered
  BUF_FRAGMENTS \* fragments that fit BUF_SIZE bytes

ASSUME EpsoAssumption ==
  /\ Kinds \subseteq {"card", "pin", "both"}
  /\ MaxShown \in Nat /\ MaxOwed \in Nat \ {0}
  /\ BUF_FRAGMENTS \in Nat \ {0}

VARIABLES
  pc,       \* "next" between two calls; in epso_write_read: "first" in the
            \* first select, "rest" in the loop that reads the rest
  op,       \* the call: "poll" of readCardPin, "command" without a buffer,
            \* "none" between two calls
  todo,     \* commands still to send before the next poll
  buf,      \* fragments read by this call
  line,     \* fragments in the tty
  owed,     \* requests the reader has not answered yet
  half,     \* answer whose tail is still to come, or NoAnswer
  waiting,  \* ids of the inputs the reader keeps for a poll
  weather,  \* "bad", later for ever "good": answers are prompt and complete
  dead,     \* the tty was hung up
  shown,    \* history: the inputs users showed
  handed    \* history: the inputs given to process_user_info

vars == <<pc, op, todo, buf, line, owed, half, waiting, weather, dead, shown, handed>>
driver == <<pc, op, todo, buf>>
reader == <<owed, half, waiting, shown>>
outside == <<weather, dead>>

Answer == [id : Nat, what : Kinds \cup {"none"}]
Nothing == [id |-> 0, what |-> "none"]
NoAnswer == [id |-> 0, what |-> "no answer"]
Head1(a) == [part |-> "head", of |-> a]
Tail1(a) == [part |-> "tail", of |-> a]

-----------------------------------------------------------------------------
(* reader-roger.c *)

(* Commands of init_reader and, per signal, of reader_signal.              *)
INIT_COMMANDS == 3
SignalCommands == {0, 1, 2, 4}

Init ==
  /\ pc = "next" /\ op = "none" /\ todo = INIT_COMMANDS
  /\ buf = <<>> /\ line = <<>>
  /\ owed = <<>> /\ half = NoAnswer /\ waiting = <<>>
  /\ weather = "bad" /\ dead = FALSE
  /\ shown = <<>> /\ handed = <<>>

(* A command is sent without a buffer: read may fetch 0 bytes.             *)
BufLen == IF op = "poll" THEN BUF_FRAGMENTS ELSE 0

(* epso_write.  A request that finds MaxOwed others is dropped.            *)
Request(call) ==
  /\ pc = "next"
  /\ pc' = "first" /\ op' = call
  /\ owed' = IF dead \/ Len(owed) = MaxOwed THEN owed ELSE Append(owed, call)
  /\ UNCHANGED <<buf, line, half, waiting, shown, handed, outside>>

Command == todo > 0 /\ Request("command") /\ todo' = todo - 1

Poll == todo = 0 /\ Request("poll") /\ UNCHANGED todo

-----------------------------------------------------------------------------
(* epso_write_read *)

(* Mutant: what the first read fetched is taken for the answer. *)
AfterRead_no_rest == "check"

(* The loop that reads the rest of the packet follows the first read.      *)
AfterRead == "rest"

Room == BufLen - Len(buf)

(* select reports the tty readable and read fetches what fits the buffer:  *)
(* nothing when there is no buffer, when it is full, and after a hang-up.  *)
Readable == line # <<>> \/ dead
Smaller(m, n) == IF m < n THEN m ELSE n
Read ==
  /\ pc \in {"first", "rest"} /\ Readable
  /\ LET n == Smaller(Room, Len(line))
     IN /\ buf' = buf \o SubSeq(line, 1, n)
        /\ line' = SubSeq(line, n + 1, Len(line))
  /\ pc' = IF pc = "first" THEN AfterRead ELSE pc
  /\ UNCHANGED <<op, todo, reader, outside, handed>>

(* In good weather time runs out only if nothing is under way.             *)
TimeRunsOut(underway) ==
  /\ ~Readable
  /\ weather = "good" => ~underway

Return == pc' = "next" /\ op' = "none" /\ buf' = <<>>

(* process_user_info and the main loop signal before the next poll.        *)
Signals == IF op = "poll" THEN todo' \in SignalCommands ELSE UNCHANGED todo

(* The first time-out, TTY_READ_TIMEOUT_1: the call fails with -20.        *)
NoReply ==
  /\ pc = "first" /\ TimeRunsOut(owed # <<>> \/ half # NoAnswer)
  /\ Return /\ Signals
  /\ UNCHANGED <<line, reader, outside, handed>>

(* read fails, and what the tty held is lost.  With nothing in the buffer  *)
(* the call fails too, with -21 or -22; in the loop "buf_pos += read()"    *)
(* takes the last byte back instead.                                       *)
Torn == [part |-> "torn", of |-> Nothing]
ReadFails ==
  /\ pc \in {"first", "rest"} /\ Readable /\ weather = "bad"
  /\ IF buf = <<>> THEN Return /\ Signals
     ELSE LET k == Len(buf)
          IN /\ buf' = IF buf[k] = Torn THEN SubSeq(buf, 1, k - 1) ELSE [buf EXCEPT ![k] = Torn]
             /\ UNCHANGED <<pc, op, todo>>
  /\ line' = <<>>
  /\ UNCHANGED <<reader, outside, handed>>

(* Mutant: while (ret >= 0). *)
Silence_goes_on ==
  /\ pc = "rest" /\ TimeRunsOut(half # NoAnswer)
  /\ UNCHANGED vars

(* The second time-out, TTY_READ_TIMEOUT_2, ends the loop.                 *)
Silence ==
  /\ pc = "rest" /\ TimeRunsOut(half # NoAnswer)
  /\ pc' = "check"
  /\ UNCHANGED <<op, todo, buf, line, reader, outside, handed>>

(* Mutant: the checksum is not compared. *)
Intact_any(b) == TRUE

(* The checksum holds for whole answers in a row: the XOR of each is zero  *)
(* but for the bit 0x20, which epso_checksum sets.                         *)
Intact(b) ==
  /\ Len(b) % 2 = 0
  /\ \A k \in 1 .. Len(b) :
       b[k] = IF k % 2 = 1 THEN Head1(b[k].of) ELSE Tail1(b[k - 1].of)

(* Of several answers in the buffer the content of the first is used.      *)
Parsed == IF buf # <<>> /\ Intact(buf) THEN buf[1].of ELSE Nothing

(* get_reader_data: "else if", the PIN that came with a card is dropped.   *)
TakenFor(what) == IF what = "both" THEN "card" ELSE what

(* readCardPin and get_reader_data after a poll.                           *)
HandOver ==
  /\ pc = "check"
  /\ Return /\ Signals
  /\ handed' = IF Parsed.what = "none" THEN handed
               ELSE Append(handed, [id |-> Parsed.id, as |-> TakenFor(Parsed.what)])
  /\ UNCHANGED <<line, reader, outside>>

-----------------------------------------------------------------------------
(* External: users, the reader and the line. *)
Show ==
  /\ Len(shown) < MaxShown
  /\ \E what \in Kinds : shown' = Append(shown, what)
  /\ waiting' = Append(waiting, Len(shown'))
  /\ UNCHANGED <<driver, line, owed, half, outside, handed>>

(* A poll is answered with the oldest input, which the reader then         *)
(* forgets; a command with its acknowledgement.                            *)
Reply ==
  IF owed[1] = "poll" /\ waiting # <<>>
  THEN [id |-> waiting[1], what |-> shown[waiting[1]]] ELSE Nothing

AnswerHead ==
  /\ owed # <<>> /\ half = NoAnswer /\ ~dead
  /\ half' = Reply
  /\ line' = Append(line, Head1(Reply))
  /\ owed' = Tail(owed)
  /\ waiting' = IF Reply = Nothing THEN waiting ELSE Tail(waiting)
  /\ UNCHANGED <<driver, shown, outside, handed>>

AnswerTail ==
  /\ half # NoAnswer /\ ~dead
  /\ line' = Append(line, Tail1(half))
  /\ half' = NoAnswer
  /\ UNCHANGED <<driver, owed, waiting, shown, outside, handed>>

(* The reader ignores a command; in bad weather a request or the rest of   *)
(* an answer is lost.                                                      *)
Ignore ==
  /\ owed # <<>> /\ (owed[1] = "command" \/ weather = "bad")
  /\ owed' = Tail(owed)
  /\ UNCHANGED <<driver, line, half, waiting, shown, outside, handed>>

LoseTail ==
  /\ half # NoAnswer /\ weather = "bad"
  /\ half' = NoAnswer
  /\ UNCHANGED <<driver, line, owed, waiting, shown, outside, handed>>

ClearUp ==
  /\ weather = "bad" /\ weather' = "good"
  /\ UNCHANGED <<driver, line, reader, dead, handed>>

(* The adapter of the line is unplugged.                                   *)
Hangup ==
  /\ ~dead /\ dead' = TRUE /\ line' = <<>>
  /\ UNCHANGED <<driver, reader, weather, handed>>

Driver == Command \/ Poll \/ Read \/ ReadFails \/ NoReply \/ Silence \/ HandOver
Reader == AnswerHead \/ AnswerTail
Next == Driver \/ Reader \/ Show \/ Ignore \/ LoseTail \/ ClearUp \/ Hangup

Spec == Init /\ [][Next]_vars

(* The main thread runs, select returns when its time is over, and the     *)
(* reader answers what it does not ignore.                                 *)
FairSpec == Spec /\ WF_vars(Driver) /\ WF_vars(Reader)

-----------------------------------------------------------------------------
(* Properties *)

(* The call, the buffer, the tty and the reader keep their types; the      *)
(* buffer never holds more than BUF_SIZE bytes, and a command leaves       *)
(* epso_write_read only through its first time-out.                        *)
EpsoTypeOK ==
  /\ pc \in {"next", "first", "rest", "check"}
  /\ op \in {"poll", "command", "none"} /\ todo \in 0 .. 4
  /\ pc = "check" => op = "poll"
  /\ Len(buf) <= BUF_FRAGMENTS
  /\ Len(owed) <= MaxOwed
  /\ half = NoAnswer \/ half \in Answer
  /\ \A k \in 1 .. Len(line) : line[k].of \in Answer
  /\ weather \in {"bad", "good"} /\ dead \in BOOLEAN
  /\ Len(shown) <= MaxShown

(* Whatever answers come late, in pieces or after one another, get_reader_ *)
(* data hands over the inputs users showed, once each and in their order.  *)
IC == INSTANCE InputChannel
EpsoImplementsChannel == IC!Spec

(* epso_write_read spins: select reports the tty readable, read fetches    *)
(* nothing.                                                                *)
Stuck ==
  /\ pc = "rest"
  /\ dead \/ (line # <<>> /\ Len(buf) = BufLen)

(* A poll ends, with an answer, a bad one or none, unless the line is hung *)
(* up: late and broken answers do not keep the main loop in it.            *)
PollEnds == op = "poll" ~> op = "none" \/ dead

(* Nothing is under way. *)
Clean == pc = "next" /\ line = <<>> /\ owed = <<>> /\ half = NoAnswer

(* On a line that has come to rest and is prompt from now on, every input  *)
(* the reader keeps reaches process_user_info, unless a call hangs.        *)
GoodLineDelivers ==
  \A i \in 1 .. MaxShown :
    weather = "good" /\ Clean /\ (\E k \in 1 .. Len(waiting) : waiting[k] = i)
      ~> (\E k \in 1 .. Len(handed) : handed[k].id = i) \/ Stuck

(* epso.c: "if (!buf_out) return 0;", after the answer was read and        *)
(* checked: a call without a buffer is meant to end as well.               *)
CallEnds == pc # "next" ~> pc = "next" \/ dead
=============================================================================
