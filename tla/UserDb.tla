------------------------------- MODULE UserDb -------------------------------
(***************************************************************************)
(* user_db.c: which sub-doors of a door the stored credentials open.  The  *)
(* users database is read only.  Rows are the rows of the join of users,   *)
(* user_door and doors for the door of the reader; md5 of a PIN stands for *)
(* the PIN, and an empty pin column is the empty PIN.                      *)
(***************************************************************************)
EXTENDS Integers, Sequences

CONSTANTS
  Card,      \* card numbers
  NoCard,    \* cardLen = 0
  Digit,     \* digits on the keypad
  Rows       \* the joined rows for this door

MODE_CARD == 1
MODE_PIN == 2
MODE_CARD_OR_PIN == 16
MODE_CARD_AND_PIN == 32
MODE_CARD_AND_PIN_ALWAYS == 48
MODE_TWO_CARDS == 64

UserRow ==
  [card : Card, pin : Seq(Digit), expire : Nat, allow_no_pin : BOOLEAN,
   subdoor : 0 .. 31]

ASSUME UserDbAssumption ==
  /\ NoCard \notin Card
  /\ \A row \in Rows : row \in UserRow

(* The WHERE part of the query. *)
Selected(row, pin, card, mode) ==
  IF mode = MODE_PIN THEN row.pin = pin ELSE row.card = card

(* The body of the loop over the rows: FALSE where it continues.  pin_md5  *)
(* is the empty string in MODE_CARD_AND_PIN.                               *)
Accepted(row, pin, mode, now) ==
  /\ now <= row.expire
  /\ mode = MODE_CARD_AND_PIN_ALWAYS => row.pin = pin
  /\ mode = MODE_CARD_AND_PIN => row.pin = <<>> \/ row.allow_no_pin

getAccessMask2(pin, card, mode, now) ==
  {row.subdoor : row \in {r \in Rows : /\ Selected(r, pin, card, mode)
                                       /\ Accepted(r, pin, mode, now)}}

(* The query has "AND AND" and a missing AND: sqlite3_prepare_v2 refuses   *)
(* it, sqlite3_step on the null statement returns no row, the mask is 0.   *)
checkKeyAccess2(card1, card2) == {}
=============================================================================
