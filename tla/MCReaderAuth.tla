---------------------------- MODULE MCReaderAuth ----------------------------
(***************************************************************************)
(* Instances of ReaderAuth for TLC: a user with card and PIN, one who may  *)
(* enter without PIN and one whose access expires, and an unknown card.    *)
(***************************************************************************)
EXTENDS ReaderAuth

CONSTANTS c1, c2, c3

User(c, p, e, n, s) ==
  [card |-> c, pin |-> p, expire |-> e, allow_no_pin |-> n, subdoor |-> s]

(* c1 has PIN 12 and expires, c2 has PIN 2 and may leave it out; c3 is in  *)
(* no row, as a lost card would be.                                        *)
UserRows == {User(c1, <<1, 2>>, 0, FALSE, 0), User(c2, <<2>>, 9, TRUE, 1)}
=============================================================================
