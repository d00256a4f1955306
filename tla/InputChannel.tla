---------------------------- MODULE InputChannel ----------------------------
(***************************************************************************)
(* What a reader driver promises process_user_info: cards and PINs shown   *)
(* at the reader are handed over in the order in which they were shown,    *)
(* each at most once, and nothing is handed over that was not shown.  An   *)
(* input may be lost on the way.                                           *)
(*                                                                         *)
(* EpsoLink and OsdpLink implement this specification.                     *)
(***************************************************************************)
EXTENDS Naturals, Sequences

VARIABLES
  shown,   \* the inputs in the order of the users: what each of them was
  handed   \* the inputs handed over: place in shown, and what it was taken for

vars == <<shown, handed>>

Init ==
  /\ shown = <<>>
  /\ handed = <<>>

Show(what) ==
  /\ shown' = Append(shown, what)
  /\ UNCHANGED handed

(* The place after which the next input has to come. *)
Last == IF handed = <<>> THEN 0 ELSE handed[Len(handed)].id

(* A reader that collects card and PIN sends both; the card is taken.      *)
Taken(what) == IF what = "both" THEN "card" ELSE what

HandOver(i) ==
  /\ i > Last /\ i <= Len(shown)
  /\ handed' = Append(handed, [id |-> i, as |-> Taken(shown[i])])
  /\ UNCHANGED shown

Next ==
  \/ \E what \in {"card", "pin", "both"} : Show(what)
  \/ \E i \in 1 .. Len(shown) : HandOver(i)

Spec == Init /\ [][Next]_vars

(* What the channel is for: the inputs handed over were shown, are taken   *)
(* for what they were, and keep the order of the users, none coming twice. *)
InOrder ==
  /\ \A k \in 1 .. Len(handed) :
       /\ handed[k].id \in 1 .. Len(shown)
       /\ handed[k].as = Taken(shown[handed[k].id])
  /\ \A j, k \in 1 .. Len(handed) : j < k => handed[j].id < handed[k].id
=============================================================================
