-------------------------- MODULE MCAccessController --------------------------
(***************************************************************************)
(* Instances of AccessController for TLC: an airlock with one reader at    *)
(* each door, the first for card and PIN, the second for the card alone.   *)
(***************************************************************************)
EXTENDS AccessController

CONSTANT c1

Closed == {DI_IS_DOOR_CLOSE, DI_IS_DOOR_LOCK}
ClosedButton == Closed \cup {DI_MANUAL_OPEN}
DoorEvents == {Closed, ClosedButton, {}}

OneBit == [d \in Door |-> {0}]
OwnOutput == [d \in Door |-> d]
Pair == [d \in Door |-> 1 - d]
GrantOne == [d \in Door |-> {{0}}]
AllReleased == {[o \in Output |-> "unlock"]}

(* "do" commands that do not take a blockade back. *)
Do(d, a) == [cmd |-> "do", door |-> d, arg1 |-> a, argX |-> TRUE, arg2 |-> {0}]
DoCommands ==
  {Do(d, a) : d \in Door, a \in {"lock", "unlock"}} \cup {Do(0, "block")}

(* A user with card and PIN on both doors. *)
User ==
  [card |-> c1, pin |-> <<1>>, expire |-> 9, allow_no_pin |-> FALSE, subdoor |-> 0]
OneUser == [d \in Door |-> {User}]

(* The instance is one the theorems about the airlock speak of.            *)
ASSUME InstanceAssumption == AirlockPairs /\ DisjointOutputs /\ NoOverride
=============================================================================
