--------------------------- MODULE MCRemoteControl ---------------------------
(***************************************************************************)
(* Instances of RemoteControl for TLC.                                     *)
(***************************************************************************)
EXTENDS RemoteControl

Closed == {DI_IS_DOOR_CLOSE, DI_IS_DOOR_LOCK}
Button == Closed \cup {DI_MANUAL_OPEN}
ClosedOrOpen == {Closed, {}}
ButtonEvents == {Closed, Button}

OneBit == [d \in Door |-> {0}]
OwnOutput == [d \in Door |-> d]
Pair == [d \in Door |-> 1 - d]
GrantOne == [d \in Door |-> {{0}}]
NoGrants == [d \in Door |-> {}]
PowerUpReleased == {[o \in Output |-> "unlock"]}
PowerUpLocked == {[o \in Output |-> "lock"]}

Cmd(c, d, a1, a2) ==
  [cmd |-> c, door |-> d, arg1 |-> a1, argX |-> TRUE, arg2 |-> a2]

(* Set and unset for both doors, every other command for door 0, and the   *)
(* datagrams that are refused.                                             *)
AllCommands ==
  {Cmd("set", d, a, maskFull[d]) : d \in Door, a \in Mode}
    \cup {Cmd("unset", d, a, {}) : d \in Door, a \in Mode}
    \cup {Cmd("do", 0, a, {0}) : a \in Mode \cup {"block", "unblock"}}
    \cup {Cmd("unset", 0, "other", {}), Cmd("get", 0, "info", {}),
          Cmd("set", NoDoor, "lock", {0}),
          [Cmd("set", 0, "lock", {}) EXCEPT !.argX = FALSE],
          Cmd("do", 0, "other", {})}

(* Set and unset for both doors of an airlock. *)
SetCommands ==
  {Cmd("set", d, a, {0}) : d \in Door, a \in Mode}
    \cup {Cmd("unset", d, a, {}) : d \in Door, a \in Mode}
=============================================================================
