-------------------------- MODULE MCDoorController --------------------------
(***************************************************************************)
(* Instances of DoorController for TLC: the doors of one Orange Pi board   *)
(* as an airlock, a single door with several sub-doors, and the bytes the  *)
(* input lines may show.                                                   *)
(***************************************************************************)
EXTENDS DoorController

Closed == {DI_IS_DOOR_CLOSE, DI_IS_DOOR_LOCK}
Open == {}
ClosedButton == Closed \cup {DI_MANUAL_OPEN}
OpenEmergency == {DI_IS_EMERGENCY_OPEN}
ClosedEmergency == {DI_IS_DOOR_CLOSE, DI_IS_EMERGENCY_OPEN}

(* Two doors that are airlock partners, one output each. *)
PairMaskFull == [d \in Door |-> {0}]
PairOffset == [d \in Door |-> d]
PairPartner == [d \in Door |-> 1 - d]

(* Two doors of two sub-doors each: a grant may be for one or for both.    *)
SubMaskFull == [d \in Door |-> {0, 1}]
SubOffset == [d \in Door |-> 2 * d]
SubGrants == [d \in Door |-> IF d = 0 THEN {{0}, {1}} ELSE {{0, 1}}]

(* One door without a partner, as the command line -n -m -s makes it.      *)
SoloMaskFull == [d \in Door |-> {0, 1, 2, 3}]
SoloOffset == [d \in Door |-> 0]
NoPartner == [d \in Door |-> NoDoor]
NoGrants == [d \in Door |-> {}]

(* Power-up finds every relay locked or every relay released.              *)
AllOrNothing == {[o \in Output |-> v] : v \in LockState}

AllEvents == {Closed, Open, ClosedButton, OpenEmergency, ClosedEmergency}
DoorEvents == {Closed, Open, ClosedButton}
ClosedOrOpen == {Closed, Open}

(* The instances are configurations the theorems about doors speak of.     *)
ASSUME InstanceAssumption == AirlockPairs /\ DisjointOutputs /\ RelaysExist /\ FourLines
=============================================================================
