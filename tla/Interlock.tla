------------------------------ MODULE Interlock ------------------------------
(***************************************************************************)
(* What the airlock of the controller promises, without masks, timers or   *)
(* a loop: every door is released or not and open or not, doors change one *)
(* at a time, and a door is released only while its airlock partner is     *)
(* neither released nor open.  People open and close doors as they like.   *)
(*                                                                         *)
(* DoorController implements this specification (ImplementsInterlock).     *)
(***************************************************************************)
CONSTANTS
  Doors,    \* the doors of the installation
  partner   \* [Doors -> any]: the airlock partner, outside Doors if none

VARIABLES
  released,  \* the doors whose lock is released
  open       \* the doors that stand open

vars == <<released, open>>

Init ==
  /\ released = {}
  /\ open = {}

Free(d) == partner[d] \notin released \cup open

Release(d) == Free(d) /\ released' = released \cup {d}
Lock(d) == released' = released \ {d}
Keep == UNCHANGED released

(* The door sensor of d. *)
Sense(d) == open' \in {open, open \cup {d}, open \ {d}}

Next == \E d \in Doors : (Release(d) \/ Lock(d) \/ Keep) /\ Sense(d)

Spec == Init /\ [][Next]_vars

-----------------------------------------------------------------------------
(* Two doors that are each other's partner are never released together.    *)
Exclusion ==
  \A d, e \in released : ~(partner[d] = e /\ partner[e] = d /\ d # e)
=============================================================================
