---------------------------- MODULE RemoteControl ----------------------------
(***************************************************************************)
(* remoteControl.c: the commands check_network handles between two cycles  *)
(* of the main loop, the state database they are stored in, and the replay *)
(* of that database when the program starts again.                         *)
(*                                                                         *)
(* A "set" changes the door first and then runs two SQL statements, each   *)
(* of which may fail and between which the program may be killed; they are *)
(* steps of their own.                                                     *)
(***************************************************************************)
EXTENDS DoorController, Sequences

CONSTANTS
  Commands,   \* the datagrams that may arrive
  DbMayFail   \* can a statement on the state database fail?

(* A datagram "cmd door arg1 argX"; argX tells whether the fourth word is  *)
(* there, arg2 is its value as a mask.  Door NoDoor stands for a name      *)
(* getDoorByName does not find and for a missing word.                     *)
Mode == {"lock", "unlock"}
Command ==
  [cmd  : {"get", "set", "unset", "do", "other"},
   door : Door \cup {NoDoor},
   arg1 : Mode \cup {"block", "unblock", "info", "dbinfo", "other"},
   argX : BOOLEAN,
   arg2 : SUBSET Bit]
NoCommand ==
  [cmd |-> "other", door |-> NoDoor, arg1 |-> "other", argX |-> FALSE, arg2 |-> {}]

ASSUME RemoteAssumption ==
  /\ Commands \subseteq Command
  /\ DbMayFail \in BOOLEAN

VARIABLES
  db,       \* the rows of table 'state', in rowid order
  pending,  \* the "set" command whose SQL statements are running
  dbOk,     \* ret == 0 so far
  acked     \* history: per door the last "set" answered OK and not followed
            \* by another set or unset of that door, NoCommand if none

rcvars == <<st, phase, cur, booted, db, pending, dbOk, acked>>
rest == <<db, pending, dbOk, acked>>

(* Commands without those that take a blockade back on purpose: "set"      *)
(* clears airLockMask before it moves the door, and "do unblock" is made   *)
(* for it.                                                                 *)
NoOverride ==
  \A c \in Commands : c.cmd # "set" /\ ~(c.cmd = "do" /\ c.arg1 = "unblock")

-----------------------------------------------------------------------------
(* The state database: UNIQUE(door, mode), INSERT OR REPLACE gives the row *)
(* a new rowid at the end, SELECT * returns the rows in rowid order.       *)
Row == [door : Door, mode : Mode, arg : SUBSET Bit]

db_unset(rows, d, mode) ==
  LET kept[i \in 0 .. Len(rows)] ==
        IF i = 0 THEN <<>>
        ELSE IF rows[i].door = d /\ rows[i].mode = mode THEN kept[i - 1]
        ELSE Append(kept[i - 1], rows[i])
  IN kept[Len(rows)]

(* Mutant: INSERT in the place of INSERT OR REPLACE. *)
db_set_insert(rows, d, mode, arg) ==
  Append(rows, [door |-> d, mode |-> mode, arg |-> arg])

db_set(rows, d, mode, arg) ==
  Append(db_unset(rows, d, mode), [door |-> d, mode |-> mode, arg |-> arg])

(* One iteration of the loop of init_remote_control over the rows.         *)
restore_row(s, row) ==
  LET d == row.door
      o == IF row.mode = "unlock" THEN unlock_door(s, d, row.arg)
                                  ELSE lock_door(s, d, row.arg)
  IN IF d \notin Polled THEN s
     ELSE signalDoorStatus([o EXCEPT !.admDisableMask[d] = row.arg], d)

init_remote_control(s, rows) ==
  LET restored[i \in 0 .. Len(rows)] ==
        IF i = 0 THEN s ELSE restore_row(restored[i - 1], rows[i])
  IN restored[Len(rows)]

(* The mask the replay of the rows leaves in admDisableMask of door d.     *)
StoredMask(rows, d) ==
  LET own == {i \in 1 .. Len(rows) : rows[i].door = d}
  IN IF own = {} THEN {} ELSE rows[CHOOSE i \in own : \A j \in own : j <= i].arg

-----------------------------------------------------------------------------
(* check_network *)

RCInit ==
  /\ Init
  /\ db = <<>>
  /\ pending = NoCommand
  /\ dbOk = TRUE
  /\ acked = [d \in Door |-> NoCommand]

Loop ==
  /\ LoopStep \/ NoDatagram
  /\ UNCHANGED rest

(* The datagram c was received; handling it ends this round of the loop.   *)
Receive(c) ==
  /\ phase = "network"
  /\ c \in Commands

Answered ==
  /\ phase' = LoopStart
  /\ UNCHANGED <<cur, booted>>

(* The door part of "set": both masks are cleared, the door is moved, and  *)
(* then the administrative block is put in place.                          *)
set_door(s, c) ==
  LET z == [s EXCEPT !.admDisableMask[c.door] = {}, !.airLockMask[c.door] = {}]
      o == IF c.arg1 = "unlock" THEN unlock_door(z, c.door, c.arg2)
                                ELSE lock_door(z, c.door, c.arg2)
  IN [o EXCEPT !.admDisableMask[c.door] = c.arg2]

Set(c) ==
  /\ Receive(c)
  /\ c.cmd = "set" /\ c.door \in Polled /\ c.argX /\ c.arg1 \in Mode
  /\ st' = set_door(st, c)
  /\ phase' = "dbDelete"
  /\ pending' = c
  /\ dbOk' = TRUE
  /\ acked' = [acked EXCEPT ![c.door] = NoCommand]
  /\ UNCHANGED <<cur, booted, db>>

(* Mutant: "set" deletes the row it is about to write. *)
Other_same(mode) == mode

Other(mode) == IF mode = "lock" THEN "unlock" ELSE "lock"

SetDelete ==
  /\ phase = "dbDelete"
  /\ \/ db' = db_unset(db, pending.door, Other(pending.arg1)) /\ UNCHANGED dbOk
     \/ DbMayFail /\ dbOk' = FALSE /\ UNCHANGED db
  /\ phase' = "dbInsert"
  /\ UNCHANGED <<st, cur, booted, pending, acked>>

(* The second statement, signalDoorStatus and the answer: OK only if both  *)
(* statements succeeded.                                                   *)
SetInsert ==
  /\ phase = "dbInsert"
  /\ \/ /\ db' = db_set(db, pending.door, pending.arg1, pending.arg2)
        /\ acked' = IF dbOk THEN [acked EXCEPT ![pending.door] = pending] ELSE acked
     \/ DbMayFail /\ UNCHANGED <<db, acked>>
  /\ st' = signalDoorStatus(st, pending.door)
  /\ pending' = NoCommand
  /\ dbOk' = TRUE
  /\ Answered

(* "unset": the door is touched only if the DELETE succeeded and the mode  *)
(* is one of the two; the row of the other mode is left alone.             *)
Unset(c) ==
  /\ Receive(c)
  /\ c.cmd = "unset" /\ c.door \in Polled
  /\ \/ /\ db' = db_unset(db, c.door, c.arg1)
        /\ st' = IF c.arg1 \in Mode
                 THEN signalDoorStatus([st EXCEPT !.admDisableMask[c.door] = {}],
                                       c.door)
                 ELSE st
        /\ acked' = IF c.arg1 \in Mode
                    THEN [acked EXCEPT ![c.door] = NoCommand] ELSE acked
     \/ DbMayFail /\ UNCHANGED <<db, st, acked>>
  /\ UNCHANGED <<pending, dbOk>>
  /\ Answered

(* Mutant: "do unlock" takes the blockade back first, as "set" does. *)
DoUnlock_override(c) ==
  /\ Receive(c)
  /\ c.cmd = "do" /\ c.door \in Polled /\ c.argX /\ c.arg1 = "unlock"
  /\ LET z == [st EXCEPT !.airLockMask[c.door] = {}]
     IN st' = signalDoorStatus(unlock_door(z, c.door, c.arg2), c.door)
  /\ Answered /\ UNCHANGED rest

DoUnlock(c) ==
  /\ Receive(c)
  /\ c.cmd = "do" /\ c.door \in Polled /\ c.argX /\ c.arg1 = "unlock"
  /\ st' = IF unlock_mask(st, c.door, c.arg2) = {} THEN st
           ELSE signalDoorStatus(unlock_door(st, c.door, c.arg2), c.door)
  /\ Answered /\ UNCHANGED rest

(* Mutant: "do lock" frees the partner although the door may be open. *)
DoLock_release(c) ==
  /\ Receive(c)
  /\ c.cmd = "do" /\ c.door \in Polled /\ c.argX /\ c.arg1 = "lock"
  /\ LET p == airLockPartnerLocal[c.door]
     IN st' = [lock_door(st, c.door, c.arg2) EXCEPT !.airLockMask[p] = {}]
  /\ Answered /\ UNCHANGED rest

DoLock(c) ==
  /\ Receive(c)
  /\ c.cmd = "do" /\ c.door \in Polled /\ c.argX /\ c.arg1 = "lock"
  /\ st' = IF lock_mask(st, c.door, c.arg2) = {} THEN st
           ELSE signalDoorStatus(lock_door(st, c.door, c.arg2), c.door)
  /\ Answered /\ UNCHANGED rest

DoBlock(c) ==
  /\ Receive(c)
  /\ c.cmd = "do" /\ c.door \in Polled /\ c.argX /\ c.arg1 \in {"block", "unblock"}
  /\ st' = [st EXCEPT !.airLockMask[c.door] =
              IF c.arg1 = "block" THEN @ \cup c.arg2 ELSE @ \ c.arg2]
  /\ Answered /\ UNCHANGED rest

(* "get", and every datagram that is answered with ERR: a missing word, an *)
(* unknown door, command or first argument.                                *)
NoEffect(c) ==
  /\ Receive(c)
  /\ \/ c.door \notin Polled
     \/ c.cmd \in {"get", "other"}
     \/ c.cmd = "set" /\ ~(c.argX /\ c.arg1 \in Mode)
     \/ c.cmd = "do" /\ ~(c.argX /\ c.arg1 \in Mode \cup {"block", "unblock"})
  /\ Answered /\ UNCHANGED <<st, rest>>

check_network ==
  \/ \E c \in Commands :
       Set(c) \/ Unset(c) \/ DoUnlock(c) \/ DoLock(c) \/ DoBlock(c) \/ NoEffect(c)
  \/ SetDelete
  \/ SetInsert

(* The program is killed at any point and started again: memory is lost,   *)
(* the rows and the LEDs are not, and the relays hold their state or, if   *)
(* the power was lost as well, come up in a state of PowerUp.              *)
Restart ==
  /\ \E out \in PowerUp \cup {st.output} :
       st' = init_remote_control(StartState(out, st.led), db)
  /\ phase' = LoopStart
  /\ cur' = 0
  /\ booted' = FALSE
  /\ pending' = NoCommand
  /\ dbOk' = TRUE
  /\ UNCHANGED <<db, acked>>

RCNext == Loop \/ check_network \/ Restart

RCSpec == RCInit /\ [][RCNext]_rcvars

-----------------------------------------------------------------------------
(* Properties *)

(* The rows of the state database and the command in progress keep their   *)
(* types, and UNIQUE(door, mode) holds.                                    *)
RCTypeOK ==
  /\ st \in State
  /\ phase \in Phase \cup {"dbDelete", "dbInsert"}
  /\ cur \in Door /\ booted \in BOOLEAN
  /\ db \in Seq(Row)
  /\ \A i, j \in 1 .. Len(db) :
       db[i].door = db[j].door /\ db[i].mode = db[j].mode => i = j
  /\ pending \in Commands \cup {NoCommand}
  /\ dbOk \in BOOLEAN
  /\ acked \in [Door -> Commands \cup {NoCommand}]

AdmOutputs(d) ==
  ShiftLeft(maskFull[d] \cap st.admDisableMask[d], maskOffset[d]) \cap Output

(* The OK that answers a "set" is a promise that outlives crashes: until   *)
(* the next set or unset of that door its administrative block is in       *)
(* force, and a door that was set to lock is locked, through every failed  *)
(* statement, restart and power loss.                                      *)
AckedSetDurable ==
  \A d \in Door : acked[d] # NoCommand =>
    /\ st.admDisableMask[d] = acked[d].arg2
    /\ StoredMask(db, d) = acked[d].arg2
    /\ acked[d].arg1 = "lock" =>
         \A o \in AdmOutputs(d) : st.output[o] = "lock"

SetOn(d) == phase = "network" /\ phase' = "dbDelete" /\ pending'.door = d

(* door_controller.h on admDisableMask: "the door will remain in current   *)
(* state - locked or unlocked".  Only another "set" of the door, or a      *)
(* restart, moves a blocked output: no reader, button, timer or command    *)
(* does.                                                                   *)
AdmFreezes ==
  [][\A d \in Door : ~SetOn(d) /\ ~Restart =>
       \A o \in AdmOutputs(d) : st'.output[o] = st.output[o]]_rcvars

(* door_controller.h on airLockMask: "temporary block mask for unlock      *)
(* operation".  Nothing but a "set" of the door, or a restart, releases an *)
(* output that is blocked.                                                 *)
BlockHolds ==
  [][\A d \in Door : ~SetOn(d) /\ ~Restart =>
       \A o \in ShiftLeft(maskFull[d] \cap st.airLockMask[d], maskOffset[d])
                  \cap Output :
         st.output[o] = "lock" => st'.output[o] = "lock"]_rcvars

(* door_controller.h on airLockPartner: "used to set lock on it when our   *)
(* door is unlock or open".  As soon as no administrative block is in      *)
(* force on either door, the airlock protects again.                       *)
AirlockBackAfterUnset ==
  \A d \in Visited :
    /\ HasPartner(d) /\ (Unlocked(st, d) \/ Opened(st, d))
    /\ st.admDisableMask[d] = {} /\ st.admDisableMask[airLockPartnerLocal[d]] = {}
    => Blocked(st, airLockPartnerLocal[d])
=============================================================================
