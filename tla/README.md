# A TLA+ model of the door controller

This directory models the access controller in `src/`: a single-threaded daemon
that polls card and PIN readers, releases electric locks through GPIO outputs,
watches door sensors and buttons, keeps the two doors of an airlock apart, takes
commands over UDP and reports events to other hosts. TLC checks the modules on
small instances; TLAPS proves the most important properties for every
configuration. `PROJECT.json` lists the runs, the mutants, the source lines of
each definition, the findings, the hazards and the theorems.

## The system

| part | state | operations | talks to |
|---|---|---|---|
| main loop (`door_controller.c`) | the `Door` array: last input byte, close-door and alarm timers, administrative and airlock masks | `mainLoop`, `unlock_door`, `lock_door`, `airLockOnPartner`, `check_inputs` | readers, GPIO, partner `Door`, events |
| authorisation (`door_controller.c`) | a `DoorReader` per reader: collected card, second card, PIN, two-factor timer | `process_user_info`, `two_factor_timer`, `resetDoorAuth` | called by the reader driver; asks the users database; calls `unlock_door` |
| users database (`user_db.c`) | SQLite, read only | `getAccessMask2`, `checkKeyAccess2` | - |
| GPIO (`gpio-orangepizero.c`) | the relays themselves (they survive a restart) | `set_door_state`, `get_input_state` | libgpiod |
| remote control (`remoteControl.c`) | SQLite table `state` | `check_network` (get, set, unset, do), `init_remote_control` (replay at start) | changes `Door`s between two cycles |
| start-up (`main.c`) | `doors`, `doorsCount` | option and configuration parsing, order of initialisation | everything |
| Idesco reader (`reader-idesco.c`, `osdp.c`) | PIN buffer, serial port | `get_reader_data`, `clear_reader_data`, `reader_signal`; `send_packet`, `recv_packet`, `process_packet`, `portsetup` | an OSDP line; calls `process_user_info` |
| Roger reader (`reader-roger.c`, `epso.c`) | serial port | the same interface; `epso_write_read`, `readCardPin` | an EPSO line; calls `process_user_info` |
| events (`eventSend.c`) | the messages of detached threads | `sendEvent`, `remotePrintf`, `tcpSend` | the log host, `wget` |

What is hard here. There is one main thread, but its steps interleave with a
world that does not wait: in one cycle each door counts down its timer, polls two
readers (either of which may release a lock), and only afterwards are the input
lines sampled, so every decision about a door uses an input byte that may be a
cycle old. The airlock is kept by two masks that each door writes into the
*other* door. Remote commands change the same fields between cycles, in two SQL
statements that can fail or be cut off by a crash; the relays keep their state
over that crash while the masks and timers do not. Authorisation collects two
factors over several cycles while a timer, a second user or an expiry date
intervenes. The reader protocols do not number their requests, so that a late
answer is taken for the answer to another poll; a driver call that does not return
stops every door. The threads that send the log share a heap and a host.

## Modules

The doors and the program:

* `Door` - no variables. The `Door` structures, the outputs and the last status
  signal of each door as one record `State`, and each C function as an operator
  from the state before the call to the state after it, with the calls it makes
  inside: `unlock_door`, `lock_door`, `airLockOnPartner`, `signalDoorStatus`,
  `door_timer`, `check_input`, and the GPIO functions under them. A `uint32_t`
  mask is the set of its one bits.
* `DoorController` - the main loop. `phase` and `cur` are the program counter and
  the loop index, so that a step is one door's timer (`DoorTimer`), one grant
  (`Grant`), the move to the next door (`NextDoor`), the one read of all lines
  (`ReadInputs`), or one iteration of `check_inputs` (`CheckInput`); `NoDatagram`
  closes the cycle. The environment chooses grants and input bytes. `booted` is a
  history variable: it says from when on the doors are under control, because a
  relay may be found released at the start and is locked by the first timer tick.
* `Interlock` - the abstract specification of the airlock, without masks, timers
  or a loop: a door is released only while its partner is neither released nor
  open. `DoorController` implements it (`ImplementsInterlock`): released are the
  visited doors with a released output, open those whose last input byte has no
  "closed" bit.
* `RemoteControl` - extends `DoorController` by `check_network`. `Set` is split
  where the code can be interrupted: the change of the door, the DELETE
  (`SetDelete`), the INSERT with the answer (`SetInsert`); each statement may
  fail. `Restart` may happen in any state; it rebuilds memory from the database,
  in rowid order, with the relays as they were or as the power-up leaves them.
  `acked` is a history variable: the last `set` that was answered OK.
* `UserDb` - the queries as set comprehensions over the joined rows; MD5 and the
  SQL text are abstracted, the filters and their order are not.
* `ReaderAuth` - one `DoorReader` with the Idesco driver in front of it: the poll
  answers (card, short card, key presses one by one, nothing), the PIN buffer,
  `two_factor_timer`, and `process_user_info` as `process_pin`, `process_card`,
  `process_out_of_buf`, each ending in `conclude`. `seen` is a history variable
  kept from outside the program: what was last presented and how many cycles ago.
* `AccessController` - the whole program: `RemoteControl` with two instances of
  `ReaderAuth`, at two doors or as `readerA` and `readerB` of one, in the place of
  the open grants. What a reader grants and what it does to the door are one step,
  as in the code, where `process_user_info` calls `unlock_door`; the timers of a
  door and of its readers are one step, as in `mainLoop`; a restart initialises
  the readers again.

The lines and the network:

* `InputChannel` - what a driver promises `process_user_info`: inputs are handed
  over in the order in which they were shown, each at most once, and none that was
  not shown. They may be lost.
* `OsdpLink` - the Idesco driver on packets: a request, a sleep, one read of what
  the tty holds, the first packet of which counts. Answers may be late, lost,
  garbled; the device may be unplugged and come back while the driver closes and
  opens its port. `res` is the stack slot of `struct osdp_response`, which
  `get_reader_data` reads whether or not `process_packet` wrote it.
* `EpsoLink` - the Roger driver: `epso_write_read` with its two `select`
  time-outs, an answer being two fragments so that a read may fall between them;
  the checksum, `readCardPin` and what `get_reader_data` takes; failing reads,
  ignored commands, a hang-up.
* `EventSend` - `sendEvent` in the main thread and a detached `tcpSend` thread for
  each line: `malloc` and `free` of the message, name look-up, the addresses one
  after another, the report of a line that could not be sent. `remotePrintf` checks
  nothing: if `malloc` fails the line is written through a null pointer
  (`NoMemory`), if `pthread_create` fails the message is left without an owner and
  an uninitialised id is detached (`ThreadRefused`). `NoEventName` is the read past
  the end of `eventNames`. A thread may take the process with it, too: `SIGPIPE` is
  not handled, and `netInfo` is freed although a failed look-up leaves it
  uninitialised.

`MCDoorController`, `MCRemoteControl`, `MCReaderAuth` and `MCAccessController` are
the instances for TLC; `OsdpLink`, `EpsoLink` and `EventSend` need none. The
`InstanceAssumption` of the first and the last says that TLC checks configurations
the theorems speak of. The modules `*_proofs` hold the theorems.

Definitions marked *external* in the map model what is not in `src/`, from how
`src/` uses it: the readers at the far end of a line and the line (`Answer`,
`Lose`, `ClearUp`, ...), the users who show something, the log host and its name
service.

Operators whose comment begins with "Mutant" are deliberate faults. Nothing uses
them; they document, for each property, a change of the code that it notices.

## Runs

Passing:

| run | shows |
|---|---|
| `airlock` | two airlock doors of two sub-doors, all events, failing reads: never both released (`AirlockExclusion`), a released or open door blocks its partner (`PartnerBlocked`), no step releases a lock against an open partner (`UnlockRespectsPartner`), the loop implements `Interlock`, the timer and the LED agree with the outputs, a button releases a lock on its edge only (`ManualOpenIsEdge`: a held button acts once, and once more after each failed read); `AirlockInv`, the inductive invariant of the proof; and, under fairness, every door is locked after a start and again after a grant unless it is granted anew for ever (`StartLocks`, `LocksAgain`), a door left open repeats its alarm (`AlarmRepeats`), and a door that is used and stays closed gives its partner back again and again (`BlockadeEnds`) |
| `remote_set` | all commands with failing statements and a crash anywhere: an acknowledged `set` is in force until the next `set` or `unset` of the door (`AckedSetDurable`), a blocked output does not move (`AdmFreezes`), and no command but `set` releases a lock under the airlock block (`BlockHolds`) |
| `auth` | all six modes: whatever is granted belongs to a user who is not expired and all of whose factors the mode asks for were the last ones presented, within the two-factor time (`GrantNeedsFactors`, `FactorsAreFresh`); under fairness a first factor is used or forgotten (`FactorsForgotten`) |
| `system` | the program with readers for card-and-PIN and for the card at the two doors of an airlock, `do` commands, buttons, sensors, restarts with power loss: every release of a lock goes back to an entitled user at a reader of that very door, the button, a command or a restart (`ReleasesAreAuthorised`), and the airlock holds through all of it |
| `osdp` | late, lost and unreadable answers, a port that is lost and reopened: the driver implements `InputChannel`, and on an open line that has come to rest no input the reader keeps is overlooked (`GoodLineDelivers`) |
| `roger` | the same two for the Roger driver with fragments and failing reads; and every poll ends (`PollEnds`) unless the line is hung up |
| `events` | three lines, two addresses, failing allocations, thread creations, look-ups, connections and sends: every message that a thread took over has that one owner until it is freed, and a thread that could not be created leaks one block and no more (`MessagesOwned`), no line is sent twice (`LinesOnce`), a thread that has ended has either sent its line or reported it (`LostIsReported`); the main loop goes on whatever the threads wait for (`MainGoesOn`), and the threads end if they are scheduled (`ThreadsEnd`) |

Violated, each by what the code does against a sentence of the repository (see
`findings`):

| run | shows |
|---|---|
| `stale_close` | closing a door after its timer ran out does not free the partner, since the check reads the byte of the cycle before |
| `gpio_failure` | a failed read of the lines releases the lock |
| `set_airlock` | `set` discards the airlock blockade and `unset` does not bring it back |
| `bad_crc` | the result of `process_packet` is ignored: after an answer with a bad CRC the response an earlier poll left on the stack is handed over again |
| `roger_hang` | a command of the Roger driver that is answered never returns: without a buffer `read` fetches nothing and `select` keeps saying that there is something |

Disagreements that are a single assignment or guard have no run of their own; they
are read off the modules and listed under `hazards`: started from the command line
with `-n -m -s` the program counts no doors and visits none (`doorsCount`,
`main.c:237`); `do lock` leaves the close-door timer running; `unset` of the other
mode lifts a block that is still stored and comes back with the next start; an
abandoned PIN entry never times out, since `mainLoop` polls without the time-out
of the driver. What the airlock keeps in spite of a running timer or a `do`
command is checked in `system`; that the partner is given back at all is
`BlockadeEnds`.

### Bounds

All counters of the program are themselves bounded by constants
(`DOOR_OPEN_TIME`, `ALARM_RESEND_TIMER`, `TWO_FACTOR_TIME`, the PIN lengths),
which the instances set to 1, 2 or 3. The interesting values are "just set", "one
left", "zero" and, for the close-door timer, one value in between, so that a
grant can fall before, at and after the time-out; larger values only add more
cycles in which nothing is decided. Two doors are enough for the airlock of one
pair; two sub-doors tell a granted part of a door from the whole of it. Two
digits, PINs of up to two in a buffer of three and three cards give a right, a
wrong, a too long and an empty PIN, a card of another user, an unknown card and a
card that is too long. `MaxTime` bounds the clock: time 0 and 1 lie before and
after an expiry. `Commands` and `Inputs` are small sets of datagrams and bytes;
in `airlock` the bytes are the five combinations of closed, open, button and
emergency that the handlers tell apart. `system` has one card, one digit and one
sub-door per door, since `auth` has the others; a two-factor time of 2 lets a
factor live over a cycle; its `do` commands include `block` but not `unblock`,
which takes a blockade back on request. `doorA` and `doorB` differ in the run; the
proof covers two readers of one door as well.

`MaxShown` 2 and `MaxOwed` 2 give two inputs and two late answers, which is what
it takes to swap, repeat or overlook one. `BUF_FRAGMENTS` 8 holds what two late
answers, an acknowledgement and the own one come to. A bigger backlog would fill
the buffer, and the loop of `epso.c:127-140` would then spin as `roger_hang` shows
for a buffer of no bytes; that the readers do not owe `BUF_SIZE` bytes of answers
is an assumption of `PollEnds`. `MaxEvents` 3 with three blocks gives three
threads that overlap in every order and reuse each other's blocks;
`malloc` may fail at any time, not only when the three are in use.
`StreamCounts` 1 and 2 let the first address fail and a next one exist.

The theorems have none of these bounds.

### Fairness

`WF_vars(Next)` of the loop: it is an endless loop without blocking calls (the
OSDP port is opened non-blocking, `select` has a time-out, events are sent by
threads and background processes). For the Idesco readers that is so by
construction; for the Roger readers it needs that the calls of the driver return,
which is what `PollEnds` checks and `roger_hang` and a hang-up of the tty refute:
the liveness properties of the loop speak of a controller whose driver does not
hang. `WF_vars(NextDoor)` and, in `ReaderAuth`, `WF_vars(PollDone)`: one poll
handles one packet of finitely many bytes, so it does not deliver key presses for
ever. In `OsdpLink` and `EpsoLink` the driver runs, `select` returns when its time
is over, and the reader answers what it does not ignore. In `EventSend` only the
main thread is known to run, since a thread may wait in `getaddrinfo` or `connect`
as long as it likes; `ThreadsEnd` names the scheduling of the threads as its own
premise. Nothing is assumed about people, sensors or commands.

## Proofs

**Types.** `TypeCorrect`: `Spec => []TypeOK`, for any number of doors, any masks,
offsets, partners, grants and inputs, with and without failing reads. It rests on
one lemma per function of `door_controller.c` that says which fields the function
writes and with what; all later proofs about doors use only these lemmas.

**The airlock.** `AirlockInvariant`, `AirlockSafe`, `PartnerStaysBlocked`: for
configurations in which partners name each other (`AirlockPairs`) and no two doors
drive the same output (`DisjointOutputs`) the airlock holds in every reachable
state of the main loop. Both assumptions are properties of the configuration file
that the program does not verify. Exclusion alone is not inductive: nothing in
"not both released" stops the second door from being released in the next step.
`AirlockInv` adds what the code relies on: a released lock has a running timer; a
running timer, or an open door, blocks the partner; at most one of two partners
has a running timer; no administrative block exists (there is no remote control in
this specification); and, for the start, that doors which were not visited still
have the timer value 1 of `main()` and that inputs are not examined before every
door was visited. The last part matters: a door that has not been visited may be
found released without any blockade on its partner. The argument per function:
`unlock_door` goes through only on a door that is not blocked, whose partner
therefore is not counting down; `lock_door` at the time-out locks every output of
the door before the partner is freed, and frees it only if the last byte says
closed; `check_inputs` blocks before it records that the door is open.
`ReleasesRespectPartner` is the action property of the same invariant.

**Refinement.** `LoopImplementsInterlock`: under the same two assumptions every
step of the loop is a step of `Interlock` or a stutter. The steps that count are a
grant or a button (`Release`, free because the door is not blocked), the time-out
(`Lock`), and `CheckInput`, which may release and sense at once. A door becomes
visited by its timer tick; under `AirlockInv` that tick locks it, so that
nothing becomes released by being visited. `InterlockExcludes` is what the
abstract specification is for.

**Timer, LED and button.** `TimerTellsLock`, `LedTellsLock`: the close-door timer of
a visited door runs exactly while one of its locks is released, and the light of an
open door means a released lock. Besides `DisjointOutputs` they need `RelaysExist`:
every door has an output, and none of its sub-doors lies beyond the four relays of
the board; without one, `unlock_door` starts the timer of a door that has nothing to
release. The invariant (`TimerInv`) treats a door that was not visited apart: it has
the timer value 1 of `main()`, whatever its relays do. `ButtonNeedsEdge`
(`ManualOpenIsEdge`): the only call of `check_inputs` that releases a lock is that of
the button, and it asks for a bit of `InputDiff`. That bit may stand for an edge, or
for bit 7 of the byte before ("differs from everything"). The second case has to be
traced to its source: by an invariant over where `lastInput` comes from (`SampleInv`)
it is the byte `main()` put there or the 0xff of a failed read, provided that the
lines themselves never show bit 7 (`FourLines`). So the code does
not promise that a held button acts once for all: held through a failed read, it
releases the lock again. The
theorem is about the doors that have input lines (`INPUTS_DOORS`); the byte of a
third one is whatever the stack holds.

**Authorisation.** `ReaderTypeCorrect`, `FactorsStayFresh`, `GrantsAreEarned`: for
every users database, every set of cards and digits, every PIN length and
two-factor time, and for a reader whose mode is any of the six. The inductive
invariant is `TypeOK` with `FactorsAreFresh`: a card or PIN that is held is the
last one presented, not older than the count-down allows, and nothing is held
without a running count-down; the modes with one factor never have a count-down,
hence hold nothing between two calls. The last conjunct is needed for
`GrantNeedsFactors`: in `MODE_CARD_OR_PIN` a card kept from an earlier call would
be found by the query that a PIN starts.

**Remote control.** `RemoteTypeCorrect` (the types, and one row for a door and a
mode) and `BlockedOutputsStay`, `BlockadeIsKept` for `AdmFreezes` and `BlockHolds`:
for any commands, with failing statements and restarts at any point;
the latter two need `DisjointOutputs` only. The replay of the rows at the start
and the DELETE are loops over the rows. They are written as recursive functions,
and the induction over the rows is done by their least counterexample (`Least`,
from the well-foundedness of `<`), since an induction rule with an operator as a
parameter is out of the provers' reach. `Frozen` is the step property: the outputs
under either block are as before, or locked.

`AckedSetIsDurable`: the OK that answers a `set` is kept until the next `set` or
`unset` of that door, through other commands, failing statements, crashes and power
losses. What has to be shown is where the truth is at each moment. Between the
change of the door and the answer (`SetDelete`, `SetInsert`) the door is not
acknowledged; from the answer on its row is the only one of the door (`OnlyRow`),
since the DELETE took the row of the other mode and UNIQUE that of the same; hence a
replay of the rows, whichever rows of other doors stand before and after it, ends
with the mask and the position of that row (`ReplayRuns`, with `DisjointOutputs`,
since the row of another door could move a shared output).

`RemoteKeepsAirlock`: with remote commands the airlock still holds if none of them
is `set` or `do unblock` (`NoOverride`), which take a blockade back: `do unblock` on
purpose, `set` as `set_airlock` shows. The invariant is `AirlockInv` and an empty
database. Each remaining command moves a door through `unlock_door`, `lock_door` or a
mask that only grows; a restart begins again from doors that were not visited, with
the relays as they happen to be.

**The whole program.** `ProgramImplementsRemoteControl`: with the readers in place
the program does nothing to the doors that `RemoteControl` with open grants does
not allow, provided that the open grants include the masks the users may be
granted (`GrantsCover`; `AccessController` itself does not use `Grants`, so such a
choice is always possible). `ProgramKeepsBlocks` transfers the two properties of
the blocks and the durability of `set`; `ProgramAirlockSafe` and
`ProgramBlocksPartner` the airlock, under the assumptions of `RemoteKeepsAirlock`. `EveryReleaseIsAuthorised` proves `ReleasesAreAuthorised`, for any
users, doors, readers and commands, also if both readers belong to one door. It joins
the two halves: the invariant of `ReaderAuth_proofs`, instantiated once for each
reader (it survives the steps of the other reader, in which only time passes, and a
restart), says that a granted sub-door belongs to an entitled user; the lemmas on
`unlock_door` say that a released output belongs to a sub-door of the mask. It is
assumed that the reads of the input lines succeed (`GpioMayFail = FALSE`):
`gpio_failure` shows what happens otherwise.

**Events.** `EventTypes`, `MessagesStayOwned`, `NoLineTwice`, `LossesAreReported`,
for any number of lines, blocks and addresses, whichever calls fail. The invariant
says which blocks the threads own, that the rest of the heap holds the lines of
refused threads, that a line is sent only by the step to the end of `tcpSend`, and
what `ret` means at each place. A line is lost in silence in two cases, neither of
which `LossesAreReported` hides: its thread could not be created, so that nothing
ever ends; or the log service has no stream address, so that the loop over the
addresses leaves `ret` at 0 (the theorem assumes `0 \notin StreamCounts`).

**The readers' lines.** `OsdpIsChannel` and `EpsoIsChannel`: both drivers implement
`InputChannel`, for any number of inputs, of requests that were not answered, and of
fragments in the buffer. The drivers cannot tell which request an answer belongs
to, so the invariant (`Ordered`) does not speak of requests. It says that the last
input handed over, those on the way (in the buffer and in the tty) and those the
reader keeps are one increasing sequence, and that each on the way is what was shown
at its place. Steps at the ends of the sequence keep it: an answer takes the first
of those that wait and puts it behind all on the way; a failed read, a time-out, a
port that is closed or a hang-up drop some; a poll hands over the first and drops the
rest. For the Roger driver a tail or a torn byte is of no account, since a row of
whole answers starts with a head (`ParsedIs`). `OsdpIsChannel` assumes that the line
damages no packet behind its first byte (`NoDamage`): `process_packet` is ignored
when it fails, and `bad_crc` shows an input handed over twice. Under `NoDamage` the
property that run refutes is a theorem too (`IntactWithoutDamage`): the ignored
result is the only way to it. `OsdpTypeCorrect` and `EpsoTypeCorrect` come first; for the latter it has to be seen that a call
without a buffer stays in the loop of `epso.c:127-140` because what made the tty
readable is never fetched. `ChannelKeepsOrder` is what `InputChannel` is for.

Only model-checked: all liveness (`StartLocks`, `LocksAgain`, `AlarmRepeats`,
`BlockadeEnds`, `FactorsForgotten`, `GoodLineDelivers`, `PollEnds`, `MainGoesOn`,
`ThreadsEnd`), since fairness and ENABLED are beyond the prover. Every invariant and
every safety property of steps that a passing run checks, and each refinement, is
also a theorem.

## Not modelled

* Parsing of options and of the configuration file: the configuration is a
  constant. (`share/config` and `main.c:179-180` differ in the order of columns.)
* Opening of sockets and databases, logging and its texts, MD5, the CRC table,
  `packet_dump`, the bytes of the OSDP commands, `init_net` (not called), the
  command-line tools. CRC16 and the XOR checksum are taken to find every damage.
* `set_door_state` is assumed to succeed (the code ignores its result), `select`
  not to fail. A `read` that fails loses what the tty held.
* Sub-doors whose mask lies outside the four outputs have no relay. The status LED
  is the last of open, lock, blocked and unblocked signalled to the readers of a
  door; short blinks and beeps are left out. `airLockOnPartner` changes the partner
  and signals its own readers (`door_controller.c:75`), so the LED of the partner
  says nothing of its blockade; only "open" is spoken of by a property.
* The clock does not overflow (in the code it does in 2038).
* A PIN of a Roger reader is one value. In the code it passes through `strtoul` and
  `"%lld"` (`epso.c:227`, `reader-roger.c:66`): leading zeros are lost. A PIN that
  comes with a card is dropped (`reader-roger.c:65`); that is modelled.
* Memory outside of what is named above: `epso.c:201` writes `buf[len]` with the
  negative `len` of an error; the results of `index()` at `epso.c:221-222` are not
  checked, so that an intact answer without the colon would be written to through a
  null pointer; `osdp.c:18-22` trusts the length in a packet before it checks the CRC
  and may read beyond what was received. The packets of `OsdpLink` and the answers of
  `EpsoLink` are well formed or fail their check. What the text read past
  `eventNames` is (`eventSend.c:106`) is left open; it may end the process.
* Lines of the log may overtake each other; no text promises an order.
* A third door: its input byte is never written by the GPIO driver and is a stack
  byte. The modules and the proofs allow any number of doors; the runs have two.
* The query of the key cabinet (`user_db.c:159-163`) is not valid SQL ("AND AND",
  and no AND before `users.card`), so `checkKeyAccess2` always returns 0 and
  `MODE_TWO_CARDS` grants nothing; it is modelled as that.

## Plan

1. Proofs: that the airlock of the whole program is given up by nothing but the
   `set` or `do unblock` of one of its two doors (an invariant for each pair in the
   place of `NoOverride`).
2. A run with three doors of which two name the same partner, and a clock of
   small word width.
3. The readers' drivers in `AccessController` in the place of the polls of
   `ReaderAuth`.
