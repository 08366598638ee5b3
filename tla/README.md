# TLA+ verification of the YK / AVC lock firmware

The firmware runs on an STM32L4 board under RT-Thread. A master on a 20 kBaud
CAN bus queries and commands the device; the device keeps its identity and the
position of its latching relay in an EEPROM. This directory holds TLA+ modules
translated from the source, TLC configurations that check them on small
instances, and TLAPS proofs for every value of the constants.

`PROJECT.json` lists components, runs, mutants, the map from definitions to
source lines, hazards, findings and theorems. `tlc -config X.cfg M` repeats a
run; `tlapm` on a module whose name ends in `Proofs`, or on `ListLemmas.tla`,
repeats its proofs.

## Inventory of the system

| part | source | state | operations |
|---|---|---|---|
| CAN receive path | `bsp/can_channel.c`, `rt-thread/components/drivers/can/can.c`, `libraries/HAL_Drivers/drv_can.c` | hardware FIFO, message boxes, semaphore, `msg_buff`, callback | receive interrupt, "can" thread, opening of the channel |
| CAN transmit path | the same files | mutex, send box, completion, mailboxes | `can_channel_write`, transmit and error interrupts |
| configuration store | `applications/config.c` | record in the EEPROM, copy in RAM | `config_init`, `config_get`, `config_modify` |
| lock information, boot | `applications/lock.c`, `main.c` | `lock->info`, filter, pins | `lock_info_update`, `lock_init`, `main` |
| parser | `applications/protocol.c` | table chosen at boot | `protocol_init`, `protocol_parser` |
| handlers | `applications/handler.c` | none | one function per function code |
| operations, relays | `applications/operation.c`, `hw_define.h` | `avc_state`, pins | `control`, `query_state`, getters and modifiers |
| shell commands | `applications/cmd/command.c`, `test/test_bl24.c` | none | `cmd_modify_*`, `cmd_led_green_control`, `test_realy_*` |
| button | `main.c`, `applications/button.c`, `packages/FlexibleButton-latest` | mutex, scan state | `btn_press_cb`, `thread_btn_press`, `flex_button_scan` |
| checksum | `applications/crc8.c` | none | `crc8` |

How they interact. The receive interrupt stores a frame in a box and releases
a semaphore. The "can" thread (priority 5) takes it, copies the frame to
`msg_buff` and calls `rx_cb`, which parses the frame and runs a handler. The
handler calls the operations, which read and write the EEPROM through the
configuration store, and replies with `can_channel_write`, waiting for the end
of its transmission. The "flex_btn" thread (10) scans the button every 20 ms; a
press creates a "btn" thread (6) that also writes. The shell (20) changes the configuration from a thread of its own.
`main` (10) boots and then sleeps. `test/test_bl24.c` is part of the build: before
`main` its `test_bl14_pre_init` makes the coil pins of the latching relay outputs,
which `lock_pin_init` leaves out, and it adds commands to the shell.

What is hard here: interrupts against threads on the lists of boxes; wakeups
against frames when boxes run out; waits without a timeout; whole-record
read-modify-write of a configuration that several threads share and no lock
protects; failed transfers, resets and losses of power inside it; tables and
filters that are fixed at boot while the data they came from change; handlers
that perform several writes, each of which may fail, and that may run twice on
one frame; a mutex taken by one thread and released by another; counters that
must not wrap; frames laid out by hand, byte by byte. `hazards` in
`PROJECT.json` gives the line of each and the properties about it.

What makes each part correct:

- receive: no frame sleeps in the list, boxes are conserved, frames are
  handled in order, a frame is handled twice or lost only if the driver
  counted a drop, frames for others are never handled;
- transmit: every write returns, with the fate of its own frame, and boxes
  come back;
- store: what was acknowledged lasts, reads return what the EEPROM held,
  the copies agree with it;
- device: replies tell the truth, commands do what they say and change nothing
  else, a repeated frame does no harm, and the device stays reachable;
- button: every press is reported once and in order, and ends as a request to
  the master or as a refusal;
- frames: what the device sends passes its own checks, what was corrupted or is
  too short does not.

## Modules

**CanRx** (`MCCanRx`). A frame is its arrival number. `uselist`,
`freelist`, `data`, `freenumbers` are `struct rt_can_rx_fifo`; `hwfifo` and
`fov` the controller; `sem` the "can rx" semaphore. `IsrReceive` and
`IsrOverrun` are the two calls of `rt_hw_can_isr` in `_can_rx_isr`; the thread
takes five steps, ended where interrupts are enabled; main's statements from
`rt_device_open` to `set_rx_callback` are one action each. Interrupts precede
threads, and the "can" thread precedes main, as their priorities demand.

**FrameDelivery**, **CanRxRefines**. What the receive path promises: frames are
delivered oldest first, may be lost while they wait, and for each lost frame
the latest one may be delivered once more. The mapping keeps `arrived`,
`handled`, `ignored` and `lost`; `ready` is the binding of the callback, and
`repeats` is `stale` without the repetition that the thread has decided on and
not performed yet. The refinement contains the order of delivery.

**CanTx** (`MCCanTx`). Writers go through `can_channel_write` and
`_can_int_tx`. The controller may end a request as sent, not acknowledged,
failed or with lost arbitration, at any time, also between the steps of an
interrupt handler: the error handler is entered, reads ESR and then TSR. `ClearTsr` models the read-modify-write of TSR, whose flags
are cleared by writing 1: it clears all of them.

**SerialChannel**, **CanTxRefines**. What the transmit path promises: one frame
at a time, and each write returns with the fate of its own frame. A write is
mapped by the place of its writer: asked until the frame is in a mailbox,
sending while the request stands, then sent or failed as the controller ended
it, until the writer has noted a result, which then counts. Mutual exclusion
and the truth of the result are both part of the refinement.

**ConfigStore** (`MCConfigStore`). The store as a set of threads that are
interrupted between any two accesses. A transfer that fails has moved any
subset of the fields; so has one that a loss of power cuts off. `allowed` is
history: the values each field may have given what was acknowledged.

**Device** (`MCDevice`). The device as the master sees it. Only the "can"
thread runs handlers, so a handler is one action; its internal failures are
choices of outcome (`config_get(s, f)` is the set of possible results). `last`
is history: the last command, the values its reply gives as read (`sent`, the
junk that getters return after a failed read included), the changes that it
reports as done (`acked`) and how many of its transfers failed. Frames are given
by their fields; the bytes are in Frame. Any type may be in the EEPROM at first.

**Redelivery** (`MCRedelivery`) composes Device with what FrameDelivery lets
the receive path do: run the callback again on the frame in `msg_buff`. It also
lets the shell change the configuration, and pulse the relay, between two frames;
`touched` is history: whether the shell has changed type or address since boot.

**Button** (`MCButton`). A press, from `button_event_cb` in "flex_btn" over
`btn_press_cb` and the mutex to the "btn" thread. Thread objects occupy room on
the heap (`Slot`) until the idle thread frees them. The last two statements of
`main` are actions, since "flex_btn" already runs.

**FlexButton** (`MCFlexButton`). `flex_button_scan` for the one button that
`button.c` registers, one action per scan; the pin changes freely between two
scans. `owed` and `log` are history.

**Crc8**, **Frame** (`MCFrame`). The table and loop of `crc8` beside the
division by the polynomial; the layouts of all frames that the device sends,
packing and unpacking by the channel, flipped bits, and the CRC and length
checks of `protocol_parser`. A buffer is a function from offsets to bytes, and
`Payload` a set of values for all its offsets from 3 on. What the device sends has
the header that `memset` leaves, 0; a command has that of the device. Bits flip
in both. Device starts from frames that passed the checks.

**CanRxProofs**, **CanTxProofs**, **ConfigStoreProofs**, **DeviceProofs**,
**ButtonProofs**, **FlexButtonProofs**, **FrameProofs**. Theorems, below.
**ListLemmas** has what they need about appending to a list of distinct elements
and taking from it.

## Runs

| run | bounds | shows |
|---|---|---|
| `can_rx` | 2 boxes, hardware FIFO of 3, 6 frames | safety of the receive path, every frame is settled, the path implements FrameDelivery |
| `can_tx` | 3 writers, 3 send boxes | safety of the transmit path, every write returns, the path implements SerialChannel |
| `config` | 3 fields of 2 values, 1 modifying and 1 reading thread, 2 faults | the store |
| `device` | 2 addresses, 2 serial numbers, 1 fault per boot; cold lock, AVC switch, the type 5 and an invalid type in the EEPROM | the device as the master sees it |
| `redelivery` | cold lock, type 5 and an invalid type in the EEPROM at first, the others by commands; no faults | repeated frames are harmless, when the parser is bound, which commands keep the device within reach, and that none stores the type that has no parser |
| `button` | room for 3 threads, 3 holds, 6 presses | no press is lost or unanswered, and what the mutex does |
| `flex_button` | the ticks of the build, counters of 8 bits, 5 clicks | order of events, accounting of presses, end of gestures |
| `frame` | all replies, commands of all codes with 0 to 5 bytes of arguments, 2 payloads, 3 flipped bits in the longest reply and in commands of three sizes, short messages | the checks accept and reject what they should |
| `config_race` | 2 modifying threads | violation, below |
| `device_type`, `device_request`, `device_modify` | no faults | violations, below |

Why the bounds suffice. Six frames overflow both the hardware FIFO and the
two boxes (the build has 16) while the thread holds one, and then wake the
thread more often than there are frames. Three writers are a holder of the
mutex and two waiters of equal priority. Three send boxes, more than the build
uses, show that transmission rests on the mutex, not on there
being one box. In the store, two faults are a failed transfer followed by a reset or
by a second failure; three fields are two that `lock->info` copies and one that
it does not. In the device, faults are counted from boot to boot and boots are
not bounded. The types 2 and 3 are left out of the runs, since they have the
tables, filter and device id of 0 and 1; the proofs have all types, and faults in
Redelivery too. Six presses
are past the three holds after which the mutex cannot be taken again (255 in
the build), and four unfreed threads exhaust the heap. The scanner runs with
its real ticks; only the width of its counters is smaller, which makes the
saturation of `scan_cnt` come after 255 scans instead of 65535. In `frame` bits
flip in the reply to 0x01, of eleven bytes, and in the commands 0x01, 0x35 and
0x03, of six, seven and ten; the received bytes reach all 256 entries of the table.

Deadlock is checked except in `can_rx`, which ends when `MaxFrames` frames have
arrived and been handled.

An EEPROM type of exactly 5 (`DEVICE_TYPE_MAX`) is an initial state like any
other: an earlier generation of the firmware had such a type and `lock.c` still
lists it, although no command stores it.

### Fairness

`FairSpec` of CanRx: weak fairness of the interrupt, of the "can" thread and of
main. Interrupts are served by hardware, and the ready thread of the highest
priority runs; arrivals are finite in the model, and at 20 kBaud the bus leaves
milliseconds between frames. `FairSpec` of CanTx: weak fairness of interrupts
and of the end of each request (automatic retransmission is off, so each
request ends after one attempt), strong fairness of a writer's steps, since
interrupts disable them again and again but only for microseconds. New writes
need not happen. `FairSpec` of Button: weak fairness of the "btn" threads,
which have priority over all else in the model (that their writes return is
`WritesReturn` of CanTx), strong fairness of the callback and of the idle
thread, which "btn" threads disable for a moment with each press. Presses are
not fair. `FairSpec` of FlexButton: weak fairness of `Scan`, which `button_scan`
runs every 20 ms for ever; the finger need not move.

### Disagreements found

- `config_race`: the shell and the "can" thread both run `config_modify`; the
  later write undoes the field that the other reported as changed.
- `device_type`: `lock.c:36` lists YK_AVC_SWITCH, 5, but `get_device` passes it
  on (`>` where `config_init` has `<`), `device_id_table` has no entry for it and
  `protocol_init` no table. A device with 5 in its EEPROM calls a NULL parser at
  its first frame.
- `device_request`: a granted request to disengage is carried out and followed
  by ENGAGE, and success is reported.
- `device_modify`: 0x33 takes type, address and serial number from the header
  of the frame.

Observations without a run of their own, since they are a check that is missing
from the code and so from the model, or are stated by a property that holds:

- The parser reads the address and never compares it. Cold locks filter no
  address in hardware, and the comment at `main.c:136` leaves the comparison to
  the parser, so they obey any address.
- `cmd_modify_addr` of the shell (`command.c:91`), unlike 0x03, neither restarts
  nor sets a new filter: the device answers at its old address until it
  restarts, while its replies give the new one. A type changed by the shell
  likewise keeps the old table. `Reachable` is therefore about the commands of
  the master (`touched`).
- The getters of `operation.c:189` to 243 ignore whether a read succeeded. After a failed
  one a reply gives an uninitialised value as address or serial number, and
  nothing in it says so. `RepliesTrue` promises values only for commands
  without a failed transfer, and reported changes always.
- `main` binds the callback (`main.c:143`) before it creates the mutex (144). A
  press in between, if it is the first, takes a NULL mutex and stops the scanner
  in `RT_ASSERT(mutex != RT_NULL)`, `ipc.c:1195` (`HeldForGood`, `PressAnswered`).
- "flex_btn" takes the mutex and "btn" releases it (`main.c:106`). A
  release by a thread that is not the owner is refused (`ipc.c:1454`), so the
  mutex is held for good and excludes nothing; presses still work
  because `btn_press_cb` compares with `RT_ERROR`, which `rt_mutex_take` does
  not return (`HeldForGood`, `NoPressLost`).
- The scan that finds the button released counts before it compares, so a press
  can end as SHORT_UP without a SHORT_START (`EventsInOrder`).

## What is proved

**Receive path.** For every `MsgBoxSz >= 2`, `HwFifoSz >= 1`, `SemMax >= MsgBoxSz` and
`MaxFrames` (the assumption `RxAssumption`; the build has 16, 3, 65535 and no
bound), `CanRxProofs` proves of `Spec`:

- `RxTypeCorrect`: `[]TypeOK`;
- `WakeupsSuffice`: `[]NoLostWakeup`;
- `StaleFramesBounded`: `[]DuplicatesBounded`;
- `InterruptFindsBox`: `[]IsrFindsBox`.

The argument. None of the last three is inductive. The invariant `RxInv` adds
to the types: the lengths of `uselist`, `freelist` and the box in hand add up
to `MsgBoxSz` (`BoxCount`), so that the semaphore, which may saturate at
`SemMax`, never misses a frame that is in `uselist`, and that with two boxes
one is left for the interrupt; nothing is received before SET_BAUD
(`QuietBeforeBaud`), so `rx_indicate` is set at the first frame; and every
surplus wakeup, past or still to come, is paid for by a counted drop
(`WakeupsPaid`). `StoreFrameCount` is the step of the interrupt that matters:
it stores a frame in a free box or recycles one and counts that.

**What is delivered.** From the same assumption `CanRxProofs` also proves of
`Spec`:

- `RxBoxesConserved`: `[]BoxesConserved`;
- `OnceUnlessDropped`: `[]ExactlyOnceUnlessDropped`;
- `OwnFramesOnly`: `[]NoForeignFrameHandled`;
- `RxImplementsDelivery`: `Spec => ImplementsDelivery`, the refinement of
  FrameDelivery.

The argument. The boxes of `uselist` followed by the hardware FIFO are one pipe
of frames. `DeliveryInv` says of it: frames leave it in the order of arrival
(`InOrder`); every frame that arrived is in the pipe, in the hand of the thread,
handled, ignored or lost, and in one of these only (`Partition`); `msg_buff` is
the latest frame delivered (`LatestKept`), which is why a surplus wakeup repeats
that frame and no other; nothing is repeated before a frame that may be handled
was there (`NoEarlyRepeat`); losses are counted in `dropedrcvpkg`, or the flag FOV0 is still
to be seen (`DropsCounted`); without a repetition no frame is handled twice
(`OnceEach`); a frame from before the filter was set has left the pipe by the
time the callback is bound (`ForeignGone`). Recycling the oldest box is then a loss at
the head of the pipe, an overrun one at its end, a wakeup without a frame a
repetition paid for, and every other step of interrupt, thread and main is an
arrival, a delivery, the binding, or a stutter.

**Transmit path.** For every finite set of writers, all priorities and 1 to 3
send boxes (`TxAssumption`; the build has one box, the controller three
mailboxes), `CanTxProofs` proves of `Spec`:

- `TxTypeCorrect`: `[]TypeOK`;
- `CompletionsArrive`: `[]NoLostCompletion`;
- `BoxesComeBack`: `[]BoxesReturn`;
- `TxImplementsChannel`: `Spec => ImplementsChannel`, the refinement of
  SerialChannel.

The argument rests on the mutex. `TxInv` says that one writer is inside it and
those in the queue wait for it (`MutualExclusion`, `QueueWaits`), that the boxes
in hand, on `freelist` and counted by the semaphore agree (`BoxesCounted`), and
hence that at most one mailbox is in use, by the box of the owner
(`OneMailbox`). `ClearTsr`, which clears the flags of all mailboxes, can
therefore only clear those of the mailbox it has just served; with two writers
inside it could take away the other's completion. `IsrSound` says
that between its steps the handler has completed the box whose flag it will
clear, and that no request stands once the error handler may have read an
acknowledgement error, so that it cannot take the flags of a later success
away; and `OutcomeTold` that the result in the box is how the controller ended
the frame: so a write of SerialChannel returns the fate of its own frame.

**Store.** For any threads, fields, values and number of faults
(`StoreAssumption`), `ConfigStoreProofs` proves `StoreTypeCorrect`
(`Spec => []TypeOK`) and, under the hypothesis `OneModifier`, that at most one thread
calls `modify_*`:

- `AckedSurvives`: `Spec => []AckedPersists`;
- `GetsAreHeld`: `Spec => []GetReturnsHeld`;
- `CachesAgree`: `Spec => []CachesCoherent`.

The hypothesis is needed: `config_race` violates `AckedPersists` with two. Any number of threads may
read, and a read overwrites the copy in RAM at any moment. `StoreInv` says why
that does no harm: what a get or a modify in progress may find in the copy is a
value that the EEPROM held since it began (`Noted`); from its write to its end a
modify's snapshot is what EEPROM and then copy hold (`Written`); a copy that was
read since the reset, and a snapshot taken from it, have in each field a value
that the field may have (`Trusted`); and without failed transfers the fields
fetched for `lock->info` are those of the EEPROM (`Fetched`). `Places` relates
the place of a thread to the call that it makes.

**Device.** For any addresses and serial numbers, with all types and any bound
on the faults between two boots (`DeviceAssumption`; where 0 is an address or a
number so is 1, which `config_init` puts in its place), `DeviceProofs` proves of
`Spec` of Device:

- `DeviceTypeCorrect`: `[]TypeOK`;
- `RepliesAreTrue`: `[]RepliesTrue`;
- `CommandsHonest`: `[]CommandHonest`;
- `CommandsObeyed`: `[]CommandObeyed`;
- `FaultHeals`: `[]SingleFaultHeals`;
- `NamedFieldsOnly`: the action property `OnlyNamedFields`;

and of `RSpec` of Redelivery, with frames handled twice, with the shell and,
unlike the run, with faults:

- `AlwaysBootable`: the action property `Bootable`;
- `ParserIsBound`: `[]ParserBound`: the parser is NULL exactly for type 5, for
  any type in the EEPROM at first;
- `DeviceIsReachable`: `[]Reachable`: the filter lets in the address in the
  EEPROM, and a type that was changed under the old table can be changed again;
- `DuplicatesDoNoHarm`: the action property `DuplicatesHarmless`. It speaks of
  the time from boot to the first fault, since after a fault the second
  delivery may complete what the first could not.

The argument has three layers. There is a lemma about all outcomes of each
operation (`GetFacts`, `InfoFacts`, `ModifyFacts`, `SaveFacts`, `PulseFacts`,
`AvcFacts`). `After(s, u, N)` composes them: faults are not
forgotten, and a field outside `N` whose copy agrees with the EEPROM keeps its
value in both. A failed write leaves copy and EEPROM apart, at the price of one fault
(`Half`); the next get repairs that or costs another (`Healed`), and as every
handler that writes ends with a get or a reset, `Healed` holds between commands. There
is a lemma per handler, with the conclusion `Handled(func)`, or `Reset` for
0x03. `DevInv` then adds `CoilOff`: the close coil is left on only under the table
with 0x02, which has no 0x35, so the relay obeys 0x35. For a reply, the lemma `ReplyTrue`
takes a count of faults that is what it was before the command to mean that every
get gave the value of the EEPROM (`Shows`), and what is acknowledged is shown to be there
after the last get of the handler, failed or not (`True`).

For Redelivery `Half` takes the place of `Healed`, since a shell command ends with
a write. `RInv` adds `Reaches`: the table of the cold locks, with 0x23, comes with a
filter that passes every address, the other handlers leave the address or restart,
and the table fits the stored type or is one of the two that have both 0x07
and 0x37 (`TableFits`). `Served`, kept by every operation, says that the type 5
is neither stored nor in the copy, which a later modify would store.

`DuplicatesHarmless` compares two runs of a handler. `Leaves(m, r, q)` and
`Puts(m, a, b)` say what the delivery of a frame `m` does to the record of the
EEPROM and to the relay when nothing fails (`DeliveryEffect`). Both are
deterministic (`LeavesOne`, `PutsOne`) and idempotent (`LeavesTwice`,
`PutsTwice`): what a handler looks at is not changed by it in a way that makes
it do something else. The invariant `Settled` says that EEPROM and relay are a
fixed point of the frame in `msg_buff` until the shell interferes; a second
delivery then ends where it began.

**Button.** For every finite, nonempty `Slot`, every `HoldMax >= 1` and
`MaxPresses` (`ButtonAssumption`), `ButtonProofs` proves `ButtonTypeCorrect`
(`[]TypeOK`), `PressesKept` (`[]NoPressLost`) and `MutexNeverReleased`
(`[]HeldForGood`). The invariant `ButtonInv` adds `MutexOwner`: only "flex_btn"
ever owns the mutex, and nobody does before it is made. Without it a release by
a "btn" thread could be one by the owner. The lemmas `StartedGrows` and
`StartedShrinks` count the threads on their way.

**Scanner.** For all ticks with `0 < Interval`, `Interval + 1 < ShortTick`,
`ShortTick < LongTick < HoldTick < CntMod - 1` and all `MaxClicks < CntMod`
(`FlexAssumption`; the build has 15, 75, 150, 225 and 2^16),
`FlexButtonProofs` proves `FlexTypeCorrect` (`[]TypeOK`), `PressesReported`
(`[]PressesAccounted`) and `EventsOrdered` (`[]EventsInOrder`). `FlexInv` adds:
there is room for one more click (`ClickRoom`); the stage tells what the last
scan saw (`StageSampled`), without which a press could be counted twice; a
press after clicks is told from them before it can pass for a short one
(`ClicksFirst`, the reason for `Interval + 1 < ShortTick`: with a longer
interval the clicks before it would never be reported); and `event` is
the last event logged and the one that belongs to the count (`EventOfPress`),
without which a start could be reported twice. `CountedGrows` is where the
saturation of `scan_cnt` matters.

**Frames.** For any function codes, headers, bytes on the stack, number of flipped
bits and any bytes in the fields of a frame (`FrameAssumption`), `FrameProofs`
proves of `Spec`:

- `OwnFramesPass`: `[]OwnFramesAccepted`;
- `ShortOnesFail`: `[]ShortRejected`;
- `ChecksumRight`: `[]ChecksumIsRemainder`;
- `CorruptedFail`: `[]CorruptedRejected`, under the hypothesis `FewFlips`, at
  most three flipped bits: four in the pattern of the polynomial itself, which
  has four terms, go unseen.

The argument. `Xor` is a byte whatever its arguments (`XorIsByte`), and the
checksum reads only the bytes it was asked for (`CrcOfPrefix`), so putting it in
the last byte does not change it. What `can_channel_write` packs,
`can_channel_read` unpacks (`RoundTrip`, `Identifier`). `FrameInv` says of the
message on the wire that it unpacks to a frame that passes (`Sound`), or that it
is too short and `len - 5` wraps to more than a byte (`Stunted`).
`TableEntries` shows that each entry of `crc8_table` is eight steps of the
division: entry `2r` is entry `r` divided once more (`TableDoubles`) and entry
`2r + 1` adds the entry of 1; the loops over equal tables are the same function
(`TableIsDivision`).

`CorruptedFail` takes the algebra behind a CRC. `Xor` commutes, associates and
cancels (bit by bit, `BitOfXor`), and the division is linear in it
(`DivideLinear`). Hence a frame passes exactly when the register, run over the
checksum too, ends with one fixed value (`Residue`), and a flipped bit adds to
that end the power of x of its place, whatever the other bytes are
(`FlipEffect`). The powers have an odd number of bits (`DivideParity`: the
polynomial has an even number of terms), so one flipped bit or three never cancel;
and the first 96, more than the 88 bits of the longest frame, are distinct
(`Powers`), so two do not. `WireFlip` carries a flip in the CAN message over to
the frame, and `DamageInv` says that what is on the wire is a good frame with
exactly the recorded bits flipped. The loop of `crc8` is a recursive function;
as no frame is longer than eleven bytes it is unfolded step by step
(`ElevenSteps`, `LoopDefined`), without induction.

Only model-checked: liveness (`FramesSettle`, `WritesReturn`, `PressAnswered`,
`GestureSettles`), since fairness and ENABLED are beyond the proof system. Every
invariant and every action property of a passing run is stated by a theorem.

## Not modelled

The RT-Thread kernel, the HAL and the at24cxx package (not in the repository)
are external: semaphores, mutexes, completions and transfers appear by their
effect. `device_init.c`, `operations.c` and `test.c` are an earlier generation
that nothing calls; `storage.c`, `bl24c128.c` and `uart_channel.c` are empty;
`test/test.c` is switched off. Of `test/test_bl24.c` the pins and the commands for
the latching relay are modelled, `test_config_modify` is `cmd_modify` again, and the rest
only writes other pins. Left out as data: log output, the relays K1 to
K3 and the LED, whose pins are only written and shown (so `cmd_led_green_control`,
`test_yk_relay_switch` and `test_yk_output_ctl` are no actions), and the time waited for a relay to move. Handlers that read past
the data of a short but well-formed frame are not followed: Frame ends at the
checks. Of the scanner package only what one registered button does is
modelled. Nearly all of the repository's lines are the vendored
HAL, CMSIS and kernel, mostly headers and tables for other chips, so the modules
cover the firmware's own code but a very small share of the lines.

## Plan

1. *(done)* CanRx, CanTx, ConfigStore, Device with their runs; the first
   theorems about CanRx.
2. *(done)* Button and FlexButton with their theorems.
3. *(done)* Crc8 and Frame.
4. *(done)* FrameDelivery and SerialChannel, refined by CanRx and CanTx;
   Redelivery, which uses what FrameDelivery permits.
5. *(done)* Theorems about CanTx, ConfigStore, Device and Redelivery, about
   what CanRx delivers, and that CanRx and CanTx implement their abstract
   specifications.
6. *(done)* Theorems about Redelivery's duplicates and about Frame.
