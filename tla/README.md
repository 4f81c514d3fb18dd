# A1707 / VARI3101: a TLA+ model of the vehicle nodes

The repository holds the firmware of the nodes of a small unmanned vehicle: STM32F103
boards on one CAN bus, each running an RT-Thread application (`APP project`, one
`bsp/<BOARD>` per kind of board) that a bootloader (`IAP project`) installs and starts.
This directory specifies the parts of that firmware whose correctness depends on orders
nobody writes a test for: the firmware update across power failures, the drive motor
between two threads, the ring buffers between an interrupt handler and a thread, the
frame parser between a lossy bus and its handlers, and the parameter pages between two
parser threads and power failures.
Source references below are relative to `src/`; the sources are GB18030-encoded.

## The system

| Component | State it keeps | Operations | Interacts with | Hard because |
|---|---|---|---|---|
| Firmware update (`APP project/general_app/can_ota_protocol.c`, `drivers/flash_if.c`, `drivers/iap_if.c`; `IAP project/Projects/Src/main.c`, `iap_if.c`, `flash_if.c`, `canbus_middle.c`, `ota_protocol.c`) | flash: flag page, info page, copy area, run area; RAM: `OTA_SubSize`, `Count`, pointers | Start, Update, End frames; the bootloader's `main()` | two programs that agree on the flash layout only; a host on the bus or the UART | power failures, retries, torn pages, frames in any order, in-place overwrite of the program |
| Drive motor, board DCG (`bsp/DCG/app/canbus_middle.c`, `UserThread/motor_x.c`, `app/pwm_output.c`) | `Motor_cotorl`, `Motor_state`, `CCR_Va0`, the timer, two pins, a mailbox of 20 | forward, backward, slow stop, emergency stop; watchdog; ramp | the can thread and the motor thread share all of it without a lock | preemption between statements, a full mailbox, stale duty cycle |
| Ring buffers (`common_lib/usdl_buf.c`, `drivers/drv_com_uart.c`) | cells, `Head`, `Tail` | add a byte (interrupt); read, look, delete, clear (thread) | UART, CAN and parser code | the handler interrupts between any two statements; full buffer |
| Frame parser (`general_app/protocol_anylise_frame.c`, scan in `can_ota_protocol.c:163-242`) | receive buffer, `wait_ticks` | scan, accept, reject, wait, time out | ring buffer below, frame handlers above | resynchronisation, time-out racing a late byte |
| CAN driver (`drivers/drv_can.c`) | message ring, transmit mailboxes | interrupt, receive, clear, send | can thread | ring overrun during a receive, by a handler that shares both indices |
| Identity and search (`general_app/can_search_protocol.c`, `manage_id.c`, `can_heartbeat_protocol.c`) | UUID and ID of the node | search, set ID, heartbeat | parameter pages; all nodes on the bus | the ID lives in RAM, in flash and in a formula; several nodes answer at once |
| Parameter pages (`drivers/iap_if.c`, `bsp/*/app/param.c`) | two flash pages, the flash lock | default, load, save | identity; the CAN and the UART parser write them | power failure between erase and write; one parser preempts the other |
| Boards (`bsp/ACCG, BMLG, DWSM, GNSS, MLDG, OAG, PMU, PXU, RCG`) | sensor values | sample and report | CAN | little shared state |
| Device drivers, utility library | registers; none | peripheral I/O; strings, time, conversions | everywhere | sequential |
| RT-Thread, ST libraries, zlib, lwIP, mbedTLS | | vendored | | not ours to specify |

What makes each component correct:

* update: a node never starts a half-written program by itself; an update is installed
  completely or not at all; a committed update is eventually running; the node always comes
  back to where it can be updated again;
* motor: never reversed while driven; a stop, above all an emergency stop, stops; silence
  of the host stops;
* ring buffer: bytes come out once, in order, and only the oldest are dropped, only when full;
* parser: a valid frame that arrives after any garbage is delivered, once; the buffer never
  blocks for ever;
* CAN ring: as the ring buffer, and an overrun in the middle of a call must not break it for
  good;
* identity and parameters: a node names its own UUID, an acknowledged save survives resets.

## Modules

| Module | What it is |
|---|---|
| `FirmwareStore` | abstract: one bootable program, replaced in one step |
| `OtaUpdate` | application, bootloader, flash and host frames; implements `FirmwareStore` |
| `OtaUpdateProofs` | proofs of `TypeOK`, `OtaInv`, `JumpSafe`, `PlainRetries`, and of `StoreSpec`: the update implements `FirmwareStore` |
| `MCOtaUpdate` | small images for TLC |
| `MCOtaPackages` | those of them whose headers cannot be mistaken, the proofs' assumption |
| `MotorCtrl` | the can thread and the motor thread of DCG |
| `MotorCtrlProofs` | proofs of `TypeOK`, `MotorInv`, `StateTruthful`, `Interlock`, `RaisedOnlyBraked` |
| `MCMotorCtrl` | for TLC |
| `ByteQueue` | abstract: a queue that drops its oldest byte when full |
| `RingBuf` | `usdl_buf.c`, load by load; implements `ByteQueue` |
| `Laps` | lemmas: the cells between two indices of a ring, as a sequence |
| `RingBufProofs` | proofs of `TypeOK`, `RingInv`, `NeverUnderruns`, `RestsInOrder` |
| `RingBufRefinement` | proof of `IsQueue`: the ring implements the queue |
| `MCRingBuf` | for TLC |
| `FrameLink` | the frame parser between the bus and the frame handler, of the application and of the bootloader |
| `FrameLinkProofs` | proofs of `TypeOK`, `LinkInv`, `Aligned`, `DeliversOldest`, `ClearsOnlySlow` |
| `MCFrameLink` | small frames for TLC |
| `CanRxRing` | the message ring of `drv_can.c`, load by load; implements `ByteQueue` with messages for bytes |
| `CanRxRingProofs` | proofs of all five of its properties, `IsQueue` included |
| `MCCanRxRing` | for TLC |
| `NodeParams` | the identity page and the settings page of one node |
| `NodeParamsProofs` | proofs of `TypeOK`, `ParamInv`, `UuidTruthful`, `IdLostOnlyByStart` |
| `MCNodeParams` | for TLC |

### OtaUpdate

State: `flag`, `info`, `copy`, `run` are the four flash areas (`flash`), which survive a
reset; `who` says which program executes, `pc` where it is, `sub`, `img`, `cnt`, `k` are the
RAM variables `OTA_SubSize`, the Start frame being handled, `Count`, and the loop counter.
`faults` counts bad page writes and `gaveUp` remembers that three copies failed; both are
history. The mapping to `FirmwareStore` covers compressed images: `Doomed`, a committed package whose
description of the unpacked image is wrong, maps to `misguided`.

| Action | Code |
|---|---|
| `ReadFlag` | `main.c:96-121`: the flag chooses between jumping, installing and serving a host |
| `JumpToApp`, `NoValidStack` | `main.c:101-119`: the stack-pointer test |
| `Verify`, `Drop` | `main.c:124-157`: size limit and CRC of the copy area |
| `Attempt`, `EraseRun`, `CopyPage`, `ReadBack`, `GiveUp`, `Commit` | `main.c:160-258`: at most three times erase, copy, compare; both the plain and the compressed branch |
| `ForceUpdate` (three steps) | `ForceUpdateAppMode`, `iap_if.c:122-145`: erase, program, done |
| `RecvStart`, `StoreHeader`, `WipeCopy` | the Start frame: info page, copy area |
| `RecvUpdate` | the Update frame, any frame number in any order, any number of times |
| `RecvEnd`, `UpdateFlag`, `UpdateFlagDone` | the End frame: `UpdateAppMode` and the reset |
| `Crash` | power failure or watchdog reset before any step or inside a flash operation (`TornHeader`, `TornWipe`, `TornUpdate`, `TornCopy`) |

The two programs differ where the code does: the application's header has a `Version` in
front (`Header`) and its `Flash_Storage_Header` does not erase the page first (`RecvStart`).
The CRC is ideal: it accepts exactly what it was computed from. A page holds `<<i, p>>`,
`Blank` or `Junk`; a frame carries one page, as the sub-packet size equals the page size.
The bytes of a half-word matter because the shifted header mixes sizes and CRCs, so `info`
is eight numbers below `HW`. An image has at least one byte.
A packed package whose header announces packets of size 0 (`~Unpacks`) makes no progress in `CopyPage`: `uncompress`
takes nothing and returns nothing, so the loop of `main.c:183-196` goes round for ever. The model
stays at `copy` then; only a power failure leads out of it.

### MotorCtrl

The motor thread has priority 2 and the can thread 15 (`threadinit.c`, `application.c:78`), so the
can thread moves only while the motor thread is `Blocked`: in `rt_thread_delay` or at an
empty mailbox. `RecvDrive` and the five `drive` steps are the statements of
`canbus_middle.c:127-134`; `RecvStop` and `SendMail` those of `153-163`; `IdleTick` is the
`else` branch `237-252`. `RecvSlow`, `Ramp`, `RampEnd` are `Stop_low0` and `StopFast` is
`Stop_fast0`. Any frame may come at any time. `patient` is history: it stays true as long as the host
has sent a drive command only when nothing was in progress and a stop only while the mailbox
had room. `SlowStopWorks` and `RaisedOnlyBraked` need no patience; `Interlock`, `StateTruthful` and
`FastStopWorks` hold as long as the host has been patient.

### RingBuf

The handler's `AddByteToBuf` is one step. The thread's calls are cut at every load and store of
`Head` and `Tail`; the structure is not `volatile`, so where the compiler may reuse a value of
`Head` it has loaded before, `h` or the current `head` is used (`SaveHead`, `LoadHead`, `MoveHead`). A byte is
its number, so a lost, repeated or reordered byte shows. The mapping to `ByteQueue` takes the
bytes from `From` to `tail`, where `From` is the saved head during a look.

| Action | Code |
|---|---|
| `Call`, `ReadTail`, `CorrectLength` | the entry of `ReadDataFromBuf` and `DelDataFromBuf`: `GetLenFromBuf`, then the smaller length |
| `SaveHead`, `LoopEnd`, `RestoreHead` | `ReadDataFromBuf` without clear, `usdl_buf.c:169-178` |
| `GetByte`, `TestByte`, `LoadHead`, `StoreHead` | `GetByteFromBuf`: the test, then `Head++` |
| `MoveHead` | `DelDataFromBuf`: `Head += len` |
| `LoadWrap`, `WrapHead` | `Head %= RxBufSize` of both |
| `ClearDateFromBuf` (two steps) | `Tail = Head` |

Nothing is assumed of the handler: bytes arrive between any two of these steps, and the buffer may be
overrun inside a call, several times. `lapped`, a history variable, says that this has happened
under the current call. Then updates of `Head` may be lost, so that bytes come again or all
of them disappear; `RestsInOrder` says that what is left between calls is in order nevertheless.

### FrameLink

State: `ring` is the content of `CAN_BUF500`; `buf`, `skip`, `waited` are the parser's copy, where the
accepted frame starts in it, and the polls since `wait_ticks` was set; `pc` is where the parser
thread is; `pending` are the bytes of the frame being sent that are not yet in the buffer, those the
driver holds included; `boot` tells the bootloader from the application. `due`
(frames sent and not delivered), `intact` (nothing has disturbed them) and `age` are history.

| Action | Code |
|---|---|
| `Send`, `Arrive` | `canbus_middle_send` cuts a frame into messages of eight bytes; the can thread appends each to the buffer |
| `Disturb` | a message is lost, or one of another node with the same `StdId` comes in between |
| `PeriodicHandle` | the bootloader's `CAN_OTA_Periodic_Handle` (`IAP project/.../canbus_middle.c:873-930`): a round takes at most one message, then looks |
| `BootTimeOut` | its time-out (`937-945`): `stm32_CAN_clear` drops the messages the driver holds; the incomplete frame stays in `CAN_BUF500` |
| `Look` | `protocol_anylise_frame.c:186-209`: the delay, then all received bytes are copied without being taken |
| `Accept`, `Delete` | `protocol_anylise_frame.c:210-227`: the handler gets the frame, then it is deleted with what precedes it |
| `Reject`, `Wait`, `TimeOut` | `protocol_anylise_frame.c:228-259`: garbage is deleted; an incomplete frame is waited for, until `ticks_out` |
| `GoAstray` | the scan reads beyond the received bytes, `can_ota_protocol.c:192`, `209-213` |

`Outcome` and `Skipped` are the scan of `can_ota_protocol.c:163-242` as the set of offsets at which it stops;
the bootloader's scan (`canbus_middle.c:543-622`) is the same.
The ring is the queue that `ByteQueue` describes and `RingBuf` implements. The length
field has one byte here and two in the code; whether a frame is for this node is the
handler's question, so every valid frame is accepted. When the received bytes end in a head
that cannot begin a frame, and at least a minimal frame (eight bytes in the code) has been received, the
scan takes a byte it has not received for the length. What that byte is depends on earlier looks. `GoAstray` allows
what any such byte can lead to: a length that makes the scan wait for the rest of the last head's frame, so that this head is what
stays in the buffer; a head or a frame behind the received bytes, so that these are deleted, with some or all that have
arrived since; or leaving the buffer.

### CanRxRing

`RecvIsr` is one message of the interrupt handler, which runs with interrupts disabled.
`Recv`, `Test`, `Load`, `Store`, `Copy`, `WrapLoad`, `WrapStore` are the memory accesses of
`stm32_CAN_recv`; `Clear` those of `stm32_CAN_clear`. The structure is not `volatile`, so in
`Load` the increment uses either the index the test loaded or one it loads again. A message is
its number and is copied in two parts, so that a torn one shows. `due` is the message a call
takes, `lapped` says that the handler has overrun the ring under the call; both are history.
Nothing is assumed of the handler: the ring may be overrun inside a call, several times. Then the call may return parts of two messages, and an update
of the index may be lost, so that the ring looks empty or holds old messages again; `lapped` is also set when the message comes on
a ring that was empty when the call loaded the index, which excuses a call that in fact goes well; `RestsInOrder`
says that what it looks to hold is nevertheless the newest messages in order.

### NodeParams

State: `page` and `apage` are the two flash pages, by what their words say; `ctrl` is the flash as the processor's registers have
it: locked, open, or open with `PGERR` set (`"error"`); `ram` and `set` are `iap_param` and `dev_param`; `at` is where each of the two
parser threads is. `cut`, `fresh` and `promised` are history: a save was cut short between the flag and
the UUID; nothing was assigned since the start; the ID of the last acknowledged SAVE. So are `stored`, the settings of that
SAVE, and `exposed`: the UART parser has erased the page of an acknowledged ID because a Start frame had left the flash open.

| Action | Code |
|---|---|
| `Boot` | the bootloader starts the application or serves a host (`OtaUpdate` has the choice) |
| `LoadApp`, `SaveApp`, `ReadApp` | `stm32_param_load`, `stm32_param_default`, `stm32_param_save` (`bsp/BMLG/app/param.c`) |
| `LoadIap`, `ReadIap` | `iap_param_load`, then `device_id_set` in the application |
| `Unlock`, `Erase`, `Open`, `Program`, `LockUp` | `iap_param_save` and the `Flash_Write` it calls |
| `RecvWrite`, `RecvSetID`, `RecvSave`, `RecvDefault` | the frames of the CAN parser; in the bootloader those it has |
| `RecvStart`, `RecvUpdate` | Start and Update frames of the CAN parser, for what they leave of the flash's lock and error flag |
| `UartStorage` | those of the UART parser, which stores the header last |
| `Acknowledge` (in `LockUp`) | the end of a SAVE of the CAN parser |
| `UartWrite`, `UartSave` | the frames of the UART parser |
| `Crash` | power failure, RESTART, the reset of an End frame, the watchdog |

The CAN parser (priority 15) runs between any two steps of the UART parser (21), never the
other way round (`Scheduled`). `Erase` and `Program` do nothing, respectively stop, when the flash is locked:
that is how the CAN parser's last `Flash_Lock` ends a save of the UART parser. A Start frame of the application does not always
end with `Flash_Lock`: over an info page that is written `Flash_Storage_Header` returns at `flash_if.c:203`, with
the flash open and `PGERR` set, and `Flash_Erase_Page` returns before it touches the lock if the size is 0 or too large
(75-78). `PGERR` stops an erase only if it is set when `FLASH_ErasePage` looks at it, and the UART parser may have been preempted behind that,
so `Erase` has both outcomes then; it lets at most one half-word be programmed. Which frames
a node accepts is its filter's question; a frame here is an accepted one.

## Runs

| Run | Expect | Shows |
|---|---|---|
| `ota_update` | pass | a plain image, a compressed one and a package that is unpacked for ever, three bad writes, power failures anywhere: `JumpSafe`, its inductive strengthening `OtaInv`, `PlainRetries`, refinement of `FirmwareStore`, `CommittedRuns`, and that the node comes back to where it answers a host from everywhere but that loop: `ServesUnlessEndless` |
| `ota_compressed` | violation | one bad write makes a compressed image fail for good |
| `ota_givenup` | violation | a power failure inside `ForceUpdateAppMode` starts a half-written program |
| `ota_version` | violation | a Start frame with version 0 makes a packed image pass for a plain one |
| `motor_stops` | pass | any host: `SlowStopWorks`, `RaisedOnlyBraked`; as long as it is patient: `Interlock`, `StateTruthful`, `FastStopWorks`, and `MotorInv`, why they hold |
| `motor_emergency` | violation | an emergency stop lost in a full mailbox leaves the motor running |
| `motor_watchdog` | violation | silence of the host does not stop the motor |
| `ring_queue` | pass | the ring buffer is the drop-oldest queue except for a call it is overrun under (`IsQueue`), a call that is not never reaches an empty cell (`NeverUnderruns`), and even after one that is, what rests is in order (`RestsInOrder`); `RingInv` is why |
| `frame_link` | pass | undisturbed frames are delivered whole, in order, once, and cleared only when they are too slow, in the application and in the bootloader: `Aligned`, `DeliversOldest`, `ClearsOnlySlow`, `FramesArrive`, and `LinkInv`, why these hold; no garbage blocks the application's link (`Drains`), nor the bootloader's as long as a host keeps sending (`BootRecovers`) |
| `can_ring` | pass | the CAN ring is the drop-oldest queue except for a call it is overrun under (`IsQueue`), a call that is not returns a whole message (`ReturnsWhole`), and even after one that is, what rests is in order (`RestsInOrder`); `CanInv` is why |
| `node_params` | pass | `UuidTruthful`, and that an acknowledged ID is lost in one way only, `IdLostOnlyByStart`, with `ParamInv`, why they hold |
| `node_settings` | violation | settings a SAVE has stored do not survive a start |

### Bounds

* `OtaUpdate`: `ota_update` has an image of two pages (`a`), a compressed one that grows from one page to two
  (`z`) and a packed one with an original page size of 0 (`y`); `ota_version` has only `z`, with version 0, as one
  package is what it needs; the limit is two pages; half-words have 8 values, so a size needs both half-words and can
  exceed the limit. Three bad page writes are what three attempts can absorb. Two images are
  what mixing needs; two pages are what a half-written program needs.
* `MotorCtrl`: `TOP = 3` gives ramps of several steps that can be interrupted, `MAILS = 2` a
  mailbox that holds two stops and can be full, `LIMIT = 2` a watchdog that fires.
* `RingBuf`: three cells, nine bytes: full with two, and three laps may happen inside one call.
  `MaxBytes` bounds the bytes; the thread's calls go on without bound.
* `CanRxRing`: three cells, nine messages: full with two, and three laps may happen inside one call.
  `MaxMsgs` bounds the messages; the thread's calls go on without bound.
* `NodeParams`: two IDs besides 0xFFFF and two settings, one the default: enough to tell an
  assigned, a computed and an erased ID apart. Saves, frames and power failures are unbounded.
* `FrameLink`: frames of eight and four bytes in messages of at most six, so a frame spans two messages
  and a second one arrives behind it; the longer payload contains a complete valid frame, whole
  already in its first message, which is what a parser out of step would deliver; the ring of eight bytes overruns;
  the noise is four heads, the shortest that sends the scan astray, and a head with a length of nine, more than the
  ring holds, as the limit of 1460 is more than 1023: a frame that can never be complete.

### Fairness

`OtaUpdate`: the processor keeps executing (`WF` of `BootStep` and of `HandlerStep`); hosts
and power failures are not forced. Power fails finitely often (`<>[][~Crash]_vars`): no
property of an update survives a node that is switched off for ever. A bootloader step that
changes nothing else never coincides with a `Crash`. `MotorCtrl`: a thread that is ready runs and timers expire
(`MotorStep`, `HandlerStep`), and the can thread polls an empty ring (`IdleTick`); the host
is not forced to send. `RingBuf`, `CanRxRing` and `NodeParams` have no liveness properties. `FrameLink`: only the parser
thread is fair (`ParserStep`; it polls in an endless loop with a delay); bus and host may stop.
`FramesArrive` therefore has the time-out as one of its outcomes, and `Drains` is about a bus that has
become silent. A bootloader whose bus is silent may keep an incomplete frame for ever, the exception in `Drains`;
`BootRecovers` has the host that keeps sending, and a bus and a driver that stop losing messages, as its premise.

## Proofs

All theorems are checked by TLAPS for every value of the constants that satisfies the named
assumptions (`SizeAssumption`, `HeaderAssumption`, `ContentAssumption`, `MotorAssumption`,
`RingAssumption`, `CanAssumption`, `ParamAssumption`, `LinkAssumption`),
which TLC evaluates in the runs.

* The lemma `PackedStaysPacked`: the compression flag, the size and the CRC of the info page are programmed cell by cell by two
  programs that disagree about the layout, and power may fail between any two cells. `HeaderInv` says that the
  page nevertheless is always the beginning of one header (`HeaderStep`): the bootloader has erased it, and the
  application's header stops at its first cell over anything else (`FirstCellStops`, `BegunHeader`). That needs two
  hypotheses. `VersionsTell`: no version is 0, which could be programmed over the flag, or 0xFFFF, which leaves it
  erased. `HeadersTell`: no header of another image, displaced or torn, has by chance the size and CRC of a packed one.
  The code guarantees neither: both are what a host has to do, and `ota_version` shows what version 0 does. The lemma
  therefore is no result of its own but what the next theorems use. TLC evaluates the hypotheses for the
  images of `ota_update` (`PackagesTell` of `MCOtaPackages`); both are vacuous without packed images.
* `OtaInvariant`, `JumpSafety` (plain and packed images, on the same hypotheses): `JumpSafe` is not inductive, because the jump happens long after
  what makes it safe. `OtaInv` adds `ControlInv`, which ties the bootloader's
  control points to the flag (installing happens only while the flag says so and the copy
  area passes the check; everything else only while it does not), and `RunInv`: a run area
  that is neither a whole program nor visibly erased is always covered by a set flag and a copy area that passes.
  `OtaInit` and one lemma per group of actions show that `OtaInv` is inductive;
  `ReadBackWhole` is the heart: the read-back that accepts implies a whole program, from the
  bounds on sizes and the monotonicity of page numbers.
* `TypeCorrect`: type correctness of `OtaUpdate`, compressed images included.
* `RetriesPlain`: `RetryInv` ties the count of attempts to the faults. While an attempt has had no fault of its own, the
  pages it has passed equal the copy area's and the others are erased, so the read-back at its end accepts (`CopyReadsBack`).
* `OtaImplementsStore`: the refinement, for every kind of image. `InstallInv` says what `FirmwareStore` does not see:
  until the read-back accepts, the first page of the run area is erased, spoilt or the source's, so no other program can be whole
  there (`WholeFirst`, `FirstPages`); when an update is given up none is, which is what `Forget` needs, and before
  `Commit` the source is whole, so it is what runs afterwards (`WholeUnique`). `BootStepStore`, `HandlerStore` and
  `CrashStore` map each step: the last step of an End frame is `Replace` or `Mislead`, the frames and a power failure inside them are
  `Stage`, everything main() does to an honest package is a stutter but for `Fail`, `Forget` and `Restore`.
* `MotorTypes`, `MotorInvariant`, `StateIsTruthful`, `NeverReversedMoving`: `MotorInv` (`Orderly` as long
  as the host is patient) is inductive. It says that a drive command in progress has the motor thread to itself, that
  `Motor_cotorl` always is what the last stop on its way needs, that the output is `CCR_Va0` or
  one above it, and that a motor that turns with `Motor_state = 0` is being ramped down or
  has an emergency stop coming.
* `BrakedWhenRaised`, for any host: `BrakeInv` says that without the brake `CCR_Va0` is not above the output, except
  between the pins and the output of a drive command, and that `Motor_cotorl` keeps every ramp from turning there.

* `RingTypes`, `RingInvariant`, `NoUnderrun`, `BytesInOrder`: `RingInv` is inductive. `IndexInv` bounds the indices and the
  length a call asks for; `CallInv` says that, unless the buffer is overrun, what the thread has loaded is the head and the bytes a
  call still wants are in the buffer, because only this call takes bytes and an arrival leaves the
  head alone (`ArrivalAdds`); `FreshInv` says how far back from the tail the cells are in order: over what the
  buffer owes, and over the whole ring once it has been overrun, which is why any head a call then
  leaves behind is a good one. The lemmas replace the remainders of `GetLenFromBuf` by case distinctions.
* `RingIsQueue`: the refinement. `ByteQueue` lets the reader delete any number of the oldest bytes at any time, as
  `DelDataFromBuf` and `ClearDateFromBuf` do; that the reader's steps lose no byte the call did not ask for is what `RingInv` (and
  `CanInv` for the message ring) adds. `FromArrival` and `FromMoves` say how the beginning of the queue moves, the lemmas of `Laps` what that
  does to the sequence between it and the tail; `Arrives`, `Reads`, `Deletes` and `Stutters` map each step to one of `ByteQueue`.
* `CanTypes`, `CanInvariant`, `WholeMessages`, `RingRests`: `CanInv` is inductive. `Filled` says what number
  is in each cell, from the count and the write index alone, so no lost update of the read index can
  break it; `Behind` says that on the first lap no index is ahead of the handler; `Kept` and `Held` say what
  message and what indices a call that is not overrun has, and `Held` that the index `stm32_CAN_clear` loaded stays
  within the ring's contents, however many messages come before it is stored. `RestsInOrder` follows from `Filled`
  and `Behind` by arithmetic on the remainder.
* `CanRingIsQueue`: the refinement. `FromByIsr` says that the handler gives up the oldest message exactly when the
  queue is full; `Arrives`, `Takes`, `Clears` and `Stutters` map each step to one of `ByteQueue`.
* `ParamTypes`, `ParamInvariant`, `UuidIsTruthful`, `IdKept`: `ParamInv` is inductive. Its
  parts say what the page holds at each step of a save the CAN parser makes (`CanSaveInv`), when the UUID may be missing (`UuidInv`),
  what a start reads back (`StartInv`), and why a save of the UART parser
  that was interrupted cannot harm an acknowledged one: it finds the flash locked, an error pending or the
  cell written, unless its erase got through a flash that a Start frame has left open (`KeptInv`).

* `LinkTypes`, `LinkInvariant`, `FramesAligned`, `OldestDelivered`, `OnlySlowCleared`: `Aligned` says that, while nothing disturbs the
  link, the bytes in the buffer and on their way are the frames not yet delivered. That is inductive only with what the
  parser knows between its steps (`LinkInv`): its copy is a beginning of the buffer, an accepted frame is there and starts at
  offset 0, and the time-out is no older than the oldest frame. The heart is `FrameIsFound`: a buffer that starts with a
  frame lets the scan stop only at offset 0, with that frame once enough is there, whatever its payload contains.
  There is one lemma per action; `NextLink` puts them together.
* The stream of frames and the checksum are recursive functions. What they compute is proved by induction on numbers, stated for
  sets instead of predicates: `LeastOf` (a set of numbers has a least one, from `NatLessThanWellFounded`) gives
  `Induction`, from it `SumIsByte`, and for the concatenation of frames `FlattenExists`, `FlattenStep`,
  `FlattenAppend` and `FlattenHead`.

Only model-checked: all liveness, as TLAPS does not reason about fairness (`ServesUnlessEndless`, `CommittedRuns`,
`FastStopWorks`, `SlowStopWorks`, `FramesArrive`, `Drains`, `BootRecovers`). Every invariant, action property and refinement a
passing run checks is also a theorem. The violation runs have no theorems.

## What the code does that its comments do not say

Besides the findings that the violation runs show:

* the application's info page starts with a `Version` (`APP project/drivers/iap_if.h:68`) that the bootloader's does not
  have, so the bootloader reads every field shifted by one half-word; the comment at `flash_if.c:180` has the
  compression flag first. `Header` is the header as each program writes it;
* with `PerComPackOriginalSize` 0, which nobody checks, `uncompress` gets no input and no room and consumes nothing: the
  loop of `main.c:183-196` never ends, the bootloader starts no watchdog, and the flag still says update after a reset.
  The limit of `main.c:171` ("失败次数3次 退出升级", three failures end the update) is never reached, as the first attempt never counts
  as one. `ServesUnlessEndless` has this as its exception, and says that it is the only one;
* an acknowledged ID can be lost. The UART parser is preempted in a SAVE, inside `FLASH_ErasePage` behind its look at the
  error flags; the CAN parser saves and acknowledges; a Start frame over a written info page leaves the flash open
  (`flash_if.c:203`); the UART parser's erase goes through, and power fails before it has written the page again.
  `IdLostOnlyByStart` has this as its exception (`exposed`), and says that it is the only one;
* `Stop_fast0` cuts the output but leaves `CCR_Va0`, so a slow stop after an emergency stop puts the old duty cycle out
  again and ramps down from it (`motor_x.c:12`). The brake pin is on meanwhile: that no stop raises the output without it is `RaisedOnlyBraked`;
* without a patient host, `Interlock` fails, so the premise leaves out the very race of a drive command against a ramp: a forward command that interrupts a ramp is
  carried out, then `Stop_low0` clears `Motor_state` (`motor_x.c:15-16`) while the motor is
  driven, and the next backward command reverses it;
* a byte that arrives in a full buffer while `ReadDataFromBuf` looks without clearing
  moves `Tail` onto the saved head; restoring it (`usdl_buf.c:177`) makes `Head = Tail`, and the
  whole buffer is lost, where the comment (`usdl_buf.c:171`) has the head only "saved and
  restored". `IsQueue` has the exception this needs;
* the scan can leave the received bytes (`GoAstray`), which is why `Drains` has `pc = "fault"` as an exception;
* a ramp ends with a duty cycle of 1, not 0 (`motor_x.c:9-13`), which is why `Standstill` is
  `pwm <= 1`;
* the check of a package covers the bytes received, not the description of the unpacked
  image (`main.c:127-157`), which is used after the run area has been erased (`main.c:181`);
* the application does not erase the info page before it writes its header, whose first half-word is the version
  (`flash_if.c:190`, `can_ota_protocol.c:271`). With version 0 that half-word can be programmed over the compression flag the bootloader's Start has
  left there, and nothing after it can: a packed image is then copied raw and started (`ota_version`). `JumpSafe` is
  checked and proved for other versions, and fails with this one;
* an Update frame is acknowledged with state 0 although `Flash_Write` may have stopped early
  (`can_ota_protocol.c:296-298`);
* the time-out of the bootloader's update (`canbus_middle.c:940-944`) has the comment "清空缓冲区数据" (clear the
  buffer), but clears the driver's ring and not the buffer that holds the incomplete frame. The start of
  a frame that can never be complete stays until later bytes overrun it: the frames that arrive meanwhile
  are lost, but the bootloader does not stay deaf (`BootRecovers`); in `ota_protocol.c:428` it is 20 s where the
  comment says 5 s;
* `stm32_param_load` compares the first half-word of the page with the flag, and `stm32_param_save` has put an
  octet of the IP address there (`param.c:64-66`, `222-228`): every start is taken for the first one, and saved settings are
  overwritten with the defaults (`node_settings`);
* `device_id_set` (`manage_id.c:42`) then computes the ID from these defaults, so the ID a host has
  assigned and saved is the bootloader's but not the application's;
* a page whose flag was written before power failed is taken for complete (`iap_if.c:215`): the
  application then has an erased UUID, which no search finds, until the settings are saved again; the bootloader reads the
  UUID from the chip each time;
* the UART's WRITE takes the ID from the start of what was received, not of the frame (`uart_ota_protocol.c:428`);
* `drv_can.c:423-471` handles throttle frames in the interrupt under `DCG_board`, a symbol no
  project file defines;
* the length limit in the frame scan is 1460 where the comment says 1200, and the ring below
  it holds 1023 bytes (`can_ota_protocol.c:208-209`, `440`).

## Not modelled

A second writer of a ring buffer;
acknowledgements of the update and the host's reaction to them; two updates at once (UART and CAN);
the receive loop of the UART's update and its time-out; sending on CAN; several nodes on one bus (shared IDs, interleaved answers);
what the processor does in a run area that is not a program; boards, drivers and libraries listed
above; vendored code, which is most of the repository's lines, except for the parts the actions need (mailbox, priorities, flash
programming). `PROJECT.json` lists the hazards no property covers yet.

## Plan

1. Done: `OtaUpdate`, `MotorCtrl`, `RingBuf`, `FrameLink`, `CanRxRing`, `NodeParams`, and a theorem for each of their invariants, action
   properties and refinements.
2. The receive loop of the UART's update with its time-out; two updates (UART and CAN) over one flash; two threads that write one
   byte buffer.
3. Search and ID assignment among several nodes; the stepper control of ACCG.
4. Theorems: an abstract specification of the parameter pages (an identity that survives resets) that `NodeParams` implements.
