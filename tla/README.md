# Verification of the PIC16F1454 bootloader

TLA+ models of the bootloader in this repository, of the programs that talk to it
and of the example applications that share its USB stack, with TLC configurations
that check them on small instances and TLAPS proofs for every size of instance.
Paths below are relative to `src/`.

## The system

A PIC16F1454 keeps a 4K-word USB bootloader at the bottom of its flash. The upper
half, 0x1000..0x1FFF, is for the user's program. A desktop program (the *download
tool*) reads an Intel hex file, appends a CRC and sends the image to the bootloader
in 64-byte HID reports. Next to it are five example applications, and a program that
numbers boot loaders in mass production.

Nothing runs in parallel inside of most of the firmwares: `main()` is one loop that
calls `usb_service()` and then serves at most one command. What makes the system
hard is between the parts: the USB engine, which takes and hands out buffers while
the program runs; the host, which can reset the bus, cut the power, or go away
between any two transactions; the tool, which may be killed, time out and be started
again on top of whatever its last run left behind; and HIDAPI, which reads in a
thread of its own.

### Components

| Component | State | Operations | Talks to | What is hard | What makes it correct |
|---|---|---|---|---|---|
| Command server, `bootloader/main.c` | program flash, user IDs, `TxDataBuffer` | power-up decision; read, erase, program, each for program or configuration memory | EP1 through `usb.c` | a command is only partly carried out when power fails; the reply is put together in the buffer that is being sent | each accepted command carried out once, in order, with one intact reply; user code starts only from a whole image |
| User flash | 128 rows of 32 words | erase a row, program 16 words (only clears bits) | the command server, user code | an erase or a write can be torn; either of two CRC words can vouch for the whole | no word programmed twice between erases |
| CRC, `main.c` and `download.cpp` | address, CRC | boot-time loop; host-side loop | - | two different loops over two places for the CRC must agree | host and device compute the same word; a changed bit is noticed |
| Download tool, `download-tool/download.cpp` | image, device handle, row, step | load a file (`hex_button_cb`), flash (`flash_button_cb`, `xfer`) | HIDAPI | a reply is matched to a command by position only; nothing is read back; one image serves all files | success reported only if the image is in the flash; a run always ends; the image is the last file's |
| HIDAPI, `download-tool/linux/hid-libusb.c` | report list, read thread, shutdown flag, transfer, handle | `hid_open`, `hid_write`, `hid_read_timeout`, `hid_close` | libusb, kernel driver, tool | list shared between threads; every call may fail; close against callback | each report returned once, in order; calls return; nothing stays open |
| USB stack, data endpoints, `usb.c` | buffer ownership, data toggles, halt flags, `g_configuration` | send, arm, halt, clear, configure, reset | engine, `main()` | two owners of one buffer; two ends that must keep the same toggle | no report lost or doubled |
| USB stack, endpoint 0, `usb.c` | `addr_pending`, `control_need_zlp`, `returning_short`, `ep0_data_stage_*`, EP0 buffers | SETUP, IN and OUT handlers | host, application callbacks | the handlers run behind the wire: the host may be one stage ahead, or in a new transfer | data intact, STALLs for the right request, address agreed, one callback per transfer unless a bus reset drops it |
| Requests and descriptors, `usb.c`, `usb_hid.c`, `usb_cdc.c`, `usb_descriptors.c` | - | answer a setup packet | endpoint 0 | tables that repeat what other files define | an enumerating host learns what is so |
| Examples, `example-apps/*` | key, report, figure and counter state, serial buffers | one loop each | USB stack | hid_mouse calls `usb_service()` from the interrupt; a lost report may be the one that releases a key | no key typed twice or left down, no byte lost |
| hidtest, `example-apps/customHID/hidtest.cpp` | - | a command, a query | customHID, HIDAPI | takes the first report for its answer | prints the counter as it is |
| `mass-production/sqtp-numgen` | - | writes serial-number records | a programmer | byte addresses, word addresses, RETLW words | each device reads its own number |

`PROJECT.json` lists each with its status and, under `hazards`, what can go wrong at
which line and which property would notice.

The repository has the USB stack six times. `usb.c` and `usb_hid.c` of customHID,
hid_mouse, mouseplay and passfob are the bootloader's but for line ends.
minimalCDC's `usb.c` is a newer version: SET_CONFIGURATION initialises the
endpoints, the halt of endpoint 0 is refused, and a SETUP cancels what endpoint 0
had to send. The models follow both (`newer`); a behaviour that the five older
copies share is modelled once, so that the lines of the others have no row of their
own in the map.

## What is modelled

### The device's memory: `ProgramMemory`, `BootCrc`

`ProgramMemory` is the user flash as `2 * NumRows` units of 16 words. One command
reads or programs one unit and an erase clears two, so a unit is the finest grain
that any part of the system distinguishes. A unit's content is a model value;
programming a unit that is not blank yields `Garbage`. `PassedCrc` is the power-up
check of `bootloader/main.c:87-137`: a CRC that matches at 0x1F7F or at 0x1FFF. Here
the CRC is ideal (`IdealCrc`): it identifies the words it covers. That is an
assumption; 14 bits make an accidental match one in 16384.

`BootCrc` has the CRC itself, bit by bit: the loop of `hex_button_cb()` that seals
an image and the loop of `main()` that checks the flash, which go through the words
in different ways, have different word widths, and look for the two places of the
CRC after the address has been incremented. `SealedStarts`: what the first seals the
second accepts. `OneBitIsNoticed`: it does not once a bit is changed.

### The command server: `CommandServer` implements `CommandPipe`

`CommandServer` is `main()`. `ExecRead`, `ExecErase`, `ExecProgram` and `ExecOther`
are one pass of the command loop each, from the two tests at `main.c:185-202` to the
send and re-arm at `main.c:314-317`. `outFull` and `inBusy` are the ownership bits
of the two EP1 buffers, `rx` and `tx` what they hold. A read fills `tx`, any other
command only overwrites the echoed bytes, so that its payload is what the last read
left. `PowerCycle` may fall in the middle of the command that is being carried out
and tear it. `WatchdogReset` is the way back from user code.

`CommandPipe` is what a host may rely on: a queue of one, carried out in order, each
command exactly once, one answer each, forgotten only by a reset.

### The update: `FirmwareUpdate` implements `AtomicUpdate`

`FirmwareUpdate` adds the tool and HIDAPI to the device. `phase` is the `xfer()`
that `flash_button_cb()` is at, and `awaiting` which half of it. `HidWrite`,
`GotId`, `GotErase`, `GotVerify`, `GotProgramLower` and `GotProgramUpper` follow
`download.cpp:267-377`. `hostQ` is HIDAPI's `input_reports`; `Poll` is the read
thread, which runs as long as the device is open, the time the alert box is up
included. `Kill` and time-outs can come at any point.

`AtomicUpdate` is the user's view: user code runs only from a whole image that was
offered, success means the chosen one, and it stays until the next update.

### The file: `HexFile`

`hex_button_cb()` record by record: data that begins before, in or behind the area,
upper addresses, the end, a file refused half way, several files one after the other
into the same image. The reference is the image a reader of the file would expect.

### HIDAPI: `ReportQueue`, `HidDevice`, and `InputReports`, which they implement

`ReportQueue` is the program's thread in `hid_read_timeout()` and `hid_close()`
against `read_thread()` and `read_callback()`, with the mutex, the condition
variable, the transfer and its completion, the list with its limit, and an unplugged
device. `InputReports` is what a reader may rely on: reports in order, each once,
the oldest dropped at a limit, and a failure only after the reports that came before
the disconnection. `HidDevice` adds `hid_open()`: `hid_enumerate()` looks for the
device, `hid_open_path()` for its path once more, opens it, detaches the kernel's
driver, claims the interface and starts the threads. Each libusb call may fail, the
device be unplugged or another be plugged in, and another program take the
interface, between any two of them.

### The USB stack: `DataEndpoint` implements `ReportPipe`; `ControlEndpoint`; `UsbDevice` implements `DataEndpoint`

`DataEndpoint` is one data endpoint number: two buffer descriptors, the flags byte,
both toggles at both ends, against a host that loses handshakes, halts, clears,
configures and resets. `ReportPipe` is the lossless channel it implements: a report
arrives once, or is lost to a break of the host's own.

`ControlEndpoint` is endpoint 0. The wire (SETUP, IN, OUT) and `usb_service()` are
separate: each transaction puts an event into the USTAT FIFO (`events`), and the
handlers take the oldest, so that the host may be a stage ahead of the code.
`HandleSetup` is `handle_ep0_setup()`, `HandleStatusOut` and `HandleDataOut` the
halves of `handle_ep0_out()`, `HandleInMore`, `HandleInZlp` and `HandleInDone` the
branches of `handle_ep0_in()`. A request stands for what the handler does with it.
Descriptors are lengths, and a packet is named by the request and offset of its
bytes. `BusReset` is `usb_init()`, which also drops a callback that is pending; two
histories, `owed` and `lost`, keep account of the callbacks due and of one dropped so.
PKTDIS is taken to be cleared by the reset
itself, since the code clears it only after a SETUP. A `profile` is a firmware with
its host: which requests it is asked, which of them may be given up, and whether
`usb.c` is the newer copy.

`UsbDevice` puts the two together: one USTAT FIFO of four, one event a turn, and
requests of endpoint 0 that halt, clear and configure the data endpoint while it is
in use. `RequestsAreAtomic` says that it implements `DataEndpoint`, where such a
request is one step, and `ReportsGetThroughOnce`, since `DataEndpoint` implements
`ReportPipe`, that `UsbDevice` does too. The second is proved; the `control` run does
not record the history it is about (`Recording`), which would make its state space
eight times as large. With `Recording = TRUE` and without the other properties, TLC
agrees in a minute and a half.

### Requests and descriptors: `Firmwares`, `Requests`, `Descriptors`

`Firmwares` has the tables of the six firmwares, `Requests` what each of them makes
of a setup packet (`handle_standard_control_request()`, `usb_hid.c`, `usb_cdc.c`,
the callbacks), and `Descriptors` a host that reads its way through one: device,
head of the configuration, all of it, strings, SET_CONFIGURATION, then what the
class and the announced endpoints are asked. `Understood`: it is never stalled, and
the interfaces, endpoints, sizes and reports it has learned of are those that
`usb_config.h` and `main()` use.

`Requests` answers in terms of `ControlEndpoint`, and `MCUsbDevice` assumes
(`ProfilesCover`, which TLC evaluates) that every answer of every firmware has the
shape of a request that the `control` run makes of its copy of `usb.c`: as many
packets, as far as it matters, and the same end of the data stage. So the profiles
leave out nothing that the firmwares can be asked.

### The examples: `Example`, `Examples` and a module each

Each is a `main()` on top of `DataEndpoint`, against a host that may break the pipe
a number of times. `Examples` puts them side by side, `app` says which is there.

- `HidMouse`: `usb_service()` runs in the interrupt, so that `main()` is divided
  wherever it reads what the interrupt changes. Each of its three tests
  (`main.c:81-83`) is a step, each of the two in `usb_send_in_buffer()`
  (`usb.c:1444-1450`), and the reading of the toggle, the hand-over and the flip of
  the toggle in its middle. A reset, a halt or a clear may come between any two.
- `PassFob`: the button, its debouncing, the keys and their releases.
- `PassFobLock`: the lamps, the count of frames, the watchdog that leads back to the
  bootloader.
- `MousePlay`: the figure and the timer byte that wraps.
- `CustomHid`: both commands, with `hidtest.cpp` at the other end.
- `MinimalCdc`: bytes between the USART and endpoint 2, through three buffers each
  way, with the newer `usb.c`.

### Serial numbers: `SerialNumbers`

Every record that `sqtp-numgen` writes, a programmer that puts it into the flash,
and the string descriptor as the firmware then reads it.

### Instances and proofs

The `MC*` modules instantiate the constants. `Calculations` puts `BootCrc`,
`HexFile`, `SerialNumbers` and `Descriptors`, which have nothing to do with each
other, into one specification. A module `XTheorems` holds the proofs about `X`:
`CommandServerTheorems` (with `ProgramMemory`), `FirmwareUpdateTheorems`,
`DataEndpointTheorems`, `HidDeviceTheorems` (with `ReportQueue`),
`ControlEndpointTheorems`, `UsbDeviceTheorems` on top of both, `ExamplesTheorems`
on top of `DataEndpointTheorems`, and `CalculationsTheorems`. What an invariant adds to the properties is next to
the model where it says something about the code (`SealInv`, `QueueInv`, `StopInv`,
`HidInv`), and in the theorem module otherwise.

## What the runs check

| Run | Properties | Shows |
|---|---|---|
| `command_server` | `ServesInOrder`, `CommandsTakenUp` | for a host that sends any command at any time, a queue of one command with one answer each, across resets and power cuts |
| `firmware_update` | `TypeOK`, `SuccessMeansInstalled`, `ProgramsBlankUnits`, `InStep`, `RunEnds`, `UpdateIsAtomic`, `EventuallyInstalled` | an update with kills, time-outs, bus resets, power cuts and erases that may spare the lower half of a row; a user who keeps trying gets an image in once nothing interferes |
| `control` | `ReadsIntact`, `StallsMatch`, `AddressesAgree`, `OneCallbackEach`, `WritesIntact`, `TransfersEnd`, `RequestsAreAtomic` | endpoint 0 of seven profiles, and with it the data endpoint |
| `data_endpoint` | `DeliversOnce`, `OffersEnd` | the data endpoint of either copy of `usb.c` |
| `hid_device` | `OwnsWhatItUses`, `ReturnsInOrder`, `ReadEnds`, `CloseEnds` | HIDAPI from open to close |
| `calculations` | `SealedStarts`, `OneBitIsNoticed`, `ImageIsTheFile`, `AsksOutOfBounds`, `ReadsItsNumber`, `Understood` | the CRC, the hex file, serial numbers, descriptors |
| `examples` | `TogglesMeetAgain`, `StaysOnLine`, `KeepsReporting` (hid_mouse), `TypesInOrder`, `TypesWhenMeant`, `ReleasesKeys`, `RebootsWhenAsked` (passfob), `StaysOnFigure` (mouseplay), `CountsOnce`, `PrintsItsCount` (customHID), `BytesInOrder`, `BytesGetThrough` (minimalCDC) | each application against its host |
| `address_given_up`, `configured_again`, `unplug_race`, `empty_packet_left`, `callback_dropped` | one each | violations: see Findings |

Some results are worth a remark.

`SuccessMeansInstalled` with `InStep`: `xfer()` (`download.cpp:387-407`) never
checks what a reply answers, and a killed run leaves up to two replies behind. A run
which starts behind always fails at the first erase verify: the reply it takes there
is one that carries configuration words, not an erased row. It never reports a false
success, and a run that gets past that point is in step for good.

`TogglesMeetAgain` and `StaysOnLine`: in hid_mouse a reset between the test and the
hand-over leaves a buffer with the wrong toggle, and no order of interrupts makes
this last: the host drops at most two reports before it takes one. A reset between
two of the tests of `main()` takes two reports as well, the one in the buffer and the
one that `main()` goes on to fill, which `usb_send_in_buffer()` drops
(`usb.c:1450`). No break costs more than two in a row, of which at most one is a step
of the line, since a step is followed by at least two reports that do not move; with
`Pause` 2 instead of 3 TLC agrees, too.

`ReadEnds`: `shutdown_thread` is set without the mutex, but `read_thread()`
broadcasts under it, after the flag and at its end, so that a reader cannot fall
asleep over either.

### Bounds, and why they are enough

- *Two rows, two images* (`firmware_update`). A row is enough for the loop body; the
  second makes "the next row" and "the last row" different. Two images make blends
  possible. They share one unit, one has a blank unit, one is sealed at 0x1F7F as
  well, and one contains a unit that looks like a Device ID. The proofs cover any
  number.
- *Every operation at a lower and an upper unit* (`command_server`): with two
  buffers of one entry, the device holds at most two commands or replies.
- *`EP_0_LEN` = 2, stages of up to five bytes* (`control`). One, two and three
  packets, with a last packet that is short, full, or full and followed by an empty
  one; `ProfilesCover` shows that the firmwares, with packets of eight bytes, have
  no other shape. The host makes any sequence of the requests of a profile, so that
  every left-over of one kind of transfer meets the beginning of every other. One
  report is enough for the data endpoint here, since arrivals are numbered by a bit;
  `data_endpoint` has two.
- *Two reports, a limit of one, two addresses* (`hid_device`). The list drops its
  oldest with three in it. Two addresses tell a device from the one that replaced
  it.
- *Width 14 and the code's own polynomial, two pages of four words*
  (`calculations`): both places of a CRC, a page's end and the step from one page to
  the next. An area of four bytes with records of one or two bytes before, across
  and behind either end, three records to a file. All 4097 serial numbers; all six
  firmwares.
- *Small counters* (`examples`): `Steps` 2 and `Pause` 3 (100 and 7 in hid_mouse), `Trigger` 2, one
  frame to four for 800 to 1200, bytes that wrap at 4, packets of two bytes. They
  are compared and wrap as in the code. One break of the pipe, or two (`MCBreaks`),
  where the property counts breaks.
- No queue is capped by a bound of the model: `hostQ`, `events` and the buffers are
  bounded by who owns what.

### Fairness, and why the code justifies it

- Weak fairness of the firmware (`Execute`, `Service`, `Turn`, `FirmwareReads`,
  `Background` for hid_mouse's interrupt): `main()` loops for ever.
- A host polls an endpoint whose driver is there (`DeliverIn`, `Poll`, `InToken`),
  repeats what was not answered until a handshake gets through (strong fairness of
  tokens and packets, because a lost one disables them for a while), configures a
  device and clears an endpoint that stalls. Losing, halting, giving up and breaking
  are never fair, with one exception: a host that has halted endpoint 0 does not
  wait for ever for its own transfer (`halts /\ GiveUp`).
- `ToolFairness`: `hid_write()` and `hid_read_timeout()` return by their time-outs
  of 1000 ms. `RunEnds` rests on this alone, and not on the device.
- `SystemFairness`, a premise of `EventuallyInstalled` only: the user tries again,
  and closes the box when the device has answered (`Settled`); firmware and host go
  on. The property also assumes that from some point on the device is in the
  bootloader, a file is loaded and every step is `Undisturbed`: a `Calm` one, an
  erase that clears its row, and no box closed before the device has answered. A
  user who always closes the box at once can stay one reply behind for ever.
- HIDAPI: weak fairness of either thread, strong fairness of the two steps that take
  the mutex (`Put`, `Wake`): a thread that wants a mutex which is free again and
  again gets it.

## Findings

### Shown by a run

- `address_given_up`: `addr_pending` survives a SET_ADDRESS that the host gave up,
  and the next IN of any transfer sets the address (`usb.c:1271`).
- `configured_again`: the older copies leave toggles and buffers of the data
  endpoint alone when a configured device is configured again, and a report is lost
  or repeated (`usb.c:936`; minimalCDC's copy says what USB requires, and does it).
- `empty_packet_left`: `control_need_zlp` survives a read given up when only its
  empty packet was left, and a later transfer of the application ends without its
  callback (`usb.c:1290`).
- `callback_dropped`: a bus reset in the middle of an application's transfer drops its
  callback. `usb_init()` ends in `reset_ep0_data_stage()`, which forgets the callback
  without calling it (`usb.c:657`, `:467-479`), and the next request reaches
  `UNKNOWN_SETUP_REQUEST_CALLBACK()`. `include/usb.h:275-279` promises the callback
  before that, and that one buffer is therefore safe for all transfers.
  `USB_RESET_CALLBACK()`, empty in the examples, says nothing of a transfer.
- `unplug_race`: the result of `libusb_submit_transfer()` in `read_callback()` is
  not looked at. If the device goes between completion and resubmission, a blocking
  read never ends (`hid-libusb.c:673`).

The passing runs leave out four of these: no SET_ADDRESS given up, a second
SET_CONFIGURATION with the newer copy only, no read given up before its empty packet
where there are callbacks, no unplugging between completion and resubmission. The
fifth is in them: the `control` run resets the bus in the middle of an application's
transfers. It checks `OneCallbackEach`, which lets the reset drop the callback, and
not `CalledBackFirst`, the promise of `usb.h`, which `callback_dropped` refutes.

### Without a run of their own

A constant or a profile of the models lets each of these happen; the properties
named fail then.

- The erase verify (`download.cpp:328`) compares 16 words of a 32-word row. A part
  that fails to erase the upper half gets a success reported (`EraseFaults` with the
  whole row: `SuccessMeansInstalled`). The boot-time CRC then refuses to start it.
- A standard answer of exactly one packet, asked for with a larger length, is not
  followed by an empty packet (`usb.c:814`; with a `Read("read", 2, 5)` host and device wait for each other for ever).
  No descriptor here is 8 bytes long.
- Once the last packet of an application's transfer is loaded, giving it up makes
  its callback get lost or be called for a later transfer (`usb.c:1138-1143`;
  `givesUp` with "appRead" or "write": `OneCallbackEach`).
- The OUT buffer of endpoint 0 is armed without toggle synchronisation, so that a
  data packet repeated after a lost ACK is stored twice (`usb.c:674`; `loses` with "write" and a `Write(4, 4)`: `WritesIntact`).
- passfob offers its one byte whatever `wLength` says (`passfob/main.c:254`): a
  write that fills whole packets but less than was offered gets no status stage (with a `Write(4, 2)` host and device wait for each other for ever).
- A write that ends before the application's buffer is full leaves
  `ep0_data_stage_buf_remaining` above zero, and the status stage is taken for a
  data stage to go on with: the rest of the buffer is loaded to be sent, and the
  callback does not come (`usb.c:1276`; a `Write(3, 1)`: `WritesIntact`).
- A buffer of whole packets that is full ends the data stage, although the host may
  still have up to one packet for it: the callback reports success for a write that was cut
  (`usb.c:1248`; a `Write(2, 3)`: `WritesIntact`).
- In hid_mouse a halt between the tests and the hand-over is undone by it for one
  report (`hid_mouse/usb.c:1451`).
- `hid_close()` takes a cancellation to succeed. libusb documents that it fails for
  a transfer that is complete already; the thread may then wait for a callback that
  has come, or free a transfer that is pending (`hid-libusb.c:714`; `CancelWins`
  FALSE: `OwnsWhatItUses`).
- An error of `libusb_handle_events()` ends the read thread's loop, and only the
  callback of the cancelled transfer sets `shutdown_thread`. If the call that waits
  for it fails too, nothing does, and a blocking reader goes back to sleep
  (`hid-libusb.c:706-717`; "last" among `EventErrors`: `ReadEnds`).
- The list holds two reports more than the comment at `hid-libusb.c:651` means:
  `Limit + 2` in `InputReports`.
- Any extended address record ends the program's data, one that says zero included
  (`download.cpp:154`; a 0 among `Uppers`: `ImageIsTheFile`).
- passfob counts any change of the lamps as the beginning or the end of Scroll
  Lock's second (`passfob/main.c:237-243`; `OtherLeds` {"caps"}:
  `RebootsWhenAsked`).
- hidtest takes the first report for its answer, also one that an earlier, killed
  run asked for (`hidtest.cpp:163`; `KilledWaiting` TRUE: `PrintsItsCount`).

### Read, not modelled

- A command shorter than 64 bytes: `len` is not used at `bootloader/main.c:205`.
- The linear address computed from a banked one is wrong from bank 2 on
  (`usb.c:463`); the buffers here are placed at 0x2080, which is bank 1.
- The report descriptors of bootloader and customHID have other logical limits than
  their comments say (`usb_descriptors.c:82-83`: bytes 0x01 and 0x40, comments 0x00
  and 0xFF).
- GET_STATUS of an interface is stalled, which USB wants answered. passfob declares
  a boot keyboard and refuses SET_PROTOCOL.
- A data stage of length zero: a GET_REPORT of an application never calls its
  callback, a SET_LINE_CODING never gets its status stage.
- HIDAPI: the kernel's driver is never attached again; the result of
  `libusb_get_device_list()` is used unchecked (`hid-libusb.c:758`) and that of
  `pthread_create()` is not looked at (`:848`); `hid_open_path()` does not check
  vendor and product again; it goes on looking after it has opened a device
  (`:774-860`), so that an interface with several settings would be opened twice;
  `hid_open()` with a serial number compares with NULL when the strings cannot be
  read (`:595`).

## What is proved

With TLAPS, for every value of the constants that the modules' assumptions allow
(any flash, images, commands, reports, packet sizes, tables, counters, hex files,
polynomials and numbers of breaks). A hypothesis of a theorem is something the code takes for granted; each is
listed here with the run or finding that shows what happens without it.

| Theorem | States | Hypotheses |
|---|---|---|
| `ServesInOrderCorrect` | `CommandServer` implements `CommandPipe` | - |
| `TypeCorrect` | `TypeOK` of `FirmwareUpdate` | - |
| `SuccessCorrect`, `BlankCorrect`, `StepCorrect` | `SuccessMeansInstalled`, `ProgramsBlankUnits`, `InStep` | `UpperHalfErases`: an erase never fails in the upper half of a row (`EraseFaults`, Findings) |
| `UpdateCorrect` | `UpdateIsAtomic`: `FirmwareUpdate` implements `AtomicUpdate` | the same |
| `OwnsCorrect` | `OwnsWhatItUses` | `CancelWins`, "last" not in `EventErrors`, no unplugging between claim and first transfer (Findings, `unplug_race`) |
| `ReturnsCorrect` | `ReturnsInOrder`: HIDAPI's reads implement `InputReports` | - |
| `ControlTypeCorrect` | `TypeOK` of `ControlEndpoint` | - |
| `ControlReads`, `ReadsCorrect` | `ReadsIntact`, in `ControlEndpoint` by itself and in `UsbDevice` | - |
| `ControlStalls`, `StallsCorrect` | `StallsMatch`, in both | `LosesNoWrite`: no ACK of a write is lost (Findings) |
| `ControlAddresses`, `AddressCorrect` | `AddressesAgree`, in both | `CompletesAddress`: no SET_ADDRESS is given up (`address_given_up`) |
| `ControlWrites`, `WritesCorrect` | `WritesIntact`, in both | `WritesFit`: no ACK of a write lost, and no write that ends before the application's buffer does or, where that is whole packets long, within a packet behind it (Findings) |
| `ControlCallbacks`, `CallbacksCorrect` | `OneCallbackEach`, in both: a callback comes once, by the end of its own transfer, or is dropped by a bus reset | `Orderly` (below) |
| `ControlCalledBackFirst`, `CalledBackCorrect` | `CalledBackFirst`, in both: it comes before the next transfer | `Orderly`, and `Uninterrupted`: no bus reset meets a firmware with callbacks (`callback_dropped`) |
| `RequestsAtomic` | `RequestsAreAtomic`: `UsbDevice` implements `DataEndpoint` | `SeesThrough`: no request for the data endpoint is given up |
| `ReportsCorrect` | `ReportsGetThroughOnce`: `UsbDevice` implements `ReportPipe`, its history recorded | the same; a host configures once after a reset, or the newer copy (a guard of `HostRequests`) |
| `DeliversOnceCorrect` | `DataEndpoint` implements `ReportPipe` | a host configures once after a reset, or the newer copy (`configured_again`) |
| `HaltedCorrect` | an endpoint answers STALL exactly when its halt flag is set | - |
| `TogglesCorrect` | `TogglesMeetAgain` (hid_mouse) | a host configures once after a reset |
| `LineCorrect` | `StaysOnLine` (hid_mouse) | the same, and `Pause >= 2` (the code's delay is 7) |
| `TypesCorrect` | `TypesInOrder` (passfob) | configures once; the keys of the table differ, as the code's do: the host tells a report's place by its key |
| `MeantCorrect` | `TypesWhenMeant` (passfob) | - |
| `RebootsCorrect` | `RebootsWhenAsked` (passfob) | no other lamp (`OtherLeds`, Findings) |
| `CountsCorrect` | `CountsOnce` (customHID) | configures once |
| `PrintsCorrect` | `PrintsItsCount` (hidtest) | configures once; not after a killed run (`KilledWaiting`, Findings) |
| `FigureCorrect` | `StaysOnFigure` (mouseplay) | configures once |
| `BytesCorrect` | `BytesInOrder` (minimalCDC) | - |
| `SealedAlwaysStarts` | `SealedStarts`: tool and boot loader agree on the CRC | - |
| `OneBitAlwaysNoticed` | `OneBitIsNoticed` | the polynomial has its highest bit; 0x23B1, of fourteen bits, has bit 13 |
| `ImageAlwaysTheFile`, `AlwaysAsksOutOfBounds` | `ImageIsTheFile`, `AsksOutOfBounds` | no extended address record says 0 (`Uppers`, Findings) |

The hypotheses about endpoint 0 are at the end of `ControlEndpoint` and of
`UsbDevice`; they are asked of every profile, one by one, and each property is proved
from its own. None is there for the proof's sake: over hosts that may give up, lose
and send anything, TLC violates each property without its hypothesis. `Orderly`
asks that a host sees through what the application takes part in, with writes that fill
its buffer, and, where there are callbacks, does not give up a read of other data that
ends with an empty packet (`empty_packet_left`). Packets of a write may be repeated:
that spoils its data, not its callback. TLC evaluates on the `control` run that all of
its profiles satisfy all of them, but for `Uninterrupted`: the profile of an application
has bus resets.

### The inductive invariants

Hardly any of these properties is inductive. TLC checked each strengthening on the
run's instance before it was proved.

*`FirmwareUpdate`*, `IInv`:

- `HandleInv`: a live handle has a configured device in the bootloader at its other
  end; a dead one has nothing left in the device.
- `CountInv`: what is in flight (queue, IN buffer, OUT buffer) is exactly what was
  left over plus what is awaited.
- `BehindInv`: a run that began with left-overs is in row 0 and before the end of
  its first verify, and the reply it will take there carries configuration words,
  counted by position in the queue. This is the heart of the argument.
- `SyncInv`: a run that began clean has in flight only the current command or its
  reply.
- `RowsInv`: rows already done hold the image; in the current one, which units are
  blank and which are programmed follows from the step.
- `DoneInv`: after success nothing is left in the device that could change the
  flash.

The proof is one lemma per group of actions (`OpenIInv`, `WriteIInv`, `GotIdIInv`,
...) under `NextIInv`; the lemmas about `ProgramMemory` at the head of
`CommandServerTheorems` say what erasing and programming do to each unit. For `UpdateIsAtomic` it takes `SealInv` beside it: a unit that ends
with the CRC of an image is in the flash only if that image was offered, whatever an
erase spared and whenever the power failed, so that a check that passes vouches for
an offered image.

*`CommandServer`*: types suffice. Who owns which buffer is in the refinement mapping
(the queue is `rx` while `outFull`, the answer is `tx` while `inBusy`), and the proof
shows for each command that the answer in `tx` is not touched once it is sent.

*`DataEndpoint`*, `EndpointInv`: who owns a buffer follows from the flags and the
configuration, and the two ends' toggles agree or differ by exactly the packet that
one side has and the other has not seen acknowledged. The refinement is one lemma
per action: a transaction is an arrival or a stutter, according to the toggle.

*`ControlEndpoint`*, `ControlInv`: one conjunct for each thing that can be behind.
The first hold for any hosts. `QueueInv`: at most one SETUP, IN and OUT wait in the
FIFO, a SETUP behind all, and the buffer is the CPU's while the IN of a transfer under
way waits. `ReadInv` and `PacketInv`: in a read that the device knows of, the packet in
the buffer is the one the host expects or the last it took. `AnswerInv`: a request
without data, or that is refused, is answered as it should be. The others begin with
the hypothesis they need, a constant of the proof. `WriteInv`, if no write is lost: the packet waiting
is the next for the buffer, or the write is refused; `RefusalInv` and `WriteDoneInv`
keep what follows for the end of the transfer. `FillInv`, if hosts are orderly: with
packets repeated, the device has at least what the host has sent, and is done only
when the buffer is full, so that a write's callback comes with its status stage.
`SendInv` and `ZlpInv`: what is left to be
sent belongs to the current request, or to one that may be given up and is dropped
by the next. `CallbackInv` and `AddressInv`: who a pending callback and address
belong to. `LostInv`: without bus resets no callback has been dropped. The steps are those of `ControlEndpoint` and those of the data
endpoint's events, which share the FIFO, so that `UsbDevice` takes the result over.
`DeviceInv` adds that halted buffers are stalled; with it no data event, however late, is
seen to change anything, and each request takes effect in the one step that sends its
status packet. `ReportsCorrect` then instantiates `DataEndpointTheorems` with the same
refinement mapping (`Proved`) and needs no invariant of its own.

*HIDAPI*: `QueueInv` and `StopInv` relate the states of the two threads, the transfer
and its status; `StopInv` says that a thread which has left its loop waits for the
cancelled transfer and submits no more. `OpenInv` and `OwnedInv` follow the handle through
`hid_open()`: from the claim on, a path that leads somewhere leads to the device
asked for.

*Examples*: the invariants relate `main()` to the host through `EndpointInv`, with
one number in each.

- `KeysInv`: `Lag` is how many reports the host is short of by now and will notice
  with the next one it takes; what it has missed and `Lag` together are at most the breaks.
- `HidCountInv`: `counter` and what is stored in the buffer together are the
  commands acknowledged and what is not yet known to be.
- `HidTestInv`: what `hidtest` has in its list, in the device and on the way, by its
  step.
- `CdcInv`: the numbers of the bytes in the three buffers on either way form one run
  (`Chain`), and what a step moves is a head or a tail of it.
- `ButtonInv` and `LockInv`: counters of `main()` and of the world agree.
- `PlayInv`: the report in hand (`UnderWay`, or none) brings the pointer to where
  `main()` is in its table, but for the sum of at most one move for each break.
- hid_mouse sends from two contexts, and `EndpointInv` is not an invariant: the
  buffer may carry the wrong toggle. `WireInv` has what is left of it. `ToSkip`
  counts the packets that the host will still drop, at most two, from where `main()`
  is in `usb_send_in_buffer()`, the toggle it has read and the one it will read next.
  `DrawInv` and `LostInv` add the pointer: a break puts the report in the buffer, the
  one in hand *or* the next at stake, with a movement in at most one of them, since a
  step is followed by a pause. `main()` may stand between two tests that see
  different states of the device; `Testing` and `Entering` say what the ones behind
  it still guarantee.

*`HexFile`*, `HexIInv`: at every record, what is loaded equals the file so far on the
user's area, and `outOfBounds` is set once anything else holds data. The flag
`extended` is true exactly when the upper half of the address is not 0, which is what
the hypothesis about `Uppers` is for.

*`BootCrc`*, `CrcIInv`: the tool forgets its sums as it goes on, and the boot loader
goes over the same words later by pages and words. `CrcTrail` recovers them: there is
a function from addresses to the sum before each word, which the tool's loop has
produced, and the boot loader's sum equals it at the word it is about to read until it
has read a changed one, and differs from it ever after. The latter needs that one
word's round is injective in the sum (`UpdatedInjective`), as it is when the bit
shifted out can be told from the result. The rest is arithmetic: `hi` and `lo` pass
every address once, and the checkpoint at 0x1F7F or 0x1FFF comes up at the word where
the tool put the CRC.

*Induction over data.* The library's induction rules take an operator as an argument,
which the provers cannot instantiate. Three recursive functions are needed all the
same: the rounds of the CRC (`Updated`), the sum of the moves lost (`Cost`) and the
points of the figure (`Figure`). `Counting`, a lemma about sets (one that has 0 and,
up to N, with n also n + 1 has N), follows from the pigeonhole principle of
`FiniteSetTheorems`, and takes the place of the rule; `CostExists`, `LoopExists` and
the lemmas behind them show that the recursive equations have a solution.

### Only model-checked

- Liveness (`CommandsTakenUp`, `RunEnds`, `EventuallyInstalled`, `TransfersEnd`,
  `OffersEnd`, `ReadEnds`, `CloseEnds`, `KeepsReporting`, `ReleasesKeys`,
  `BytesGetThrough`): fairness and ENABLED are out of the prover's reach.
- `ReadsItsNumber` and `Understood`: computations without parameters. The run goes
  through all 4097 serial numbers, and all six firmwares with every order in which
  a host may read their descriptors; there is no other value to prove them for.

## What is not modelled, and why

- Ping-pong buffers: every configuration here has `PPB_NONE`.
- The Microsoft descriptors of `usb.c`: compiled into no firmware. The bytes of
  names, identifiers and limits in the descriptors.
- In HIDAPI: strings and feature reports, which no program here uses beyond
  printing; `hid_exit()`; the decoding of report descriptors, compiled into no
  build. `HidDevice` has one port, one HID interface with one setting, an address
  that is not given to another device while `hid_open()` runs.
- The clock, port and USART set-up of the firmwares, the vectors, GUI layout,
  project files: no state that changes.
- The bound of each counter's real size (800 frames, 64 bytes): see Bounds.
- The duplicate copies of the stack, as said above: they are the same text as what
  is modelled.

## Plan

Done: everything above. Every safety property that a run checks on a small instance
of something larger is proved. What could still be modelled:
commands shorter than 64 bytes, for hosts other than the tool.
