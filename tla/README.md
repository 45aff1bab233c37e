# TLA+ specifications of the TKey

A TLA+ model of the Tillitis TKey: the firmware that boots, measures and starts
device apps, the flash filesystem it keeps, the drivers and protocols below it, the hardware
that separates firmware from app, and the USB controller in front. TLC checks every module
on small instances, TLAPS proves the central properties for every value of the constants.

Paths below are relative to `src/hw/application_fpga/` unless they start with `src/`.

## The system

The TKey is a USB device with two processors. An FPGA holds a RISC-V CPU, a ROM with
the firmware, a small firmware RAM, the app RAM and peripheral cores; a CH552
microcontroller connects its UART to USB. The firmware loads an app, from the USB
client or from flash, hashes it, derives a secret from the device secret and that hash
(the CDI), and jumps to it, which irrevocably lowers privilege until the next reset.
The app asks for services with system calls that run in the firmware.

| Part | Source | State it keeps | Operations | Hard because |
|---|---|---|---|---|
| Boot state machine | `fw/tk1/main.c`, `start.S` | state, load context, app RAM | start, client commands, load from flash, verify, compute CDI, jump, fail | state left in RAM by earlier boots; a request served across a reset |
| Reset | `fw/tk1/reset.c` | `resetinfo` in FW_RAM, kept over a reset | RESET, GET_APP_DATA | used once, cleared field by field |
| Management app | `fw/tk1/mgmt_app.c` | digest of the registered app | register, authenticate | registered before it is verified |
| Partition table | `fw/tk1/partition_table.c` | two copies in flash, one in RAM | read with fallback, write both | power loss between erase and write |
| App storage | `fw/tk1/storage.c`, `auth_app.c` | four areas in flash, tags in the table | allocate, deallocate, erase, write, read, erase all | several flash commands per call; areas change hands |
| Preloaded apps | `fw/tk1/preload_app.c` | slot 1 in flash, metadata in the table | store, finalise, delete, set key, get metadata, load | several flash commands per call; no erase before store |
| System calls | `fw/tk1/syscall_handler.c`, `start.S` | none | dispatch | privilege change |
| Protocol | `fw/tk1/proto.c`, `tkey-libs/libcommon/io.c` | current USB packet | read a frame, reply | frames split over packets; two headers to keep in step with |
| Flash, SPI | `fw/tk1/flash.c`, `spi.c`, `core/tk1/rtl/tk1_spi_master.v` | the flash chip | erase, program, read | busy waiting, write enable, page boundaries |
| Arguments | `fw/tk1/memcheck.c`, `partition_table.h` | none | check a buffer, an offset and a size | sums that wrap around |
| Hash, random numbers | `tkey-libs/blake2s/blake2s.c`, `fw/tk1/rng.c` | hash context | init, update, final; read a word | message in pieces; stale bits |
| Touch | `tkey-libs/libcommon/touch.c` | none | wait for a touch or a timeout | a touch from before the call, the timer running out at the same moment |
| TK1 core, bus | `core/tk1/rtl/tk1.v`, `rtl/application_fpga.v` | registers, privilege, monitor | memory accesses | mode depends on fetch address |
| UDS, RAM, FW_RAM, reset | `core/{uds,ram,fw_ram,clk_reset_gen}` | secret, memories | read once, reset | what a reset does not clear |
| UART, timer, touch, TRNG, SPI cores | `core/*` | counters, FIFO | register accesses, clock ticks | hardware runs beside the CPU |
| USB bridge | `src/hw/usb_interface/ch552_fw/src/main.c` | ring buffer, endpoint flags | interrupts, main loop | interrupts against the loop, flow control, bus reset |

Interaction: the client's frames go through the bridge and the UART to `readcommand`;
the boot loop calls `part_table_read` and `preload_load`; apps enter through the system
call interrupt and reach `reset`, `storage_*` and `preload_*`; the last two change the
table in RAM and hand it to `part_table_write`; `mgmt_app_authenticate` guards the
privileged calls; `resetinfo` carries one app's request to the next boot.

## Modules

| Module | Models | Uses |
|---|---|---|
| `Boot` | boot state machine, RESET, management app, what resets keep and clear | |
| `BootProofs` | theorems about `Boot` | `Boot` |
| `PartTable` | the two copies of the partition table | |
| `PartTableProofs` | theorems about `PartTable` | `PartTable` |
| `AppStorage` | storage areas and their tags | `PartTable`, as `PT` |
| `AppStorageProofs` | theorems about `AppStorage` | `AppStorage`, `PartTableProofs` |
| `Preload` | the app in slot 1 | `PartTable`, as `PT` |
| `PreloadProofs` | theorems about `Preload` | `Preload`, `PartTableProofs` |
| `FlashArgs` | pointers, offsets and sizes of system calls; flash layout | |
| `SpiFlash` | flash driver, SPI driver, SPI master, flash device | `AtomicFlash`, as `Atomic` |
| `AtomicFlash` | abstract: what a call of the driver does | |
| `Blake2s` | the hash library, with its real words | |
| `Trng` | random number core and its readers | |
| `TouchWait` | `touch_wait`, timer core, touch sensor core | |
| `DriversProofs` | theorems about the parts that are on their own | `TouchWait`, `Trng`, `FlashArgs`, `UsbControl`, `SpiFlash`, `Blake2s` |
| `UartFifo` | receive side of the UART, clock edge by clock edge | |
| `FwProto` | frames over USB mode packets over the FIFO, CH552 and client around | `UartFifo`, `CommandChannel` |
| `CommandChannel` | abstract: what a client that waits for replies is promised | |
| `FwProtoProofs` | theorems about `UartFifo` and `FwProto`, with the refinement | `FwProto` |
| `UsbBridge` | the data path of the CH552 in both directions | |
| `UsbBridgeProofs` | theorems about `UsbBridge` | `UsbBridge` |
| `UsbControl` | its control endpoint and descriptors | |
| `Tk1Hw` | privilege, security monitor, bus and interrupt of the FPGA | |
| `Tk1HwProofs` | theorems about `Tk1Hw` | `Tk1Hw` |
| `MC*` | constants for TLC; `MCDrivers` puts six parts that stand on their own side by side | the modules of that name |

The modules meet where one takes another's behaviour for a step. `Boot` takes a
frame for a step: `FwProto` shows that the layers below `readcommand` deliver exactly
the frames sent. `AppStorage`, `Preload` and `PartTable` take a flash command for a step:
`SpiFlash` shows that the driver and its device implement such commands (`AtomicFlash`). They
count in sectors and chunks: `FlashArgs` shows that the byte arithmetic keeps inside
the parts those stand for. `FwProto` takes the CH552 for a sender of whole packets:
`UsbBridge` has its side.

Definitions named `Mut...` are deliberate errors (a dropped check, a swapped order), each
the negative control for one property, as are the alternatives that precede a definition
under another name. No specification uses them; replacing the
definition after it by one must make its property fail.

### Boot

`state` is `main()`'s state, with three values for the CPU outside it: held in reset
(`RESET`), running the app (`APP`), trapped (`HALT`). One action per state and outcome:
`Startup` is `start.S` and `main()` up to its loop; `start_where`, `LoadFlash`,
`LoadApp`, `LoadAppData` and so on are the functions of those names. `Start` and
`StartFail` are `FW_STATE_START` as a whole: CDI first, then the request is cleared,
then the digests are compared, in the order of the code. `reset` is the system call and
the hardware reset it ends in; `PowerCycle` may happen at any time.

Abstractions. An image is a function from addresses to bytes; its digest is that
function, so two digests are equal exactly if the images are (no hash collisions). A keyed
digest is the record of its inputs. The USS is a model value; `Zero` is never a USS, so
that the history variable `sent_uss` can say "none". The app RAM is in logical
addresses: its scrambling changes where bytes are, not what the CPU reads. The eight
UDS words are read together. Preload slots hold sizes up to the RAM size: slot 1 is
limited by `preload_store_finalize`, slot 0 is written at provisioning. The changes the
management app makes to slot 1 between boots are one action here; `Preload` has their
steps. The reading of the partition table is in `PartTable`.

### PartTable

A copy is the table it holds or `Invalid`. `part_table_write` is four steps (`mode` says
which is next); `PowerCut` may come before any. A half-done erase or program is `Invalid`,
which is also what a copy is between the two, so nothing finer is needed. Flash
commands are assumed to work when power stays; cells going bad are `FlashFault`.

What two copies can promise has a limit, `Tolerated`, and it is not symmetric. Faults are
counted from the last write that ran to its end. Cuts while copy 0 is rewritten
(`primary`) are harmless in any number: copy 1 stays. A fault that costs copy 1
(`backup`) is not repaired until the next write has run to its end, and that write begins
by erasing copy 0: a second fault in that window loses the table (`main()` stops at its
assertion) or, if copy 1 is old rather than invalid, silently goes back to it. So the
promise is: any number of primary faults, or one fault of any kind.

### AppStorage and Preload

A system call passes its checks in one step and leaves what it will do: the flash commands
`todo` and the table `next`; each command is a step, the table write is `PartTable`'s
steps, and `PowerCut` drops what is left. `AppStorage` issues commands, then writes the
table; `Preload` writes the table, then issues commands, as `preload_delete` does. Calls
that fail a check have no effect and no action. A sector holds the set of those who
programmed it since the last erase, because programming NOR flash without an erase
mixes old and new. An authentication tag is the pair of CDI and nonce. `intact` says that
faults never exceeded `Tolerated`; beyond it a table may roll back, and TLC confirms that
three faults then suffice for an app to find another app's data in its area.

### Tk1Hw

A step is a clock edge. `HwEdge` gives every register of the FPGA its next value, with the
names of the Verilog: `security_monitor`, `fw_startup_done_ctrl`, `muxed_ready_new`; `word`
holds the followed words of FW_RAM and registers of `tk1`, `Writable` and `Visible` are the
access control of the cores. The other actions are what PicoRV32 does at that edge, seen
from its memory interface: `FetchNext`, `TakeInstr`, `TakeFirstHalf` (a 32-bit instruction in
two words), `LoadStore`, `Branch` (a prefetched word is dropped), `TakeIrq`, `RetIrq`. The app
is any program. The firmware is any program that stays inside the cores it addresses, jumps
to the app only as `jump_to_app` does and leaves a system call only as `irq_handler` does
(`MayAccess`, `MayFetch`, `RetIrq`): these are read off `main.c` and `start.S`.

Addresses are those of the hardware, in words. A monitor bound is compared with word
addresses, so bounds are words too; the width of registers is left out. The contents of the
app RAM are not followed, nor LED and GPIO. Several cycles in which the CPU is off the bus
are one step per instruction: nothing outside of it changes in them.

Two limits of the hardware show in the model. Only memories that answer in the cycle
after they are selected are protected by the monitor before they deliver; the registers
beside them answer at once, so `NoForbiddenFetch` is about ROM, RAM and FW_RAM. And a write
outside of a core reaches the word it aliases before the monitor stops the CPU: it does so
with the privilege of whoever writes, so `ProtectedWords` holds all the same.

After a strike the bus feeds the CPU zeroes, which are illegal instructions, but it has to fetch one
first. The instruction after the forbidden access has been prefetched, and when that is `waitirq`
(`WaitIrq`), the CPU waits for an interrupt that cannot come, as the system call core is deselected too.
`StrikeStops` therefore promises a stop, in the trap or in this wait.

### FlashArgs

`in_app_ram`, the bounds of `storage_write_data`, `storage_read_data`, `storage_erase_sector`
and `preload_store`, with additions modulo `WordLimit` (2^32 in the code) and the real
layout of the flash. There is no state: the module is for its theorems. TLC's integers
end at 2^31 - 1, so the run that evaluates its assumptions uses that width.

### SpiFlash and AtomicFlash

A step is a clock edge of the SPI master: `Shift` is a bit on the bus, `Driver` the next
register access of `flash.c` and `spi.c`, `Complete` the moment the device has finished an
erase or a program. The driver sends the real opcodes bit by bit; registers are vectors of eight
bits. An address goes out as three digits to base `PAGE_SIZE` (256 in the code, where a digit is a byte;
the run has small pages), and `FlashAssumption` says of the sizes what that takes. The device is written from
what the driver relies on: it ignores commands while it is busy, erases and programs without
write enable, and everything in power-down; a program wraps within its page. `ProgramsAssumption` is
what the firmware does: its calls stay within the flash, and a call that finds the device in power-down
is `flash_release_powerdown()`, with which `part_table_read()` begins (`WokenFirst`). `AtomicFlash`
has one action per erase and per page. The refinement says that when a call returns, all
it stood for has happened, in order, and that a read returns what is there
(`ImplementsAtomicFlash`).

### Blake2s, Trng, TouchWait

`Blake2s` is the library as it is: words of 32 bits as pairs of halves, the compression
with its permutations, the buffering in `blake2s_update`. What it is compared with is
the digest of the whole message at once, which in turn gives the published test vector.
`Trng` keeps of each bit only whether it is new. `TouchWait` numbers the touches, and the
number takes the place of the level in the sampling registers, so that a property can say
which touch an event is about.

### UartFifo, FwProto and CommandChannel

`UartFifo` is one clock edge (`Edge`): what arrives on the line and what the CPU reads are
its inputs. In `FwProto` each access of the firmware to the UART is such an edge, other
edges come in between, and the loops of `readselect`, `read`, `discard` and `readcommand` are
states of `pc`. The host cuts a frame into packets anywhere, packets for the debug endpoint
come in between, and the CH552 asks for clear-to-send before data bytes but not before
the two header bytes (see the divergences below). The client sends one frame at a time.
`CommandChannel` has three phases: asked, taken, answered.

### UsbBridge and UsbControl

`UsbBridge` has the UART interrupt, which may come between any two steps of the main loop,
the USB interrupts (`InComplete`, `OutComplete`, `BusReset`, ...), and the main loop. The firmware masks no
interrupts, so a step ends at each load and each store of what an interrupt changes or reads: the count is
two loads and a store, the output pointer is loaded, changed and stored (`SkipHeader`, `SkipStore`; `SkipChunk`, `ChunkStore`),
and so is the count; `regs` holds what has been loaded. `FrameMode` is not volatile: what a test sees of it is the
register or the memory (`FrameMode`). A byte of the header that the parser reads out of step, and of a command,
may be anything. Two simplifications are left. To arm an endpoint is one step (its busy flag or count, its length and
its response), since the USB interrupt acts on an endpoint only when its response is set, which is last and a
single instruction. And an interrupt of the USB is one step but for the UART interrupt, which has priority and may
come between the two assignments of `BusReset`.

The FPGA is an environment that behaves as `io.c` does. A handshake from the host may be lost, so that the
packet comes again with the same toggle. After a bus reset in mid-frame the parser may take any byte for a header: then
`disturbed` holds and the order of data is not promised any more. `OnlyActiveEndpoints` still is. So is
`NoOverrun`, unless the last bus reset fell between a load and a store (`torn`): the store then undoes the
reset of the output pointer, and there is nothing to promise (run `usb_torn`).

`UsbControl` has the SETUP handler, the two data stages and the status stages, with the
host abandoning requests and missing handshakes, and `CreateCfgDescriptor` for every
set of functions, with the real sizes.

## Runs

| Run | Configuration | States | Shows |
|---|---|---|---|
| `boot` | `MCBoot.cfg` | 107 thousand | `VerifiedStart`, `PrivilegeIsVerified`, `CdiBinding`, `RequestUsedOnce`, `ReportedAppRuns`, `CleanRam`, `BootEnds` |
| `app_storage` | `MCAppStorage.cfg` | 1.5 million | `OneAreaPerApp`, `NoForeignData`, `FreeIsErased`, `AllocationDurable`, `OnlyOwnerChangesData` |
| `preload` | `MCPreload.cfg` | 1.4 million | `InstalledIsWhole`, `ToldIsDurable` |
| `hw_secrets` | `MCTk1HwSecret.cfg` | 240 thousand | `AppUnprivileged`, `SecretsStayInside`, `ProtectedWords` |
| `hw_monitor` | `MCTk1HwMonitor.cfg` | 140 thousand | `NoForbiddenFetch`, `TrapIsSilent`, `StrikeStops`, `BusAnswers` |
| `fw_proto` | `MCFwProto.cfg` | 490 thousand | `InStep`, `ImplementsChannel`, `RepliesArrive` |
| `drivers` | `MCDrivers.cfg` | 197 thousand | `ImplementsAtomicFlash`, `TouchWaitIsRight`, `WordsAreFresh`, `DigestIsOfMessage`, `DriversReturn`; `NeverWithoutTable`, `RecoversLatest`; `DescriptorIsExact`, `ConfigurationIsSound`, `AddressAfterStatus`, `TransfersEnd` |
| `usb_bridge` | `MCUsbBridge.cfg` | 1.5 million | `UploadsInOrder`, `DeliveredIsSent`, `OnlyActiveEndpoints`, `NoOverrun` |
| `usb_flow` | `MCUsbFlow.cfg` | 350 thousand | `EverythingArrives` |
| `preload_delete` | `MCPreloadDelete.cfg` | violation | `DeletedIsErased` does not hold |
| `usb_zlp` | `MCUsbZlp.cfg` | violation | `FullFramesTerminated` does not hold |
| `usb_torn` | `MCUsbTorn.cfg` | violation | `NothingFromNowhere` does not hold |

Type invariants are proved rather than run, where there is a proof.

Bounds. `boot`: two resets let a request go from one app to the next and its leftovers to
a third boot; a RAM of a few bytes with frames of two has loads that end in a full frame,
in a partial one and at the end of the RAM. `app_storage`: three
apps for two areas, so that areas run out and change hands; three faults are what it
takes to leave `intact`, which shows that the qualification is needed; one sector per
block, because sectors of a block differ only under ERASE_DATA. `preload`: one chunk per
block and two kinds of data, so that mixtures can be told from what was stored. The two
ordinary apps of `app_storage` are symmetric. `hw_secrets` and `hw_monitor` present one
address of each kind of core, the edges of ROM and RAM and an alias; a property that fails
needs one protected word, and the two runs divide the addresses because their registers
multiply.

`fw_proto`: packets of three bytes cut a command of seven into three packets or more, so
that a frame starts and ends anywhere in a packet; the FIFO of seven entries wants
no more from three on, and what is sent regardless then fills it exactly; one stray packet (`MaxStray`) meets every state of the
reader.

`usb_bridge`: a ring of nine that asks for a stop at four is the smallest for full frames of two (in the code 140,
133 and 64), so that the third frame wraps around; a length byte of three announces more than a
frame may have. `Budgets` are scenarios, chosen in the initial state, of how much the host and the FPGA do, so that uploads,
downloads, changes of the endpoints, CLEAR_FEATURE, bus resets and lost handshakes meet in pairs, and a bus reset
meets a frame and a command at every step. `window` is how many packets the host has under way that the FPGA
has not read. `usb_flow` has full frames and full packets only, so that both sides ask for a stop: two frames reach the ring's
mark of four with a header to come, and with a window of two packets, eight bytes, the FIFO reaches its mark of six.
With a window of one it cannot, and everything must arrive; that is the side of `Standoff` the code is on with up to seven
full packets under way (seven times 66 bytes are below 486).

`drivers`: a behaviour exercises one part. Pages of eight bytes and sectors of two pages make the
driver cross both; the programs cover each call, also refused and in power-down. Messages
of 0 to 130 bytes cross the buffer twice. Two calls of `touch_wait` and four touches are what
an event needs to be left over from the call before; a prescaler of two makes a tick more than one clock. For the
partition table four faults are twice what `Tolerated` allows, and three tables let a copy be two writes behind. For
the control endpoint: the sizes of the code, every set of functions, two requests and one lost handshake,
and lengths below, at and above a packet.

`boot` and `usb_flow` turn the deadlock check off, as the system really may stop there:
a trapped CPU whose resets are used up, and the standoff of two full buffers. In `drivers` a bench that
has nothing left to do stutters (`Finished`).

Fairness. `BootEnds` assumes weak fairness of the firmware's own steps: one CPU runs a
loop without interrupts, and the steps wait for nothing. The client is not assumed to
send anything, so the property ends where it is to speak. `StrikeStops` and `BusAnswers`
assume that the clock ticks, which is all a synchronous circuit needs; power failures are
not part of it, and `BusAnswers` asks that they stop. `RepliesArrive` and `EverythingArrives`
assume of each processor and each line that it goes on, and that the host polls its IN
endpoints, as USB does; nobody has to write, send or reset. `TransfersEnd` assumes that a
started transfer is carried on. `DriversReturn` assumes that the CPU runs, and that the flash
device finishes an erase or a program.

## Findings and divergences

`preload_delete` is a finding. `preload_delete` returns 0 at once when the size in the
table is 0, with the comment "Nothing to do." (`fw/tk1/preload_app.c:178`). The
slot need not be erased: after PRELOAD_STORE without PRELOAD_STORE_FIN, or after a delete
that lost power between its table write and its erases. PRELOAD_STORE never erases, so
storing the next app mixes it with the old bytes, and returns 0. Finalising the slot
and deleting it again erases it.

`usb_zlp` is a finding: a full frame to CDC shall be terminated by an empty packet
(comments at `main.c:1883` and `main.c:1897`), but the main loop looks for further CDC data before
it looks at `CdcSendZeroLenPacket` (`main.c:1896`): a frame that is ready when endpoint 2 becomes
free goes first, and the host takes the two for one transfer.

`usb_torn` is a finding: both pointers of the ring shall be 0 after a bus reset (comment at `main.c:646`), and the
interrupt sets them (`main.c:1397`). The main loop adds to the output pointer with interrupts on (`main.c:1648`, `1684`),
and a reset between its load and its store is undone by the store: the ring then seems to hold bytes nobody sent, up to
its size less the pointer, and the next byte from the UART may take the fill level over its end. The same
holds of `UartRxBufByteCount` (`main.c:1651`), which becomes 254. Masking the interrupt around the update would
cure both.

Other places where code and comment, or two parts of the code, disagree, seen while
modelling and without a run of their own. `main.c` is the one of
`src/hw/usb_interface/ch552_fw/src`.

- `touch.c:10` has 18 MHz for the CPU, which runs at 24 MHz (`clk_reset_gen.v:79`): a tick of
  the comment "Tick once every decisecond" is 75 ms. A timer the app has running keeps its
  settings (`timer.v:141`), so `touch_wait` then times by the app's prescaler.
- `CH554UART1SendByte` compares `gpio_p1_4_get()` with 1, while it returns the bit in its
  place (0x10): header bytes do not wait for clear-to-send. `FwProto` models that; the margin
  of the FIFO covers it.
- An access to unmapped memory "forces the CPU into a trap state" (`threat_model.md:256`). It stops the CPU, but
  not always in the trap state: a prefetched `waitirq` (`picorv32.v:1562`) waits for ever, and no LED flashes.
- The command of the CH552 is read from `FrameBuf[0]` whatever the length of the frame (`Command`).
- A zero-length OUT packet on endpoints 3 and 4 sets NAK with a count of 0, which nothing
  takes back (`main.c:1354`); on endpoint 2 it is handled (`main.c:1338`).
- CLEAR_FEATURE on an IN endpoint sets NAK but leaves its busy flag, so that no upload
  follows.
- A bus reset leaves `FrameStarted` and the counters of the parser as they are, and may come
  between the length of a packet and its data: then one side is out of step.
- A FIDO frame shorter than its packet is never uploaded and holds up every other endpoint.
- SET_FEATURE for endpoint 1 falls through to failure after having set STALL; class requests
  with data other than SET_LINE_CODING are answered with NAK for ever (`main.c:1320`).
- A client that gives up in mid-frame is waited for (`proto.c:57` has no timeout), and one
  that sends before its reply has come may lose the start of a frame (`proto.c:63`).

`SendBuffer` waits for the clear-to-send of the FPGA (`debug.h:200`) and the FPGA for that of the CH552, and neither reads
while it waits. `EverythingArrives` says that this `Standoff` is the only way they stop, and that it takes
`window * (MAX_FRAME_SIZE + 2) > FIFO_STOP_AT`: in the code eight full packets of the host the app has not read.
TLC reaches it in `usb_flow`. A client that waits for each reply, as `tkeyclient` does, stays below.

## Proofs

`BootProofs` proves, for every RAM size, frame size and set of inputs, that `Spec` implies
`[]TypeOK`, `[]VerifiedStart`, `[]PrivilegeIsVerified`, `[]CdiBinding`, `[]RequestUsedOnce` and
`CleanRam`, and with `ReportInv`, that a final reply is about the digest in the context,
`[]ReportedAppRuns`. The properties speak of the moment an app runs; what they rest on is how the
context, `resetinfo` and the RAM are related on the way there. The inductive invariant
`IInv` adds `RequestInv` (until `FW_STATE_START` has used it, `resetinfo` is the request that
started this boot), `PlanInv` (slot and digest pointer are the ones the type stands for),
`RegisteredInv` (only the management paths register a digest, of the image in RAM) and
`RamInv` (the digest is that of the loaded RAM, the rest is scrambled). Assumptions:
`SizeAssumption`, `InputAssumption`, `DistinctAssumption`, which TLC evaluates as well.

`PartTableProofs` proves `[]PTTypeOK`, `[]NeverWithoutTable`, `[]RecoversLatest` and `[]Mirrored`
for every set of tables and bound on faults. The invariant says where the current table
is: `CurrentInv` (copy 0 once it is rewritten), `FallbackInv` (without backup faults copy 1
until then, and copy 0 is that or invalid), `SingleFaultInv` (after one backup fault, the
copy a restart picks).

`Tk1HwProofs` proves, for every set of addresses, values and followed words, `[]HWTypeOK`,
`[]AppUnprivileged`, `[]NoForbiddenFetch`, `[]SecretsStayInside`, `ProtectedWords` and
`TrapIsSilent`. Privilege lags the instruction that lowers it, and the monitor lags the access
it judges, so the invariant speaks of words on their way: `PrivilegeInv` (what is held or
about to be delivered from above the ROM has lowered the privilege, and during a system
call nothing comes from there), `MonitorInv` (when a memory is ready to answer a forbidden
fetch, the monitor has struck). Assumptions: `AddrsAssumption`, `WordsAssumption`,
`CellsAssumption`.

`AppStorageProofs` proves `[]ASTypeOK`, `[]OneAreaPerApp`, `[]NoForeignData`, `[]FreeIsErased`,
`[]AllocationDurable` and `OnlyOwnerChangesData` for every number of apps, areas and
sectors. It rests on `PartTableProofs`: `StepTable` maps every step to a step of `PartTable` or a
stutter, so that its invariant holds here too (`UsesPartitionTable`: `Spec => PT!Spec`). On top
of that the invariant says, of every table a restart may come up with, that what
is in the sectors belongs to the owner the table names (`DataInv`), and of the table a call
has yet to write, that it will be so once the erases in `todo` are done. `SoundInv` (one area
per app, in every copy and in `next`), `OwnInv` (whose areas the pending commands are for)
and `GrantInv` (whoever was told of an area has one in each of these tables) go with it.

`PreloadProofs` does the same for slot 1: `[]PLTypeOK`, `[]InstalledIsWhole`, `[]ToldIsDurable`, for
every size of the slot. `SlotInv` says of every table a restart may come up with that the
image is behind it and that it agrees with what was reported; `CallInv` that flash commands
are pending only under a table that denies the app. The order of `preload_delete`,
table first, is what makes the second hold.

`FwProtoProofs` starts with the FIFO: it is a queue (`FifoIsQueue`), where the invariant ties the two
pointers to the fill level, which the Verilog keeps separately. `ReceiverHasRoom` is where flow
control comes in: `RoomAssumption` says that three bytes fit above the mark, because the CH552 may
have a data byte and a header of two on the way when it sees the signal; the code has 25. On top of
that are `[]InStep` and `ImplementsChannel`, the refinement of `CommandChannel`. The invariant `FwInv` speaks of
everything between the host and the firmware as one sequence (`OnTheWay`: the FIFO, the receive engine,
the line, the rest of the packet, the host's buffer). `Stream` says that it is cut into packets, at places
of which only their existence is known (`Carried`: a set of boundaries, and for each how much of the client's
frame lies before it), and that the packets to the firmware are the frame together, with debug packets in
between. `PacketInv` and `CommandInv` tie the reader's registers to its place in that sequence.
`PhaseInv`, which follows, says which state of the abstract channel each state stands for; every step is then one of
its steps or a stutter. `ClientAssumption` says that clients send whole frames, as `tkeyclient` does: what
happens otherwise is among the divergences above.

`UsbBridgeProofs` has both directions of the CH552, for every size of ring, FIFO, frame and packet that
`SizeAssumption` allows: a full frame fits below the mark, and four bytes fit above it. In the code
these are 66, 133 and 140.

- `RingNeverFull` (`Spec => [](~torn => Fill <= CTS_STOP_AT + 4)`, 137 of 139 in the code) and `[]NoOverrun`. The fill level alone is not inductive.
  `RingInv` has the types of what the parser holds (`BridgeTypes`, `OnePending`), and until a reset tears an
  update: what has been loaded or counted is old but never too large (`CountIsOld`), since only the parser takes bytes out,
  and the register that is about to be stored is the pointer computed from the ring as it is; and the fill level, with the
  byte on the line and the credit of a header the parser has read before it gives clear-to-send back, is bounded (`RingBound`, `HeaderCredit`). A reset that falls
  elsewhere restores all of it, since it empties the ring.
- `[]OnlyActiveEndpoints`: every place between the header and the endpoint knows active modes only, also after
  a bus reset in mid-frame, when the parser takes any byte for a header.
- `[]DeliveredIsSent`. `DownInv` says that what the FPGA has read of the frame, its FIFO, the line and the rest
  of the packet under way spell whole frames (`Spelled`), and that for each endpoint what was sent is the frames of its modes
  among those (`PartOf`), followed by the packet that waits there, if any. A packet that comes again after
  a lost handshake has the toggle of one that is counted already.
- `[]UploadsInOrder`. `UpInv` says the same of the line from the FPGA: the ring from its tail, the byte on the line and what the
  FPGA has yet to write spell frames, the first of them begun where the parser is (`Parsing`); for each endpoint what it
  owes the host is what it offers, the frame in `FrameBuf`, and its part of those. A command is the last frame of the
  line, since the FPGA waits for the reset that follows it. A header or a chunk is taken out in many steps; on the line (`UpLine`) it leaves
  with the store of the pointer, and what is already in `FrameBuf` or the registers until then is read from the
  line (`ReadsHeader`, `ReadsChunk`). That the promise ends with `disturbed` is what keeps torn updates out (`TornInv`).

`DriversProofs` has the parts that stand on their own. `[]TouchWaitIsRight` for every timeout and prescaler: a touch
goes through the sampling registers once and in order (`Sampled`), nothing older than what the program knows
becomes an event (`EventsAreNew`), and the clocks that have passed and those still in the two counters are
together at least the timeout (`TimeIsKept`). `[]WordsAreFresh` for every sampling interval and word size. For every
pointer, offset and size that fits a word, `BufferIsAppRam` (`in_app_ram` accepts a non-empty buffer just if
all its bytes are app RAM), `StorageStaysInArea`, `PreloadStaysInSlot`, `EraseStaysInArea`, and `PartsAreApart`
of the layout.

Of `UsbControl`: `AddressAfterStatus` rests on `AddressInv`: the request the device is at is
the one the host is at unless it was refused, so that what SET_ADDRESS left in `SetupLen`
is not taken up by another request. `[]DescriptorIsExact` rests on `DescriptorInv`: the host has got the first
packets, all of them full, and what the device is about to send is the next one, or, with the other toggle,
the last one once more; `SetupLen` and `pDescr` are what is left after it. Sizes are sums over
descriptors (`Total`, a recursive function). What the proofs need of such sums (`TotalIsNat`, `TotalAppend`) is
proved from the existence of a least counterexample (`Least`), the form of induction that needs no
operator as a parameter.

`FlashIsAtomic`: for every program, every size of page, sector, block and flash, and every clock edge,
`SpiFlash` implements `AtomicFlash`. `Complete` is the `Apply` of the abstract call, the driver's `call` and `return` its
`Begin` and `Return`, and all else a stutter. Three levels come to lie on each other in `FlashInv`:

- bits make bytes: `Master` and `Line` place the SPI master in `spi_transfer()` and say of each bit which one of
  which byte the line and the shift registers hold, in both directions (`Reads`);
- bytes make commands: when a transfer ends the device has got all of it and nothing else, so that what it
  starts is what the call meant. `Place` and `Progress` say which transfer of the call is under way and whether the
  write enable and the work of the one before are there;
- commands make calls: the busy bit is the last bit of the status byte, so a poll that reads 0 was answered by a device
  that had finished (`Polls`), which is what makes the next transfer find it ready and `return` find the work done;
  `Power` and `OfPrograms` keep the callers' part, `Replies` what has been read.

None of these is inductive without the others: a command is obeyed only if the poll before it was right, and the poll
is right only if its bits are the device's.

Its last part is `Blake2s`. `[]DigestIsOfMessage` for every message of bytes, every key of at most 32 and every digest size,
and `HashIsDefinition`, the same of one call of `blake2s()`. `HashInv` (`MidHash`): the state is chained over all blocks but
the last, the count stands at their end and the buffer holds what is over, which may be a full block and is never
empty once a byte has come. It holds after `blake2s_init()`, with or without a key, each byte keeps it (`ByteAdded`), and so does
`blake2s_update()` with any number of them (`BytesAdded`); `blake2s_final()` then compresses what the definition has as its last block
(`FinalIs`). The carry between the words of the count is `CountedIsCount`, modulo 2^64. The compression
is the same on both sides and is not opened; that it is the published one is what the test vector says.

Assumptions of the proofs are the named ASSUMEs of the modules, which TLC evaluates as well.

Only model-checked: liveness (`BootEnds`, `StrikeStops`, `BusAnswers`, `RepliesArrive`,
`EverythingArrives`, `TransfersEnd`, `DriversReturn`), which is out of the prover's reach;
and `ConfigurationIsSound`, of which TLC has all cases, as it depends on the set of functions only.

## Not modelled

The #ifdef SIMULATION and QEMU paths, debug output, LEDs, the hexadecimal output of `io.c`,
entropy and `rng_xorwow` (a pure mixing function), the bit timing of the serial line, USB
suspend and the debug UART of the CH552, the scrambling of the app RAM (a bijection the CPU
does not see), the execution of instructions by the third-party CPU, the third-party library
monocypher (used by apps, not by the firmware), the apps themselves and the tools that run on
a developer's machine.

## Plan

1. Abstract storage, one atomic map from CDI to area, with `AppStorage` shown to implement it;
   the effect `Boot` gives the PRELOAD calls shown to be that of `Preload`.
2. The suspend interrupt of the CH552, and the device and interface recipients of CLEAR_FEATURE and
   SET_FEATURE in `UsbControl`.
3. RAM address scrambling as a permutation, composed with `scramble_ram`.
