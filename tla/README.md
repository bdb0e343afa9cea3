# Verification of the OpenPLC Arduino core

TLA+ models of the parts of this repository in which the sketch runs
concurrently with interrupts, a DMA engine and a remote host, the TLC runs that
check them on small instances, and TLAPS proofs, for every value of the
constants, of the properties that matter most.

Paths below are relative to the repository root.

## 1. The system

The repository is an Arduino core for an STM32H743 PLC board. A program is one
main loop (`cores/arduino/main.cpp`): `openplc_net_process()`, the sketch's
`loop()`, `serialEventRun()`. There is no scheduler (lwIP runs with `NO_SYS=1`);
concurrency comes from interrupts that preempt the loop, from DMA engines that
share memory with it, and from what is at the other end of a wire.

| component | state | operations | who shares it | what makes it correct |
|---|---|---|---|---|
| Ethernet receive path: `libraries/OpenPLC_Net/src/ethernetif.c`, `openplc_net_port.c`, `HAL_ETH_*` in `stm32h7xx_hal_eth.c` | descriptor ring, three cursors, `RX_POOL`, `EthRxEvent`, `RxAllocStatus`, packet under assembly | receive interrupt, `HAL_ETH_ReadData`, `ETH_UpdateDescriptor`, allocation and free callbacks, start and stop on link changes | main loop, ETH interrupt, DMA, lwIP | no buffer leaks or is in two places; the DMA never writes without a buffer; whole frames in order; no lost wake-up; exhaustion ends |
| USB CDC receive: `cores/arduino/stm32/usb/cdc/*`, `USBSerial.cpp` | `ReceiveQueue` (`read`, `write`, `length`), `receivePended`, OUT endpoint | `available`, `read`, `readBytes`, `readBytesUntil`, `peek`, `CDC_resume_receive`, packet interrupt, reset, configuration | sketch, USB interrupt, host | the stream of bytes, lock-free; a free block for every packet; reception resumes |
| USB CDC transmit: same files | `TransmitQueue` (`read`, `write`, `reserved`), `TxState`, `transmitStart`, `dtrState`, IN endpoint | `write`, `flush`, transfer-complete interrupt, control line request, reset, configuration | sketch, USB interrupt, host, time | the stream of bytes; no byte stranded; short last packet; `write` ends when the host does not read |
| Ethernet transmit path: `ethernetif.c` `low_level_output` | transmit descriptors | `HAL_ETH_Transmit` (blocking, its result ignored) | main loop, DMA | frames sent or reported |
| PHY driver and link monitor: `lan8742.c`, `ethernet_link_check_state` | PHY address, link flags, MAC speed and duplex | register reads with error returns, 100 ms poll | main loop, PHY, ETH interrupt | MAC settings follow the negotiated ones through failed reads, late negotiations and the wrap of the tick; start and stop in pairs |
| Discovery and reboot server: `udp_server.c`, `IAP_config.h` | RTC backup register used as boot flag | UDP commands, 1200-baud touch (`usbd_cdc_if.c:171`) | main loop, USB interrupt, boot loader | the flag says what was asked last; a reset follows |
| UART serial ports: `HardwareSerial.cpp`, `uart.c` | two ring buffers per port, HAL handle, direction of a half-duplex wire | `begin`, `end`, `write`, `read`, `flush`, interrupts | sketch, UART interrupt | the stream of bytes; each byte started once; no byte stranded; receiver and transmitter never on together in half duplex |
| I2C: `Wire.cpp`, `twi.c` | buffers, transfer state | master transfers with time-outs, slave callbacks | sketch, I2C interrupt | a time-out leaves a usable state |
| EEPROM emulation: `stm32_eeprom.c` | RAM copy and flash page | buffered and direct writes | power loss | the last flush survives |
| VirtIOSerial, SoftwareSerial, Servo, timers, pins, RTC, watchdog, HID, text | see `PROJECT.json` | | | |

`PROJECT.json` lists every component with its sources and, for those not
modelled, the reason; its `hazards` list says line by line what is hard to test.

The hard behaviours, and where they are:

- *interleaving*: the CDC queues and the UART rings are shared by the sketch and
  an interrupt without a lock, each field a variable of its own; `write()` and
  the transmit-complete interrupt decide separately who starts the next
  transfer;
- *unfinished steps*: the Ethernet ring is drained, refilled, stopped and
  restarted while the DMA goes on;
- *resources*: `RX_POOL` runs out in the middle of refilling the ring; the CDC
  receive queue has no room for another packet;
- *resets*: a USB reset and configuration, or a link loss, at any moment;
- *time*: a host that does not read, a time-out that is forgotten, a poll of the
  PHY that must survive the wrap of the tick;
- *stale reads*: the link monitor reads four PHY registers one after the other
  while the link changes; the boot flag is read, compared and written by the
  main loop while the USB interrupt writes it too.

## 2. Modules

| module | models | runs |
|---|---|---|
| `ByteStream` | abstract: what a serial port promises, a bounded pipe | instantiated by the three ports below |
| `EthRx` | Ethernet receive path | `MCEthRx`: `EthRx_safety`, `EthRx_live`, `EthRx_stall`, `EthRx_desc0` |
| `EthRx_proofs` | theorems about `EthRx`: types and buffers | |
| `EthRx_ring_proofs` | theorems about `EthRx`: the ring, the frames, wake-ups, exhaustion | |
| `CdcRx` | CDC receive queue and OUT endpoint | `MCCdcRx`: `CdcRx`, `CdcRx_pended`, `CdcRx_reconfig` |
| `CdcRx_proofs` | theorems about `CdcRx` | |
| `CdcTx` | CDC transmit queue and IN endpoint | `MCCdcTx`: `CdcTx`, `CdcTx_hang` |
| `CdcTx_proofs` | theorems about `CdcTx` | |
| `UartSerial` | both rings of a UART port | `MCUartSerial`: `UartSerial`, `UartSerial_race` |
| `UartSerial_proofs` | theorems about `UartSerial` | |
| `Node` | main loop, link monitor, reboot over UDP and USB, boot flag | `MCNode`: `Node` |
| `Node_proofs` | theorems about `Node` | |
| `RingIndex` | distance between two places of a ring, used by `CdcTx` and `UartSerial` | |
| `StreamLemmas` | lemmas on numbered bytes and ring positions | |

`CdcRx`, `CdcTx` and `UartSerial` (both directions) are shown to implement
`ByteStream`. `Node` and `EthRx` meet in `LinkUp` and `LinkDown`: `Node` says when
the monitor calls them, `EthRx` what they do to a ring that is in use. They are
kept apart because their product is out of reach; `EthRx` lets the link change at
any return to the main loop, which includes every moment at which `Node` does it.

In every module a definition commented *Mutant* is a plausible bug in the
definition after it. Nothing uses it; it documents which change of the code the
property named with it in `PROJECT.json` would catch.

### EthRx

Actors: the main loop (`pc`), the ETH interrupt, and the DMA with the PHY. A
descriptor has its OWN bit (`own`), DESC0 (`addr`), `BackupAddr0` (`buf`) and
the FD and LD bits of the write-back. The DMA's write-back destroys DESC0 (it
holds VLAN tags then), so `addr` becomes `NoBuf`. `RxDescIdx`,
`RxBuildDescIdx`, `RxBuildDescCnt` are the driver's cursors, `dmaIdx` the
DMA's. The content of a buffer is the number of the frame and which part of it
was stored; a frame has at most two parts, since the MAC cuts at 2 KB and a
buffer has 1536 bytes.

The main loop is split wherever another actor can change what it looks at: each
iteration of the read loop and of the refill loop is a step, and
`HAL_ETH_Stop` / `HAL_ETH_Start_IT` are split between their test of `gState`
and their last write of it, where `FatalBusErrorIrq` may come. lwIP is external:
it frees a packet at once (`DeliverFreed`) or keeps it (`DeliverHeld`) and frees
it later (`AppFree`). `LinkUp` and `LinkDown` stand for what
`ethernet_link_check_state` does to the receive path.

`dirty` records that a stop found the ring or the chain not drained. What holds
only until then says so (`~dirty =>`); buffer conservation, buffer ownership and
types hold always.

### ByteStream

The abstract specification. Bytes are numbered as they enter a pipe of
`Capacity` bytes; they are accepted at one end and delivered at the other, each
once and in order. `Clear` is a connection that is set up again: what was in the
pipe is lost, nothing else. `Break` is the escape for the behaviours that the
violation runs show to be wrong: a component maps its own history variable
(`overrun`, `torn`, `raced`) to `broken`, and a broken pipe promises nothing.

### CdcRx

Actors: the main thread in one of the five queue operations, split at each
access to a field that the interrupt writes (`length`: `write` has been copied
and `length` is next; then `check`, `fetch`, `wrap`; then `resume`, `reserve`,
`arm` of `CDC_resume_receive`), and the USB interrupt, which runs to completion. Bytes
are numbered in the order the host sends them, so that "the stream" can be
stated. `Read` and `ReadUntil` take any number of the bytes they may take:
requested size and terminator decide nothing else.

`xfer = "null"` is the endpoint after `USBD_CDC_ClearBuffer`: prepared with
address 0 and length 0, which `USB_EPStartXfer` turns into one enabled transfer
of a packet. A packet that comes then is the event `overrun`; a configuration in
the middle of an operation is `torn`. Both are shown by runs of their own to
spoil the queue; the stream properties are about behaviours in which neither has
happened (`Sane`), the type invariant about all.

### CdcTx

Actors: the main thread in `write()` or `flush()`, the USB interrupt, the host,
and time. `transmitStart` is abstracted to none, recent and late (older than
`USB_CDC_TRANSMIT_TIMEOUT`). The IN endpoint is off, idle, has data or a
zero-length packet for the host, or has been served with the interrupt pending.
The host takes a transfer packet by packet while the endpoint reads the queue's
buffer: `CDC_TransmitQueue_ReadBlock` returns up to two packets less a byte, not
one packet as its comment has it, so the block must stay intact
(`TransferIntact`). After a bus reset `pClassData` is null; what
`CDC_continue_transmit` reads through it is an arbitrary value (`ContinueBusy`
and `ContinueFree` both enabled).

Left out of `CdcTx`: suspend and resume (they change only what `CDC_connected`
says), `CDC_enableDTR` (with it off every control request acts as one with DTR,
a subset of the requests modelled), the line coding request.

### UartSerial

Actors: the main thread (`pc`) in `begin`, `end`, `write`, `flush` or `read`, the
UART that shifts bytes, and its interrupt, which runs to completion. `write()` is
split at each access to a field the interrupt shares: the samples of
`availableForWrite()` and of the space to the end of the ring (`CallWrite`,
`SampleAgain`), the wait for room (`Wait`), the copy (`Copy`), the move of the
head (`Advance`) and the test of `serial_tx_active` with the start of the
transfer (`Start`). It calls itself for a write that does not fit in one piece:
`depth` is 1 in the inner call, and `NestedOnce` shows that there is never a
third. `TxISR` shifts a byte out; `TxComplete` moves the tail and starts the next
block, up to the head or the end of the ring.

`half` is fixed by `Init`: a port with one wire for both directions turns the
receiver off in `write()` (`SwitchToTx`) and on in `read()` and `begin()`
(`SwitchToRx`), both of which put the HAL handle to ready whatever it was at.
`RxDrop` is a byte that finds no room, or an error the HAL reports; it leaves
the state alone, since reception is started again each time.

`raced` is the event found by `uart_race`: between `Advance` and `Start` the
interrupt ends the transfer before, sends the new bytes and goes idle, and
`write()` then starts a transfer of as many bytes from a tail that is equal to the
head: what the ring held there before goes out. `TxImplementsPipe`, `NestedOnce`,
`NothingStranded`, `CallsReturn` and the bound on the transmit position are about
behaviours in which it has not happened, and say so; such states are checked and
not explored further (`UntilRaced`).

### Node

Actors: the main thread, which goes round `sketch`, `input`, `timer` and the link
check, the PHY with its link partner, the tick, the network, the USB and ETH
interrupts, and the boot loader between a reset and the next start.
`LAN8742_GetLinkState` is one step per register read, each of which may fail
(`ReadFails`); BSR latches a lost link until it is read, and the second of two
reads counts. `status` keeps the numbers of the status codes because the code
compares them (`<= LINK_DOWN` covers the error codes). The tick is counted modulo
`TickMod` and the elapsed time taken modulo it, as `uint32_t` does.

`InputReboot`, `BkupRead`, `BkupWrite` and `Reset` are
`openplc_set_eth_flag_and_reset`, split where the USB interrupt can come
(`Touch`, `CDC_SET_LINE_CODING` at 1200 baud). A touch that finds CDC in the
register already is dropped (`TouchIgnored`). `asked` records which request came
last, dropped or not, to compare with what the boot loader finds, and `overtaken`
that it was a touch dropped between the datagram and the write of its flag. That
write then goes over the later request, and the node boots for the datagram's:
`BootsAsAsked` names this as its one exception. It takes a register that says CDC
while the program runs, and an interrupt in a window of a few instructions; no
statement of the repository denies it.

The program begins in the link check that `netif_add` makes through
`ethernetif_init`; `NetInit` is the rest of `openplc_net_init`, which sets the
interface up whatever the link is. So the interface can be up without a link until
the link is lost for the first time, and `StartedIffUp` is about the link flag.

`flapped` records that the link was lost and came back without the monitor seeing
it down. The first read of BSR, which would tell, is dropped, and the MAC may
then keep an old mode; `FollowsPhy` excepts it, and excepts a handle in
`HAL_ETH_STATE_ERROR` after a fatal bus error, which nothing leaves.

## 3. Runs

`pass` runs; each checks its properties in every state or behaviour of the
instance:

| run | instance | shows |
|---|---|---|
| `rx_safety` | 3 descriptors, 4 buffers (symmetric), 4 frames, 1 link loss; 1.8 M states | `BufferConservation`, `DmaOwnsBuffer`, `DmaAddressValid`, `RingAligned`, `PacketIsOneFrame`, `NoLostWakeup`, `ExhaustionEnds`, `GivesBackReadOnlyDrained`, `DeliverInOrder` |
| `rx_live` | 2 descriptors, 3 buffers, 2 frames, 1 link loss, fair | `FrameDelivered` |
| `cdc_rx` | packets of 2, 12 bytes, 2 configurations, fair; 0.13 M states | `BlockFree`, `QueueHoldsStream`, `CopiesStream`, `AvailableIsReal`, `StoppedOnlyIfUnread`, `ImplementsPipe`, `ByteTaken`, `StopEnds` |
| `cdc_tx` | packets of 2, writes of 1 to 4, 5 bytes, 2 configurations, 2 line requests, fair; 0.2 M states | `QueueHoldsStream`, `TransferIntact`, `NothingStranded`, `EndsShort`, `ImplementsPipe`, `EverythingSent`, `FlushReturns`, `WriteReturnsUnlessRearmed` |
| `uart` | rings of 4 and 3, writes of 0 to 6, 7 bytes out, 3 in, 1 `end()`, both wirings, fair; 0.3 M states | `NestedOnce`, `NothingStranded`, `OneDirection`, `TxImplementsPipe`, `RxImplementsPipe`, `CallsReturn` |
| `node` | tick modulo 3, polled every tick, 2 link modes, link up twice, 1 failure, 1 restart, 1 datagram, fair; 1.5 M states | `StartedIffUp`, `BootsAsAsked`, `FollowsPhy` |

Every pass run also checks the module's `TypeOK`.

*Bounds.* The ring needs three descriptors for its three regions (read, unread,
the DMA's) to be non-empty together, and one buffer more than descriptors for
exhaustion to be the application's doing (the code has 12 and 4); four frames
wrap the ring. The CDC receive buffer is three packets long
(`CDC_RECEIVE_QUEUE_BUFFER_SIZE`): packets of 0 to 2 bytes reach every relation
of `read`, `write`, `length` and the limit, and 12 bytes go round twice.
The transmit buffer is two packets long; a write of 4 exceeds its 3 usable
bytes and 5 bytes go round it. Two configurations allow one after data has
flowed. A UART write of 6 exceeds the 3 usable bytes of its ring twice over and
is split more than once; 7 bytes go round both rings; one `end()` allows
a second `begin()`. In `Node` a tick modulo 3 wraps between two polls, two rises
let the second come in another mode, and one failure hits any of the four
register reads or is the bus error; more of any of them only repeats. The run of
`Node` does not check for deadlock: a boot loader that never starts the program
is an end the code has no say in. A constraint (`UntilSpoilt`, `UntilTorn`,
`UntilRaced`) ends `cdc_rx`, `cdc_tx` and `uart` where the stream is spoilt and
their properties claim nothing but the types and, for `CdcTx`, `EndsShort`, for
`UartSerial`, `OneDirection` and `RxImplementsPipe`; these are proved below for all
behaviours.

*Fairness.* `EthRx`: the main loop runs and a pending interrupt is taken (weak
fairness), and lwIP does not keep a buffer for ever (strong: it can free only at
certain points of the loop), as its reassembly and TCP timers ensure. `CdcRx`:
the main thread runs, and the sketch keeps calling `read()` (strong: it can call
only between two operations); without that no byte would ever be taken. Nothing
is asked of the host. `CdcTx`: the main thread runs, interrupts are taken, time
passes. `EverythingSent` and `FlushReturns` assume in addition that the host
keeps reading (`HostReads`); `WriteReturnsUnlessRearmed` does not. `UartSerial`:
the main thread runs and the UART shifts bytes out, which it does whoever
listens on a port without a CTS pin, the default (with flow control the other end
could hold a call up for ever); nothing is asked of the sketch or of the other end. `Node`: the loop
comes round (every `loop()` of the sketch returns, and at least once in 2^32 ms,
which is the guard of `Tick`), time passes and a negotiation on a link that is up
ends. Nothing is asked of the boot loader, the network or the host.

`violation` runs; each refutes a statement of a comment in the code
(`findings` in `PROJECT.json` quotes it):

| run | the code does | 
|---|---|
| `rx_stall` | once `RX_POOL` was exhausted with every descriptor filled, freeing buffers only resets `RxAllocStatus`; no event makes `ethernetif_input` rebuild the ring, and reception is dead until the link is lost |
| `rx_desc0` | a restart of the MAC with an unread frame in the ring gives its descriptor back with a DESC0 that is no address |
| `cdc_rx_pended` | with the receive queue full the endpoint stays enabled; a further packet is committed without room |
| `cdc_rx_reconfig` | a configuration in the middle of `read()` leaves `read` ahead of `write` |
| `cdc_tx_hang` | a control line request with DTR during a transfer forgets its time-out; if the host does not read, `write()` never returns |
| `uart_race` | when the transmit-complete interrupt sends new bytes between the move of the head and the test for a transfer under way, `write()` starts a transfer from a tail equal to the head, and more goes out than was written |

## 4. Proofs

Every safety property and every refinement that a run checks is also a theorem.
TLAPS checks `EthRx_proofs`, `EthRx_ring_proofs`, `CdcRx_proofs`, `CdcTx_proofs`,
`UartSerial_proofs`, `Node_proofs` and `StreamLemmas`. The constants are arbitrary:
a ring of any positive length (a UART ring of two bytes or more), any set of
buffers (`NoBuf` not among them), a packet of any positive size, any bounds. Each
inductive invariant was model-checked before it was proved.

`EthRx_proofs`

- `TypeCorrect`: `Spec => []TypeOK`. Not inductive alone: that the read loop's
  `desccnt` and `RxBuildDescCnt` together stay within the ring is needed
  (`ReadBound`), which holds because the loop stops at
  `RxDescCnt - RxBuildDescCnt`. `TypeInv == TypeOK /\ ReadBound`.
- `BuffersConserved`: `Spec => []BufferConservation`, and `DmaHasBuffer`:
  `Spec => []DmaOwnsBuffer`, from `BufInv`: the two together and "no packet is
  pending outside delivery". They need each other: reading a descriptor moves
  its buffer to the chain only if it has one.

`EthRx_ring_proofs`

- `RingStaysAligned`, `DmaWritesAttached`, `PacketsAreFrames` (invariants),
  `FramesInOrder` and `GivesBackOnlyRead` (action properties): from one inductive
  invariant, `EthInv`, whose core is `RingInv`. As long as no stop has found the
  ring undrained, the ring has one of three shapes (`RingShape`). While the driver
  runs (`Running`), counted from `RxBuildDescIdx`, there are `t` descriptors without
  a buffer, then the unread ones up to the DMA's position `k`, then the DMA's
  (`Layout`), and the unread parts are those of consecutive frames: the first
  follows what was read, each follows the one before it, the next the DMA stores
  will follow the last (`Parts`). `DmaReceive` moves `k` on, `ReadDesc` moves `t`,
  `BuildDesc` moves both and the origin. Before the first start the ring looks
  like one from which everything was read (`Fresh`); a restart goes round a ring
  that is all the DMA's (`Rebuild`). `RingAligned` alone is not inductive: that a
  part which is read starts a frame exactly when no packet is half assembled, so
  that `HAL_ETH_ReadData` never passes a descriptor over with its buffer left
  attached, is a fact about the frames. `ChainInv` says the same of the packet on
  its way to lwIP, `QuietInv` what a stopped driver leaves behind, and `PhaseInv`
  relates `gState`, the DMA and the position of the main loop, through bus errors.
- `WakeupsNotLost`: `Spec => []NoLostWakeup`. `WakeInv` extends the property into
  `HAL_ETH_ReadData`: once the read loop has ended without a packet, nothing was
  left to read or a wake-up is pending; giving descriptors back does not change
  that, because a ring that is all to be given back has its read cursor on the
  first descriptor given back (`RingInv`).
- `ExhaustionCanEnd`: `Spec => []ExhaustionEnds`, for any finite pool with more
  buffers than descriptors (the code has 12 and 4; with as many it is false). When
  an allocation fails the pool is empty, one descriptor has no buffer, and the
  packet being assembled has at most one part, so a counting argument
  (`BuffersElsewhere`) leaves a buffer with lwIP; the pool stays empty until one is
  freed, which resets `RxAllocStatus` (`StarveInv`).

`CdcRx_proofs`

- `TypeCorrect`: in all behaviours, also spoilt ones; `TypeInv` adds
  `ReadBound`.
- `BlockAlwaysFree`, `QueueCarriesStream`, `CopiesAreReal`,
  `NeverStoppedEmpty`, `AvailableKeepsPromise`: from one inductive invariant, `StreamInv`. While the
  stream is sane: the positions have one of the shapes the queue can take
  (`Shape`), the endpoint's block is the one reserved at `write` whenever
  `receivePended` (`Pended`), the main thread's copies of `write` and `length`
  are bounded by the present values in the way the order of the two reads
  guarantees (`CopyOfWrite`, `CopyOfLength`), reception that is stopped has left
  unread bytes or the operation is still on its way to resuming it (`Stopped`),
  and the buffer holds the stream (`Contents`).
- `QueueImplementsPipe`: `Spec => ImplementsPipe`, the refinement of `ByteStream`.
  The bytes between `read` and `write` are a run of the stream (`Contents`), so a
  committed packet appends the next run and an operation removes the first part
  of one; `StreamLemmas` has what is used of runs (`BytesConcat`, `BytesSub`) and
  of positions modulo a ring (`ModSmall`, `ModOnce`). Every other step stutters,
  and a step that spoils the stream is `Break`.

`CdcTx_proofs`

- `TypeCorrect`: in all behaviours, also torn ones; `LocalInv` bounds what `write()`
  has in hand.
- `TransfersEndShort`: `Spec => []EndsShort`, also in torn behaviours. `StateInv`: an
  idle endpoint has `TxState` 0 and a busy one 1, and `write()` does not take a block
  while one is under way; `ShortInv`: a transfer has one or two packets, and one
  whose last packet was full still has the length that makes
  `USBD_CDC_DataIn` send an empty one.
- `QueueCarriesStream`, `BlockStaysIntact`, `NoByteStranded`: from `StreamInv`, while
  the queue is not torn. The block under transfer, or about to be, is the one
  reserved at `read` and lies within the queued bytes (`BlockInv`); the host is as
  far in it as the packets it has taken (`HostInv`); an idle endpoint means an empty
  queue or a `write()` that has still to look (`IdleInv`), which the property does
  not say of the steps inside `write()`; the buffer holds the stream from `read`
  on, behind `write` too between the copy and the move of `write` (`Contents`,
  `Filled`).
- `TransmitImplementsPipe`: `Spec => ImplementsPipe`. The pipe holds what the host
  has not taken of the block and what is queued behind it, so a packet is a
  delivery and the commit of the block a stutter; `torn` is mapped to `broken`.

`UartSerial_proofs`

- `TypeCorrect`: `Spec => []TypeOK`. The bound on what the HAL is given
  (`pTxBuffPtr + TxXferCount <= TxSize`) is a fact about who starts transfers and
  comes from `TxInv` below; the plain types (`Types`) are inductive with `PartInv`,
  by which what an inner call is given is part of what the outer one has left.
- `ReceiveImplementsPipe`: `Spec => RxImplementsPipe`. `RxInv`: the places between
  tail and head hold a run of the received bytes, and the byte `read()` has fetched
  and not yet consumed is the first of them. The interrupt only appends, so both
  survive it between any two steps of `read()`. The theorem has no exception.
- `WireHasOneDirection`: `Spec => []OneDirection`. The property says nothing of the
  moments before a transfer; `DirInv` adds that the receiver is off from the start
  of `write()` to its last step, and that `_rx_enabled` lags behind the wire only
  inside `begin()`.
- `InnerCallFits` and `NoByteStranded`: `Spec => []NestedOnce` and
  `Spec => []NothingStranded`, which except `raced` behaviours. `TxInv` has four parts: a transfer under way starts at the tail, passes
  neither the head nor the end of the ring, and the bytes sent of it and the bytes
  left make up `tx_size` (`BusyInv`); an idle transmitter means an empty ring, or a
  `write()` that is about to start all there is (`IdleInv`); the samples of `write()`
  are lower bounds of the space there is now, since the interrupt only frees space
  (`WriteInv`); a cleared `_written`, which lets `flush()` return at
  once, means that the ring is empty and nothing is under way (`FlushInv`, with
  `OpenInv` for a port that is closed).
- `TransmitImplementsPipe`: `Spec => TxImplementsPipe`. `TxContents`: the ring holds,
  from the byte the UART sends next, the accepted bytes that are not on the wire,
  and behind them, between `Copy` and `Advance`, the copied ones that are not yet
  accepted (`Filled` counts both). Without the second part `Advance` could not be
  shown to append the right bytes. `raced` is mapped to `broken`; the step that
  races is `Break`.

`StreamLemmas` has what the two transmit queues share: `RingCases`, `RingGrows`,
`RingShrinks`, `RingAdds` and `MoveCases` do the arithmetic modulo the ring once;
`HoldsNext`, `HoldsMore` and `HoldsSkip` say how a ring that holds a run of the
stream (`RingHolds`) goes on doing so; `RingRun` turns "the place at distance d from
the tail holds byte d" into a sequence; `RunGrows` and `RunShrinks` are the two steps
of a pipe.

`Node_proofs`

- `TypeCorrect`, with any tick modulus and period.
- `UpMeansStarted`: `Spec => []StartedIffUp`, inductive with the types: start and
  stop are called exactly where the link flag of the netif changes, and only a handle
  in error refuses them.
- `LastRequestWins`: `Spec => []BootsAsAsked`, from `FlagInv`: from the datagram
  to the write of the flag the last request is the datagram's or a touch dropped
  after it, and `regV`, once read, is the flag (a USB touch that is not dropped
  resets the node at once); at any other time the flag is that of the last request,
  or the datagram's write has gone over a dropped touch.

Only model-checked: all liveness, that is `FrameDelivered`, `ByteTaken`, `StopEnds`,
`EverythingSent`, `FlushReturns`, `WriteReturnsUnlessRearmed`, `CallsReturn` and
`FollowsPhy`. Leads-to under fairness is beyond the prover used here, as are
`ENABLED`, induction over recursive data and `RECURSIVE` operators (the modules use
none).

## 5. What is not modelled

See `PROJECT.json` for the full list. Vendored code (lwIP, HAL, CMSIS, USB
middleware, OpenAMP) appears only as far as a modelled path runs through it.
Start-up, clocks, pins and register programming have no state shared with
another actor. `LAN8742_Init` is taken to have found the PHY: when it fails
the monitor goes on polling an address at which no PHY answered, and what the bus
returns then is the hardware's matter. The transmit path (`HAL_ETH_Transmit` with its time-out, whose
result `low_level_output` ignores), I2C, the EEPROM emulation and the
timers are not modelled yet. Memory ordering and the data cache are not modelled: the driver's
barriers and cache maintenance are taken to work.

## 6. Plan

In this order:

1. `EthTx`: `low_level_output` and the transmit descriptors, with the time-out that
   takes back only the descriptor of the last buffer.
2. `Wire` and `twi.c` with time-outs and slave callbacks, the EEPROM emulation with
   power loss, and the timer arithmetic as pure operators.
