------------------------------- MODULE CdcTx -------------------------------
(***************************************************************************)
(* The transmit half of the USB CDC serial port (SerialUSB): the           *)
(* TransmitQueue that write() fills and that the IN endpoint drains, one   *)
(* block of the queue per transfer, with the time-out by which a host that *)
(* does not read counts as disconnected.                                   *)
(*                                                                         *)
(* Actors: the main thread in write() (pc), the USB interrupt (DataIn and  *)
(* the control requests, each to completion), the host, which takes a      *)
(* transfer packet by packet, and time. Bytes are numbered in the order    *)
(* the sketch writes them.                                                 *)
(***************************************************************************)
EXTENDS Integers, RingIndex

CONSTANTS
  MaxPacketSize,  \* CDC_QUEUE_MAX_PACKET_SIZE, also maxpacket of the endpoint
  MaxWrite,       \* bound: size of one write()
  MaxBytes,       \* bound: bytes the sketch writes
  MaxConfigs,     \* bound: times the host configures the device
  MaxControls     \* bound: SET_CONTROL_LINE_STATE requests

ASSUME MaxPacketSizeAssumption == MaxPacketSize \in Nat \ {0}
ASSUME BoundsAssumption ==
  /\ MaxWrite \in Nat
  /\ MaxBytes \in Nat
  /\ MaxConfigs \in Nat
  /\ MaxControls \in Nat

\* CDC_TRANSMIT_QUEUE_BUFFER_SIZE.
BufferSize == 2 * MaxPacketSize

VARIABLES
  buffer, write, read, reserved,  \* the TransmitQueue
  TxState,        \* hcdc->TxState
  transmitStart,  \* "none" (0), or set "recent"ly, or "late": time-out passed
  dtrState,
  xfer,           \* the IN endpoint: "off" (class not configured), "idle",
                  \* "data" or "zlp" for the host to take, "done": taken,
                  \* DataIn interrupt pending
  txBuffer,       \* xfer_buff of the endpoint, as an index into buffer
  total_length,   \* of ep_in
  left,           \* bytes of the transfer the host has not taken
  pc,             \* position of the main thread
  rest,           \* locals of USBSerial::write
  portion,
  size, block,    \* locals of CDC_continue_transmit
  sent,           \* history: bytes put in the queue
  done,           \* history: bytes taken out of it (or lost)
  rcvd,           \* history: bytes the host took (or lost)
  lastPacket,     \* history: size of the last packet the host took
  configs,        \* history: times the device was configured
  controls,       \* history: control line requests
  torn,           \* history: a configuration interrupted write() half way
  rearmed         \* history: a transfer had no time-out, or lost it

queue == <<buffer, write, read, reserved>>
endpoint == <<TxState, xfer, txBuffer, total_length, left>>
local == <<rest, portion, size, block>>
hostHist == <<rcvd, lastPacket>>
hist == <<sent, done, configs, controls, torn, rearmed>>
vars == <<queue, transmitStart, dtrState, endpoint, pc, local, hostHist, hist>>

PC == {"idle", "loop", "copy", "advance", "continue", "block", "stamp",
       "transmit", "flush"}

TypeQueue ==
  /\ buffer \in [0 .. BufferSize - 1 -> 0 .. MaxBytes]
  /\ write \in 0 .. BufferSize - 1
  /\ read \in 0 .. BufferSize - 1
  /\ reserved \in 0 .. BufferSize - 1
TypeEndpoint ==
  /\ TxState \in {0, 1}
  /\ xfer \in {"off", "idle", "data", "zlp", "done"}
  /\ txBuffer \in 0 .. BufferSize - 1
  /\ total_length \in 0 .. BufferSize - 1
  /\ left \in 0 .. BufferSize - 1
TypeLocal ==
  /\ pc \in PC
  /\ rest \in 0 .. MaxWrite
  /\ portion \in 0 .. BufferSize - 1
  /\ size \in 0 .. BufferSize - 1
  /\ block \in 0 .. BufferSize - 1
TypeLine ==
  /\ transmitStart \in {"none", "recent", "late"}
  /\ dtrState \in BOOLEAN
TypeHist ==
  /\ sent \in 0 .. MaxBytes
  /\ done \in Nat
  /\ rcvd \in Nat
  /\ lastPacket \in 0 .. MaxPacketSize
  /\ configs \in 0 .. MaxConfigs
  /\ controls \in 0 .. MaxControls
  /\ torn \in BOOLEAN
  /\ rearmed \in BOOLEAN

\* Every variable has its type, in torn streams too: the positions stay in the
\* buffer, and so does the block the endpoint is given.
TypeOK == TypeQueue /\ TypeEndpoint /\ TypeLocal /\ TypeLine /\ TypeHist

Init ==
  /\ buffer = [i \in 0 .. BufferSize - 1 |-> 0]
  /\ write = 0 /\ read = 0 /\ reserved = 0
  /\ TxState = 0
  /\ transmitStart = "none"
  /\ dtrState = FALSE
  /\ xfer = "off"
  /\ txBuffer = 0 /\ total_length = 0 /\ left = 0
  /\ pc = "idle"
  /\ rest = 0 /\ portion = 0 /\ size = 0 /\ block = 0
  /\ sent = 0 /\ done = 0 /\ rcvd = 0 /\ lastPacket = 0
  /\ configs = 0 /\ controls = 0
  /\ torn = FALSE /\ rearmed = FALSE

-----------------------------------------------------------------------------
(* The queue.                                                              *)

\* Mutant: the byte that tells a full queue from an empty one is given away.
WriteSizeFull == 1 + ((read + BufferSize - write - 1) % BufferSize)

\* CDC_TransmitQueue_WriteSize and CDC_TransmitQueue_ReadSize.
WriteSize == (read + BufferSize - write - 1) % BufferSize
ReadSize == Ring(BufferSize, read, write)

\* Size of the block CDC_TransmitQueue_ReadBlock returns, from read on.
BlockSize(rd) == IF write >= rd THEN write - rd ELSE BufferSize - rd

\* Mutant: the position after a block runs over the end.
CommitReadOver == read + reserved

\* CDC_TransmitQueue_CommitRead.
CommitRead == (read + reserved) % BufferSize

-----------------------------------------------------------------------------
(* The main thread: USBSerial::write.                                      *)

\* Mutant: a slow host is not taken for a disconnected one.
ConnectedNoTimeout == xfer # "off" /\ dtrState

\* CDC_connected. (A bus reset or a new configuration is the only change of
\* dev_state here: suspend and resume are left out.)
Connected == xfer # "off" /\ transmitStart # "late" /\ dtrState

\* The sketch calls write() with n bytes.
CallWrite(n) ==
  /\ pc = "idle"
  /\ sent + n <= MaxBytes
  /\ rest' = n
  /\ pc' = "loop"
  /\ UNCHANGED <<queue, transmitStart, dtrState, endpoint, portion, size, block,
                 hostHist, hist>>

\* The loop ends: all written, or the port is not connected.
WriteReturn ==
  /\ pc = "loop"
  /\ rest = 0 \/ ~Connected
  /\ pc' = "idle"
  /\ rest' = 0 /\ portion' = 0 /\ size' = 0 /\ block' = 0
  /\ UNCHANGED <<queue, transmitStart, dtrState, endpoint, hostHist, hist>>

\* Some space exists: the portion is fixed.
Portion ==
  /\ pc = "loop"
  /\ rest > 0 /\ Connected
  /\ WriteSize > 0
  /\ portion' = IF rest < WriteSize THEN rest ELSE WriteSize
  /\ pc' = "copy"
  /\ UNCHANGED <<queue, transmitStart, dtrState, endpoint, rest, size, block,
                 hostHist, hist>>

\* No space: the loop goes round, waiting for the interrupt.
WriteSpin ==
  /\ pc = "loop"
  /\ rest > 0 /\ Connected
  /\ WriteSize = 0
  /\ UNCHANGED vars

\* Mutant: the second piece is copied from the start of the data again.
EnqueueCopyAgain ==
  /\ pc = "copy"
  /\ buffer' = [i \in DOMAIN buffer |->
                  LET k == Ring(BufferSize, write, i)
                  IN IF k >= portion THEN buffer[i]
                     ELSE IF i >= write THEN sent + 1 + k
                     ELSE sent + 1 + i]
  /\ pc' = "advance"
  /\ UNCHANGED <<write, read, reserved, transmitStart, dtrState, endpoint, local,
                 hostHist, hist>>

\* CDC_TransmitQueue_Enqueue copies the portion behind write, in one piece or
\* in two, ...
EnqueueCopy ==
  /\ pc = "copy"
  /\ buffer' = [i \in DOMAIN buffer |->
                  LET k == Ring(BufferSize, write, i)
                  IN IF k < portion THEN sent + 1 + k ELSE buffer[i]]
  /\ pc' = "advance"
  /\ UNCHANGED <<write, read, reserved, transmitStart, dtrState, endpoint, local,
                 hostHist, hist>>

\* ... and then moves write.
EnqueueAdvance ==
  /\ pc = "advance"
  /\ write' = (write + portion) % BufferSize
  /\ rest' = rest - portion
  /\ sent' = sent + portion
  /\ pc' = "continue"
  /\ UNCHANGED <<buffer, read, reserved, transmitStart, dtrState, endpoint, portion,
                 size, block, hostHist, done, configs, controls, torn, rearmed>>

\* CDC_continue_transmit in the main thread: a transfer is in progress. While
\* the class is not configured hcdc is null and the TxState read is arbitrary.
ContinueBusy ==
  /\ pc = "continue"
  /\ TxState # 0 \/ xfer = "off"
  /\ pc' = "loop"
  /\ UNCHANGED <<queue, transmitStart, dtrState, endpoint, local, hostHist, hist>>

\* Mutant: the state of the transfer is not looked at.
ContinueAlways ==
  /\ pc = "continue"
  /\ pc' = "block"
  /\ UNCHANGED <<queue, transmitStart, dtrState, endpoint, local, hostHist, hist>>

ContinueFree ==
  /\ pc = "continue"
  /\ TxState = 0 \/ xfer = "off"
  /\ pc' = "block"
  /\ UNCHANGED <<queue, transmitStart, dtrState, endpoint, local, hostHist, hist>>

\* CDC_TransmitQueue_ReadBlock.
ReadBlock ==
  /\ pc = "block"
  /\ size' = BlockSize(read)
  /\ reserved' = BlockSize(read)
  /\ block' = read
  /\ pc' = IF BlockSize(read) > 0 THEN "stamp" ELSE "loop"
  /\ UNCHANGED <<buffer, write, read, transmitStart, dtrState, endpoint, rest, portion,
                 hostHist, hist>>

\* USBD_CDC_SetTxBuffer and USBD_CDC_TransmitPacket of n bytes at b, which do
\* nothing while the class is not configured; tx is TxState when called.
TransmitPacket(tx, b, n) ==
  IF xfer = "off" \/ tx # 0
  THEN UNCHANGED endpoint
  ELSE /\ TxState' = 1
       /\ txBuffer' = b
       /\ total_length' = n
       /\ left' = n
       /\ xfer' = "data"

\* transmitStart = HAL_GetTick(). The tick is 0, which stands for no time-out,
\* once in 2^32 milliseconds.
StampTick ==
  /\ transmitStart' \in {"recent", "none"}
  /\ transmitStart' = "none" => ~rearmed
  /\ rearmed' = (rearmed \/ transmitStart' = "none")

\* A block is there: the time-out begins, ...
Stamp ==
  /\ pc = "stamp"
  /\ StampTick
  /\ pc' = "transmit"
  /\ UNCHANGED <<queue, dtrState, endpoint, local, hostHist, sent, done, configs,
                 controls, torn>>

\* ... and the transfer.
Transmit ==
  /\ pc = "transmit"
  /\ TransmitPacket(TxState, block, size)
  /\ pc' = "loop"
  /\ UNCHANGED <<queue, transmitStart, dtrState, local, hostHist, hist>>

\* USBSerial::flush waits until the queue is empty, connected or not.
CallFlush ==
  /\ pc = "idle"
  /\ pc' = "flush"
  /\ UNCHANGED <<queue, transmitStart, dtrState, endpoint, local, hostHist, hist>>

FlushSpin ==
  /\ pc = "flush"
  /\ ReadSize > 0
  /\ UNCHANGED vars

FlushReturn ==
  /\ pc = "flush"
  /\ ReadSize = 0
  /\ pc' = "idle"
  /\ UNCHANGED <<queue, transmitStart, dtrState, endpoint, local, hostHist, hist>>

-----------------------------------------------------------------------------
(* The host and the interrupt.                                             *)

\* The host takes a packet of the transfer, ...
HostTakes ==
  /\ xfer = "data"
  /\ LET n == IF left < MaxPacketSize THEN left ELSE MaxPacketSize IN
       /\ left' = left - n
       /\ rcvd' = rcvd + n
       /\ lastPacket' = n
       /\ xfer' = IF left = n THEN "done" ELSE "data"
  /\ UNCHANGED <<queue, transmitStart, dtrState, TxState, txBuffer, total_length, pc,
                 local, hist>>

\* ... or the zero-length packet that ends it.
HostTakesZlp ==
  /\ xfer = "zlp"
  /\ lastPacket' = 0
  /\ xfer' = "done"
  /\ UNCHANGED <<queue, transmitStart, dtrState, TxState, txBuffer, total_length, left,
                 pc, local, rcvd, hist>>

\* Mutant: a transfer of whole packets is not followed by an empty one.
ZlpNever == FALSE

\* The transfer ended with a full packet.
ZlpDue == total_length > 0 /\ total_length % MaxPacketSize = 0

DataInZlp ==
  /\ xfer = "done"
  /\ ZlpDue
  /\ total_length' = 0
  /\ xfer' = "zlp"
  /\ UNCHANGED <<queue, transmitStart, dtrState, TxState, txBuffer, left, pc, local,
                 hostHist, hist>>

\* Mutant: the interrupt leaves the next block to the next write().
TransmitCpltOnly(rd) ==
  /\ TxState' = 0
  /\ xfer' = "idle"
  /\ transmitStart' = "none"
  /\ UNCHANGED <<reserved, txBuffer, total_length, left, rearmed>>

\* TransmitCplt stops the time-out and, with TxState 0, runs
\* CDC_continue_transmit, from read position rd.
TransmitNext(rd) ==
  IF BlockSize(rd) > 0
  THEN /\ reserved' = BlockSize(rd)
       /\ StampTick
       /\ TransmitPacket(0, rd, BlockSize(rd))
  ELSE /\ reserved' = 0
       /\ transmitStart' = "none"
       /\ TxState' = 0
       /\ xfer' = "idle"
       /\ UNCHANGED <<txBuffer, total_length, left, rearmed>>

\* DataIn, transfer complete: USBD_CDC_TransmitCplt.
DataIn ==
  /\ xfer = "done"
  /\ ~ZlpDue
  /\ read' = CommitRead
  /\ done' = done + reserved
  /\ TransmitNext(CommitRead)
  /\ UNCHANGED <<buffer, write, dtrState, pc, local, hostHist, sent, configs, controls,
                 torn>>

\* SET_CONTROL_LINE_STATE: DTR forgets the time-out, also of a transfer that
\* the host has not taken.
SetControlLineState(dtr) ==
  /\ xfer # "off"
  /\ controls < MaxControls
  /\ controls' = controls + 1
  /\ dtrState' = dtr
  /\ transmitStart' = IF dtr THEN "none" ELSE transmitStart
  /\ rearmed' = (rearmed \/ (dtr /\ (TxState # 0 \/ pc = "transmit")))
  /\ UNCHANGED <<queue, endpoint, pc, local, hostHist, sent, done, configs, torn>>

\* Bus reset: USBD_CDC_DeInit closes the endpoint. The queue is left alone.
UsbReset ==
  /\ xfer # "off"
  /\ xfer' = "off"
  /\ UNCHANGED <<queue, transmitStart, dtrState, TxState, txBuffer, total_length, left,
                 pc, local, hostHist, hist>>

\* Where a configuration does no harm: write() has copied nothing and holds no
\* block.
Undisturbed == pc \notin {"advance", "stamp", "transmit"}

\* SET_CONFIGURATION: USBD_CDC_Init empties the queue. transmitStart, dtrState
\* and reserved keep their values.
SetConfiguration ==
  /\ xfer = "off"
  /\ configs < MaxConfigs
  /\ configs' = configs + 1
  /\ write' = 0 /\ read' = 0
  /\ TxState' = 0
  /\ xfer' = "idle"
  /\ done' = sent
  /\ rcvd' = sent
  /\ lastPacket' = 0
  /\ torn' = (torn \/ ~Undisturbed)
  /\ UNCHANGED <<buffer, reserved, transmitStart, dtrState, txBuffer, total_length, left,
                 pc, local, sent, controls, rearmed>>

\* USB_CDC_TRANSMIT_TIMEOUT milliseconds pass.
Timeout ==
  /\ transmitStart = "recent"
  /\ transmitStart' = "late"
  /\ UNCHANGED <<queue, dtrState, endpoint, pc, local, hostHist, hist>>

-----------------------------------------------------------------------------
MainStep ==
  \/ WriteReturn
  \/ Portion
  \/ WriteSpin
  \/ EnqueueCopy
  \/ EnqueueAdvance
  \/ ContinueBusy
  \/ ContinueFree
  \/ ReadBlock
  \/ Stamp
  \/ Transmit
  \/ FlushSpin
  \/ FlushReturn

Irq == DataInZlp \/ DataIn
Host == HostTakes \/ HostTakesZlp

Next ==
  \/ \E n \in 1 .. MaxWrite : CallWrite(n)
  \/ CallFlush
  \/ MainStep
  \/ Host
  \/ Irq
  \/ \E dtr \in BOOLEAN : SetControlLineState(dtr)
  \/ UsbReset
  \/ SetConfiguration
  \/ Timeout

Spec == Init /\ [][Next]_vars

\* The CPU keeps running, a pending interrupt is taken and time passes.
Fairness == WF_vars(MainStep) /\ WF_vars(Irq) /\ WF_vars(Timeout)

LiveSpec == Spec /\ Fairness

\* Assumed by a property, not by the specification: the host keeps reading.
HostReads == WF_vars(Host)

-----------------------------------------------------------------------------
(* Properties of a stream that no configuration has torn.                  *)

\* No byte is lost, doubled or reordered in the queue: between read and write
\* lie the bytes written and not yet transmitted, although write() and the
\* interrupt move the two positions without a lock.
QueueHoldsStream ==
  ~torn =>
    /\ sent = done + ReadSize
    /\ \A k \in 0 .. ReadSize - 1 :
         buffer[(read + k) % BufferSize] = done + 1 + k

\* What the host takes next is the next byte of the stream: while a transfer is
\* under way, write() does not touch its block. The endpoint still reads the
\* block: CDC_TransmitQueue_ReadBlock returns up to 2 * MaxPacketSize - 1 bytes,
\* not "max QUEUE_MAX_PACKET_SIZE", so it is not copied whole into the PMA.
TransferIntact ==
  ~torn /\ xfer = "data" =>
    \A k \in 0 .. left - 1 :
      buffer[txBuffer + (total_length - left) + k] = rcvd + 1 + k

\* The bytes between the sketch and the host, the oldest first: what the host
\* has not taken of the block being transmitted, and what is queued behind it.
InPipe ==
  IF torn THEN <<>>
  ELSE [k \in 1 .. sent - rcvd |->
          buffer[(read + (rcvd - done) + k - 1) % BufferSize]]

Pipe == INSTANCE ByteStream WITH
          Capacity <- BufferSize - 1,
          accepted <- sent,
          delivered <- rcvd,
          chan <- InPipe,
          broken <- torn

\* The transmit queue, the endpoint and the interrupt together implement the
\* pipe of ByteStream: write() puts bytes in, the host takes them out packet by
\* packet, and a configuration empties it.
ImplementsPipe == Pipe!Spec

\* No byte is stranded: when write() is not at work and no transfer is under
\* way, the queue is empty. (Main and interrupt decide separately, each from
\* TxState, who starts the next transfer.)
NothingStranded ==
  ~torn /\ pc = "idle" /\ xfer = "idle" => sent = done

\* Every transfer ends with a short packet, so that the host's read ends too.
EndsShort == xfer = "idle" => lastPacket < MaxPacketSize

\* A host that keeps reading gets every byte, whatever write() and the control
\* line do, unless it resets the device.
EverythingSent ==
  HostReads => \A n \in 1 .. MaxBytes :
                 (sent = n) ~> (rcvd >= n \/ torn \/ xfer = "off")

\* flush() returns, if the host keeps reading and does not reset the device.
FlushReturns ==
  HostReads => ((pc = "flush") ~> (pc # "flush" \/ torn \/ xfer = "off"))

Writing == pc \notin {"idle", "flush"}

\* write() returns, also when the host does not read: the time-out ends it,
\* unless the host forgets the time-out by raising DTR during the transfer, or
\* it began at tick 0.
WriteReturnsUnlessRearmed == Writing ~> (~Writing \/ rearmed)

\* "The timeout determines when we would consider the host too slow": a write()
\* to a host that does not read ends.
WriteReturns == Writing ~> ~Writing
=============================================================================
