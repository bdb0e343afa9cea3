------------------------------- MODULE CdcRx -------------------------------
(***************************************************************************)
(* The receive half of the USB CDC serial port (SerialUSB): the            *)
(* ReceiveQueue that the USB interrupt fills in place, one reserved block  *)
(* per OUT packet, and that the sketch drains without a lock through       *)
(* read(), peek(), readBytes(), readBytesUntil() and available().          *)
(*                                                                         *)
(* Two actors interleave: the main thread, split at its accesses to the    *)
(* volatile fields of the queue (pc), and the USB interrupt, which runs to *)
(* completion. Bytes are numbered in the order the host sends them.        *)
(***************************************************************************)
EXTENDS Integers

CONSTANTS
  MaxPacketSize,  \* CDC_QUEUE_MAX_PACKET_SIZE
  MaxBytes,       \* bound: bytes the host sends
  MaxConfigs      \* bound: times the host configures the device

ASSUME MaxPacketSizeAssumption == MaxPacketSize \in Nat \ {0}
ASSUME BoundsAssumption == MaxBytes \in Nat /\ MaxConfigs \in Nat

\* CDC_RECEIVE_QUEUE_BUFFER_SIZE, and limit of CDC_ReceiveQueue_ReserveBlock.
BufferSize == 3 * MaxPacketSize
Limit == BufferSize - MaxPacketSize

Ops == {"ReadSize", "Peek", "Dequeue", "Read", "ReadUntil"}

VARIABLES
  buffer, write, read, length,  \* the ReceiveQueue
  receivePended,
  xfer,     \* what the OUT endpoint is prepared with: "off" while the class
            \* is not configured, "block", or "null" (USBD_CDC_ClearBuffer)
  rxBuffer, \* hcdc->RxBuffer, as an index into buffer
  pc,       \* position of the main thread
  op,       \* the queue operation it is in
  lwrite,   \* its local copies of write and length
  llength,
  block,    \* local of CDC_resume_receive
  sent,     \* history: bytes received from the host
  got,      \* history: bytes the sketch took (or lost at a configuration)
  configs,  \* history: times the device was configured
  torn,     \* history: a configuration interrupted an operation half way
  overrun   \* history: a packet came while the endpoint had no block

queue == <<buffer, write, read, length>>
endpoint == <<receivePended, xfer, rxBuffer>>
local == <<op, lwrite, llength, block>>
hist == <<sent, got, configs, torn, overrun>>
vars == <<queue, endpoint, pc, local, hist>>

PC == {"idle", "length", "check", "fetch", "wrap", "resume", "reserve", "arm"}

TypeQueue ==
  /\ buffer \in [0 .. BufferSize - 1 -> 0 .. MaxBytes]
  /\ write \in 0 .. BufferSize - 1
  /\ read \in 0 .. BufferSize
  /\ length \in 0 .. BufferSize
TypeEndpoint ==
  /\ receivePended \in BOOLEAN
  /\ xfer \in {"off", "null", "block"}
  /\ rxBuffer \in 0 .. Limit
TypeLocal ==
  /\ op \in Ops
  /\ lwrite \in 0 .. BufferSize - 1
  /\ llength \in 0 .. BufferSize
  /\ block \in 0 .. Limit
TypeHist ==
  /\ sent \in 0 .. MaxBytes
  /\ got \in Nat
  /\ configs \in 0 .. MaxConfigs
  /\ torn \in BOOLEAN
  /\ overrun \in BOOLEAN

\* Types. The indices stay in the buffer whatever the host does.
TypeOK == TypeQueue /\ TypeEndpoint /\ pc \in PC /\ TypeLocal /\ TypeHist

\* After begin(): the queue is still all zero, the host has not configured the
\* device.
Init ==
  /\ buffer = [i \in 0 .. BufferSize - 1 |-> 0]
  /\ write = 0 /\ read = 0 /\ length = 0
  /\ receivePended = TRUE
  /\ xfer = "off"
  /\ rxBuffer = 0
  /\ pc = "idle"
  /\ op = "ReadSize" /\ lwrite = 0 /\ llength = 0 /\ block = 0
  /\ sent = 0 /\ got = 0
  /\ configs = 0
  /\ torn = FALSE
  /\ overrun = FALSE

-----------------------------------------------------------------------------
(* The writing side of the queue.                                          *)

\* The rest of the buffer takes a full packet, and write does not become read.
FitsAtEnd(w) == read <= w /\ (w < Limit \/ (w = Limit /\ read > 0))

\* Mutant: room at the head is found only when the reader is at the end.
FitsAtHeadLate(w) == read <= w /\ read > Limit + 1

\* The head takes a full packet, and one byte is left before read.
FitsAtHead(w) == read <= w /\ read > MaxPacketSize

\* Mutant: room for one byte is taken for room for a packet.
FitsInGapOfOne(w) == w + 1 < read

\* The gap before read takes a full packet, and one byte is left.
FitsInGap(w) == w + MaxPacketSize < read

\* CDC_ReceiveQueue_ReserveBlock from write position w and length l. The block
\* begins at the new write position.
ReserveBlock(w, l) ==
  IF FitsAtEnd(w) \/ FitsInGap(w)
  THEN [ok |-> TRUE, write |-> w, length |-> l]
  ELSE IF FitsAtHead(w)
       THEN [ok |-> TRUE, write |-> 0, length |-> w]
       ELSE [ok |-> FALSE, write |-> w, length |-> l]

\* Mutants: the length of the lap before is kept; write wraps one byte late.
CommitLengthKept(n) == length
CommitWriteLate(n) == IF write + n > BufferSize THEN 0 ELSE write + n

\* CDC_ReceiveQueue_CommitBlock of n bytes.
CommitLength(n) == IF write + n >= length THEN BufferSize ELSE length
CommitWrite(n) == IF write + n >= BufferSize THEN 0 ELSE write + n

\* USBD_CDC_Receive in the interrupt: commit, then CDC_resume_receive, and
\* USBD_CDC_ClearBuffer when there is no room for another packet.
CommitAndResume(n) ==
  LET r == ReserveBlock(CommitWrite(n), CommitLength(n)) IN
  /\ write' = r.write
  /\ length' = r.length
  /\ receivePended' = r.ok
  /\ xfer' = IF r.ok THEN "block" ELSE "null"
  /\ rxBuffer' = IF r.ok THEN r.write ELSE rxBuffer

\* An OUT packet of n bytes (n = 0 : a zero-length packet) arrives in the block.
Receive(n) ==
  /\ xfer = "block"
  /\ sent + n <= MaxBytes
  /\ buffer' = [i \in DOMAIN buffer |->
                  IF i \in rxBuffer .. rxBuffer + n - 1
                  THEN sent + 1 + (i - rxBuffer) ELSE buffer[i]]
  /\ sent' = sent + n
  /\ CommitAndResume(n)
  /\ UNCHANGED <<read, pc, local, got, configs, torn, overrun>>

\* USBD_CDC_ClearBuffer has prepared the endpoint for a transfer of length 0 to
\* address 0. USB_EPStartXfer turns length 0 into one full packet and enables
\* the endpoint, so the next packet is not NAKed: its bytes go to address 0 and
\* USBD_CDC_Receive commits them to the queue.
ReceiveNull(n) ==
  /\ xfer = "null"
  /\ sent + n <= MaxBytes
  /\ sent' = sent + n
  /\ overrun' = TRUE
  /\ CommitAndResume(n)
  /\ UNCHANGED <<buffer, read, pc, local, got, configs, torn>>

\* Bus reset (or configuration 0): USBD_CDC_DeInit closes the endpoints and
\* drops pClassData. The queue is left alone.
UsbReset ==
  /\ xfer # "off"
  /\ xfer' = "off"
  /\ UNCHANGED <<queue, receivePended, rxBuffer, pc, local, hist>>

\* What a sketch may be interrupted in without harm by a configuration: it has
\* no copy of the queue's fields that it will still use.
Undisturbed == pc \in {"idle", "wrap", "resume"}

\* SET_CONFIGURATION: USBD_CDC_Init empties the queue and prepares the endpoint
\* with the first block. Unread bytes are lost.
SetConfiguration ==
  /\ xfer = "off"
  /\ configs < MaxConfigs
  /\ configs' = configs + 1
  /\ write' = 0 /\ read' = 0 /\ length' = BufferSize
  /\ receivePended' = TRUE
  /\ xfer' = "block"
  /\ rxBuffer' = 0
  /\ got' = sent
  /\ torn' = (torn \/ ~Undisturbed)
  /\ UNCHANGED <<buffer, pc, local, sent, overrun>>

-----------------------------------------------------------------------------
(* The main thread.                                                        *)

\* The operation ends, and its local variables with it.
Return ==
  /\ pc' = "idle"
  /\ op' = "ReadSize" /\ lwrite' = 0 /\ llength' = 0 /\ block' = 0

\* The sketch calls an operation, which copies write ...
Call(o) ==
  /\ pc = "idle"
  /\ op' = o
  /\ lwrite' = write
  /\ pc' = "length"
  /\ UNCHANGED <<queue, endpoint, llength, block, hist>>

\* ... and then length.
SampleLength ==
  /\ pc = "length"
  /\ llength' = length
  /\ pc' = "check"
  /\ UNCHANGED <<queue, endpoint, op, lwrite, block, hist>>

\* Mutant: the lap before is taken to end at the end of the buffer.
ReadSizeOfBuffer == IF lwrite >= read THEN lwrite - read
                    ELSE BufferSize + lwrite - read

\* The result of CDC_ReceiveQueue_ReadSize.
ReadSize == IF lwrite >= read THEN lwrite - read ELSE llength + lwrite - read

\* available() returns.
ReadSizeReturn ==
  /\ pc = "check"
  /\ op = "ReadSize"
  /\ Return
  /\ UNCHANGED <<queue, endpoint, hist>>

\* The reader goes on to the next lap when it stands at the end of this one.
AtEnd == IF op = "Dequeue" THEN read = llength ELSE read >= llength

Check ==
  /\ pc = "check"
  /\ op # "ReadSize"
  /\ read' = IF AtEnd THEN 0 ELSE read
  /\ pc' = "fetch"
  /\ UNCHANGED <<buffer, write, length, endpoint, local, hist>>

\* Mutant: a reader behind write on the lap before is given that lap and more.
AvailableToBufferEnd == IF lwrite >= read THEN lwrite - read
                        ELSE BufferSize - read

\* Flat bytes the reader finds at read.
Available == IF lwrite >= read THEN lwrite - read ELSE llength - read

\* peek() returns a byte or -1.
PeekReturn ==
  /\ pc = "fetch"
  /\ op = "Peek"
  /\ Return
  /\ UNCHANGED <<queue, endpoint, hist>>

\* Mutant: bytes on the lap before are overlooked.
HasByteAhead == lwrite > read

\* The test of CDC_ReceiveQueue_Dequeue.
HasByte == lwrite # read

\* CDC_ReceiveQueue_Dequeue returns -1.
DequeueEmpty ==
  /\ pc = "fetch"
  /\ op = "Dequeue"
  /\ ~HasByte
  /\ pc' = "resume"
  /\ UNCHANGED <<queue, endpoint, local, hist>>

\* n bytes are copied from read on, and read moves behind them.
Take(n) ==
  /\ got' = got + n
  /\ read' = read + n
  /\ pc' = "wrap"
  /\ UNCHANGED <<buffer, write, length, endpoint, local, sent, configs, torn,
                 overrun>>

DequeueFetch ==
  /\ pc = "fetch"
  /\ op = "Dequeue"
  /\ HasByte
  /\ Take(1)

\* CDC_ReceiveQueue_Read takes what is there, up to the size asked for;
\* CDC_ReceiveQueue_ReadUntil may also end at the terminator, which it takes
\* and drops. Sizes and the place of the terminator are arbitrary.
ReadFetch ==
  /\ pc = "fetch"
  /\ op \in {"Read", "ReadUntil"}
  /\ \E n \in 0 .. Available : Take(n)

\* Mutant: read() returns without CDC_resume_receive.
WrapLater ==
  /\ pc = "wrap"
  /\ Return
  /\ UNCHANGED <<queue, endpoint, hist>>

\* Mutant: the reader leaves the last byte of the lap behind.
WrapEarly ==
  /\ pc = "wrap"
  /\ read' = IF read + 1 >= llength THEN 0 ELSE read
  /\ pc' = "resume"
  /\ UNCHANGED <<buffer, write, length, endpoint, local, hist>>

\* The reader begins the next lap.
Wrap ==
  /\ pc = "wrap"
  /\ read' = IF read >= llength THEN 0 ELSE read
  /\ pc' = "resume"
  /\ UNCHANGED <<buffer, write, length, endpoint, local, hist>>

\* CDC_resume_receive in the main thread: a reception is under way, ...
ResumePended ==
  /\ pc = "resume"
  /\ receivePended
  /\ Return
  /\ UNCHANGED <<queue, endpoint, hist>>

\* ... or none is.
ResumeStart ==
  /\ pc = "resume"
  /\ ~receivePended
  /\ pc' = "reserve"
  /\ UNCHANGED <<queue, endpoint, local, hist>>

\* A block is reserved, if there is room.
ResumeReserve ==
  /\ pc = "reserve"
  /\ LET r == ReserveBlock(write, length) IN
       /\ write' = r.write
       /\ length' = r.length
       /\ receivePended' = (receivePended \/ r.ok)
       /\ IF r.ok
          THEN /\ block' = r.write
               /\ pc' = "arm"
               /\ UNCHANGED <<op, lwrite, llength>>
          ELSE Return
  /\ UNCHANGED <<buffer, read, xfer, rxBuffer, hist>>

\* USBD_CDC_SetRxBuffer and USBD_CDC_ReceivePacket, which do nothing while the
\* class is not configured.
ResumeArm ==
  /\ pc = "arm"
  /\ Return
  /\ xfer' = IF xfer = "off" THEN xfer ELSE "block"
  /\ rxBuffer' = IF xfer = "off" THEN rxBuffer ELSE block
  /\ UNCHANGED <<queue, receivePended, hist>>

-----------------------------------------------------------------------------
Resume == ResumePended \/ ResumeStart \/ ResumeReserve \/ ResumeArm

\* The rest of the operation the main thread is in.
MainStep ==
  \/ SampleLength
  \/ ReadSizeReturn
  \/ Check
  \/ PeekReturn
  \/ DequeueEmpty
  \/ DequeueFetch
  \/ ReadFetch
  \/ Wrap
  \/ Resume

Irq ==
  \/ \E n \in 0 .. MaxPacketSize : Receive(n)
  \/ \E n \in 0 .. MaxPacketSize : ReceiveNull(n)
  \/ UsbReset
  \/ SetConfiguration

Next == (\E o \in Ops : Call(o)) \/ MainStep \/ Irq

Spec == Init /\ [][Next]_vars

\* The CPU keeps running and the sketch keeps calling read(), whatever else it
\* calls. Nothing is asked of the host.
Fairness == WF_vars(MainStep) /\ SF_vars(Call("Dequeue"))

LiveSpec == Spec /\ Fairness

-----------------------------------------------------------------------------
(* Properties. Two events are known to spoil the queue, each shown by a    *)
(* run of its own: a configuration in the middle of an operation, and a    *)
(* packet that comes while the queue has no room.                          *)

Sane == ~torn /\ ~overrun

\* The block the next packet will be written to lies in the buffer, holds no
\* unread byte, and a full packet in it leaves write different from read: the
\* "required amount of free space" that USBD_CDC_Receive relies on, while the
\* reader moves.
BlockFree ==
  Sane /\ xfer = "block" =>
    /\ rxBuffer = write
    /\ write + MaxPacketSize <= BufferSize
    /\ read > write => write + MaxPacketSize < read
    /\ read = 0 => write < Limit

\* Bytes between the sketch and the host, as the fields of the queue count them.
Unread == IF write >= read THEN write - read ELSE length + write - read

\* No byte is lost, doubled or reordered: what the fields of the queue delimit
\* is, byte for byte, what the host sent and the sketch did not take.
QueueHoldsStream ==
  Sane =>
    /\ sent = got + Unread
    /\ read <= write =>
         \A i \in read .. write - 1 : buffer[i] = got + 1 + (i - read)
    /\ read > write =>
         /\ \A i \in read .. length - 1 : buffer[i] = got + 1 + (i - read)
         /\ \A i \in 0 .. write - 1 :
              buffer[i] = got + 1 + (length - read) + i

\* While an operation copies bytes out of the queue, whatever the interrupt did
\* since it looked at write and length, the bytes it copies are the next ones
\* of the stream.
CopiesStream ==
  Sane /\ pc = "fetch" =>
    /\ Available <= sent - got
    /\ \A i \in 0 .. Available - 1 : buffer[read + i] = got + 1 + i

\* available() never promises more than there is: "determined reading size will
\* be smaller or equal than real one".
AvailableIsReal ==
  Sane /\ pc = "check" /\ op = "ReadSize" => ReadSize \in 0 .. sent - got

\* Between two operations of the sketch reception is stopped only if there is
\* something to read, so that the next read() can resume it.
StoppedOnlyIfUnread ==
  Sane /\ pc = "idle" /\ ~receivePended => sent > got

\* The bytes the fields of the queue delimit, the oldest first.
InPipe ==
  IF ~Sane THEN <<>>
  ELSE IF read <= write
  THEN [k \in 1 .. Unread |-> buffer[read + k - 1]]
  ELSE [k \in 1 .. Unread |->
          IF read + k <= length THEN buffer[read + k - 1]
                                ELSE buffer[read + k - 1 - length]]

Pipe == INSTANCE ByteStream WITH
          Capacity <- BufferSize - 1,
          accepted <- sent,
          delivered <- got,
          chan <- InPipe,
          broken <- ~Sane

\* The receive queue implements the pipe of ByteStream: packets enter it whole,
\* the read operations take from it, a configuration empties it, and every
\* other step of the main thread and the interrupt (the wraps, the moves of
\* length, the reservations) leaves its contents alone.
ImplementsPipe == Pipe!Spec

\* Every byte received is taken, if the sketch keeps reading, unless the
\* stream is spoilt.
ByteTaken ==
  \A n \in 1 .. MaxBytes : (sent = n) ~> (got >= n \/ ~Sane)

\* Reception that stopped for want of room is resumed.
StopEnds == ~receivePended ~> (receivePended \/ ~Sane)

\* CDC_resume_receive: "IRQ may occur only if receivePended is true".
IrqOnlyIfPended ==
  [][(sent' # sent) => receivePended]_vars

\* USBSerial::read: "it safe, because only main thread affects
\* ReceiveQueue->read pos". Between two operations of the sketch the queue then
\* counts what the host sent and the sketch did not take, also after the host
\* configured the device again.
ReadIsSafe == ~overrun /\ pc = "idle" => sent = got + Unread
=============================================================================
