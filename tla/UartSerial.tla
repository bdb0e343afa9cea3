----------------------------- MODULE UartSerial -----------------------------
(***************************************************************************)
(* A serial port over a UART (HardwareSerial and uart.c): two ring         *)
(* buffers shared without a lock by the sketch and the UART interrupt.     *)
(* write() fills the transmit ring and starts the transmitter when it      *)
(* finds it idle; the transmit-complete interrupt starts it again for what *)
(* is left. In half-duplex mode (one wire for both directions) write()     *)
(* turns the receiver off and read() waits for the transmitter before it   *)
(* turns it on again.                                                      *)
(*                                                                         *)
(* Actors: the main thread (pc), the UART that shifts bytes out and in,    *)
(* and its interrupt handler, which runs to completion. Bytes are numbered *)
(* in the order they enter a ring. A sketch uses the port only between     *)
(* begin() and end().                                                      *)
(***************************************************************************)
EXTENDS Integers, RingIndex

CONSTANTS
  TxSize,    \* SERIAL_TX_BUFFER_SIZE
  RxSize,    \* SERIAL_RX_BUFFER_SIZE
  MaxWrite,  \* bound: size of one write()
  MaxTx,     \* bound: bytes the sketch writes
  MaxRx,     \* bound: bytes that arrive and find room
  MaxEnds    \* bound: times the sketch calls end()

ASSUME SizeAssumption == TxSize \in Nat \ {0, 1} /\ RxSize \in Nat \ {0, 1}
ASSUME BoundsAssumption ==
  MaxWrite \in Nat /\ MaxTx \in Nat /\ MaxRx \in Nat /\ MaxEnds \in Nat

VARIABLES
  tx_buff, tx_head, tx_tail, tx_size,
  rx_buff, rx_head, rx_tail,
  gState,                    \* of the HAL handle: "RESET", "READY", "BUSY_TX"
  pTxBuffPtr, TxXferCount,   \* of the HAL handle
  receiver,                  \* RE bit: bytes on the wire are received
  half,                      \* isHalfDuplex()
  _written, _rx_enabled,     \* fields of HardwareSerial
  pc,                        \* position of the main thread
  ret,                       \* where flush() returns to
  depth,                     \* write() calls itself: 1 in the inner call
  size, part,                \* size of the outer and of the inner call
  available, till_end,       \* locals of write(), of the call it is in
  chunk,                     \* size_intermediate when the transfer is started
  c,                         \* local of read()
  accepted,                  \* history: bytes put in the transmit ring
  wired,                     \* history: bytes the UART sent
  rcvd,                      \* history: bytes put in the receive ring
  got,                       \* history: bytes the sketch took (or lost: end())
  ends,                      \* history: calls of end()
  raced                      \* history: write() started a transfer with nothing left

tx == <<tx_buff, tx_head, tx_tail, tx_size>>
rx == <<rx_buff, rx_head, rx_tail>>
hal == <<gState, pTxBuffPtr, TxXferCount>>
mode == <<receiver, half, _written, _rx_enabled>>
wlocal == <<depth, size, part, available, till_end, chunk>>
hist == <<accepted, wired, rcvd, got, ends, raced>>
vars == <<tx, rx, hal, mode, pc, ret, wlocal, c, hist>>

Calls == {"idle", "enable", "attach", "deinit"}
PC == {"closed", "wait", "split", "copy", "advance", "start", "sample",
       "flush", "test", "fetch", "consume"} \cup Calls

TypeTx ==
  /\ tx_buff \in [0 .. TxSize - 1 -> Nat]
  /\ tx_head \in 0 .. TxSize - 1
  /\ tx_tail \in 0 .. TxSize - 1
  /\ tx_size \in 0 .. TxSize
TypeRx ==
  /\ rx_buff \in [0 .. RxSize - 1 -> Nat]
  /\ rx_head \in 0 .. RxSize - 1
  /\ rx_tail \in 0 .. RxSize - 1
TypeHal ==
  /\ gState \in {"RESET", "READY", "BUSY_TX"}
  /\ pTxBuffPtr \in Nat
  /\ TxXferCount \in 0 .. TxSize
TypeMode ==
  /\ receiver \in BOOLEAN /\ half \in BOOLEAN
  /\ _written \in BOOLEAN /\ _rx_enabled \in BOOLEAN
  /\ raced \in BOOLEAN
TypeLocal ==
  /\ pc \in PC
  /\ ret \in Calls
  /\ depth \in {0, 1}
  /\ size \in Nat /\ part \in 0 .. TxSize
  /\ available \in 0 .. TxSize - 1 /\ till_end \in 0 .. TxSize
  /\ chunk \in 0 .. TxSize
  /\ c \in Nat
TypeHist ==
  /\ accepted \in Nat /\ wired \in Nat /\ rcvd \in Nat /\ got \in Nat
  /\ ends \in Nat

\* Types: the positions stay in the rings, and what the HAL is given in the
\* transmit ring.
TypeOK ==
  /\ TypeTx /\ TypeRx /\ TypeHal /\ TypeMode /\ TypeLocal /\ TypeHist
  /\ ~raced => pTxBuffPtr + TxXferCount <= TxSize

\* Before begin(), with either kind of wiring.
Init ==
  /\ tx_buff = [i \in 0 .. TxSize - 1 |-> 0]
  /\ tx_head = 0 /\ tx_tail = 0 /\ tx_size = 0
  /\ rx_buff = [i \in 0 .. RxSize - 1 |-> 0]
  /\ rx_head = 0 /\ rx_tail = 0
  /\ gState = "RESET" /\ pTxBuffPtr = 0 /\ TxXferCount = 0
  /\ receiver = FALSE /\ half \in BOOLEAN
  /\ _written = FALSE /\ _rx_enabled = FALSE
  /\ pc = "closed" /\ ret = "idle"
  /\ depth = 0 /\ size = 0 /\ part = 0
  /\ available = 0 /\ till_end = 0 /\ chunk = 0 /\ c = 0
  /\ accepted = 0 /\ wired = 0 /\ rcvd = 0 /\ got = 0 /\ ends = 0
  /\ raced = FALSE

-----------------------------------------------------------------------------
(* The transmitter.                                                        *)

\* uart_attach_tx_callback, with the UART interrupt off: HAL_UART_Transmit_IT
\* of n bytes from position t, which does nothing if n is 0 or the handle is
\* not ready; g is the state of the handle.
TransmitIT(g, t, n) ==
  IF g = "READY" /\ n > 0
  THEN gState' = "BUSY_TX" /\ pTxBuffPtr' = t /\ TxXferCount' = n
  ELSE gState' = g /\ UNCHANGED <<pTxBuffPtr, TxXferCount>>

\* UART_TxISR_8BIT: the next byte of the block goes out on the wire.
TxISR ==
  /\ gState = "BUSY_TX" /\ TxXferCount > 0
  /\ pTxBuffPtr' = pTxBuffPtr + 1
  /\ TxXferCount' = TxXferCount - 1
  /\ wired' = wired + 1
  /\ UNCHANGED <<tx, rx, gState, mode, pc, ret, wlocal, c, accepted, rcvd, got,
                 ends, raced>>

\* Bytes in the transmit ring behind position t.
Remaining(t) == Ring(TxSize, t, tx_head)

\* Mutant: the next block may run over the end of the ring.
NextBlockWhole(t) == Remaining(t)

\* The size of the next block: up to the head or to the end of the ring.
NextBlock(t) ==
  IF Remaining(t) < TxSize - t THEN Remaining(t) ELSE TxSize - t

\* Mutant: the interrupt moves the tail and leaves the rest to write().
TxCompleteOnly ==
  /\ gState = "BUSY_TX" /\ TxXferCount = 0
  /\ tx_tail' = (tx_tail + tx_size) % TxSize
  /\ gState' = "READY"
  /\ UNCHANGED <<tx_buff, tx_head, tx_size, rx, pTxBuffPtr, TxXferCount, mode, pc,
                 ret, wlocal, c, hist>>

\* UART_EndTransmit_IT and _tx_complete_irq: the tail moves behind the block,
\* and the next block is started if there is one.
TxComplete ==
  /\ gState = "BUSY_TX" /\ TxXferCount = 0
  /\ LET t == (tx_tail + tx_size) % TxSize IN
       /\ tx_tail' = t
       /\ IF tx_head # t
          THEN /\ tx_size' = NextBlock(t)
               /\ TransmitIT("READY", t, NextBlock(t))
          ELSE /\ gState' = "READY"
               /\ UNCHANGED <<tx_size, pTxBuffPtr, TxXferCount>>
  /\ UNCHANGED <<tx_buff, tx_head, rx, mode, pc, ret, wlocal, c, hist>>

-----------------------------------------------------------------------------
(* write()                                                                 *)

\* Mutant: the byte that tells a full ring from an empty one is given away.
AvailableForWriteFull == IF tx_head >= tx_tail THEN TxSize - tx_head + tx_tail
                                               ELSE tx_tail - tx_head

AvailableForWrite == IF tx_head >= tx_tail THEN TxSize - 1 - tx_head + tx_tail
                                           ELSE tx_tail - tx_head - 1

Sample ==
  /\ available' = AvailableForWrite
  /\ till_end' = TxSize - tx_head

\* Mutant: the direction of the wire is left as it is.
SwitchToTxNever == UNCHANGED <<_rx_enabled, receiver, gState>>

\* In half-duplex mode: _rx_enabled = false and HAL_HalfDuplex_EnableTransmitter,
\* which leaves the handle ready whatever it was at.
SwitchToTx ==
  IF half /\ _rx_enabled
  THEN _rx_enabled' = FALSE /\ receiver' = FALSE /\ gState' = "READY"
  ELSE UNCHANGED <<_rx_enabled, receiver, gState>>

\* HAL_HalfDuplex_EnableReceiver, likewise.
SwitchToRx ==
  IF half /\ ~_rx_enabled
  THEN _rx_enabled' = TRUE /\ receiver' = TRUE /\ gState' = "READY"
  ELSE UNCHANGED <<_rx_enabled, receiver, gState>>

\* The sketch calls write() with n bytes: space is sampled, the direction set.
CallWrite(n) ==
  /\ pc = "idle"
  /\ accepted + n <= MaxTx
  /\ size' = n
  /\ Sample
  /\ _written' = TRUE
  /\ SwitchToTx
  /\ pc' = "wait"
  /\ UNCHANGED <<tx, rx, pTxBuffPtr, TxXferCount, half, ret, depth, part, chunk, c,
                 hist>>

\* It waits while the ring is full.
Wait ==
  /\ pc = "wait"
  /\ AvailableForWrite > 0
  /\ pc' = "split"
  /\ UNCHANGED <<tx, rx, hal, mode, ret, wlocal, c, hist>>

\* Bytes the call it is in has to write, and the test of its loop.
Current == IF depth = 0 THEN size ELSE part
TooLarge == Current > till_end \/ Current > available

\* Mutant: the piece may be as large as the ring.
PieceToEnd == till_end

\* The piece the inner call is given: none if the ring was full when sampled.
Piece == IF available < till_end THEN available ELSE till_end

\* The outer call hands a piece to an inner call, which samples again.
Split ==
  /\ pc = "split" /\ TooLarge /\ depth = 0
  /\ depth' = 1
  /\ part' = Piece
  /\ Sample
  /\ pc' = "wait"
  /\ UNCHANGED <<tx, rx, hal, mode, ret, size, chunk, c, hist>>

\* The bytes fit in one piece: always so in the inner call (NestedOnce).
NoSplit ==
  /\ pc = "split" /\ ~TooLarge
  /\ pc' = "copy"
  /\ UNCHANGED <<tx, rx, hal, mode, ret, wlocal, c, hist>>

\* The bytes are copied behind the head, round the end if need be, ...
Copy ==
  /\ pc = "copy"
  /\ tx_buff' = [i \in DOMAIN tx_buff |->
                   LET k == Ring(TxSize, tx_head, i)
                   IN IF k < Current THEN accepted + 1 + k ELSE tx_buff[i]]
  /\ chunk' = IF tx_head + Current <= TxSize THEN Current ELSE TxSize - tx_head
  /\ pc' = "advance"
  /\ UNCHANGED <<tx_head, tx_tail, tx_size, rx, hal, mode, ret, depth, size, part,
                 available, till_end, c, hist>>

\* ... the head is moved behind them, ...
Advance ==
  /\ pc = "advance"
  /\ tx_head' = (tx_head + Current) % TxSize
  /\ accepted' = accepted + Current
  /\ pc' = "start"
  /\ UNCHANGED <<tx_buff, tx_tail, tx_size, rx, hal, mode, ret, wlocal, c, wired,
                 rcvd, got, ends, raced>>

\* Mutant: the transfer is started before the head has moved: never.
StartNever == UNCHANGED <<tx_size, hal>>

\* ... and a transfer is started unless one is under way.
StartTransfer ==
  IF gState = "BUSY_TX" THEN UNCHANGED <<tx_size, hal>>
  ELSE tx_size' = chunk /\ TransmitIT(gState, tx_tail, chunk)

\* The bytes of chunk have left already: the interrupt found them when it ended
\* the transfer before, sent them, and went idle again. The transfer starts at a tail
\* that is equal to the head: what goes out is what the ring held there before.
SentAlready == gState # "BUSY_TX" /\ chunk > 0 /\ tx_head = tx_tail

\* The outer call returns to the sketch, the inner one to the loop.
Start ==
  /\ pc = "start"
  /\ StartTransfer
  /\ IF depth = 1
     THEN size' = size - part /\ pc' = "sample" /\ available' = available
     ELSE size' = 0 /\ pc' = "idle" /\ available' = 0
  /\ till_end' = IF depth = 1 THEN till_end ELSE 0
  /\ depth' = 0 /\ part' = 0 /\ chunk' = 0
  /\ raced' = (raced \/ SentAlready)
  /\ UNCHANGED <<tx_buff, tx_head, tx_tail, rx, mode, ret, c, accepted, wired, rcvd,
                 got, ends>>

\* The loop of the outer call samples the space again.
SampleAgain ==
  /\ pc = "sample"
  /\ Sample
  /\ pc' = "split"
  /\ UNCHANGED <<tx, rx, hal, mode, ret, depth, size, part, chunk, c, hist>>

Write == Wait \/ Split \/ NoSplit \/ Copy \/ Advance \/ Start
           \/ SampleAgain

-----------------------------------------------------------------------------
(* flush(), read(), begin(), end()                                         *)

\* flush() is called, and will return to r.
GoFlush(r) == pc' = "flush" /\ ret' = r

CallFlush ==
  /\ pc = "idle"
  /\ GoFlush("idle")
  /\ UNCHANGED <<tx, rx, hal, mode, wlocal, c, hist>>

\* What flush() waits for.
Flushed == ~_written \/ tx_head = tx_tail

FlushReturn ==
  /\ pc = "flush"
  /\ Flushed
  /\ pc' = ret /\ ret' = "idle"
  /\ UNCHANGED <<tx, rx, hal, mode, wlocal, c, hist>>

\* read(): enableHalfDuplexRx, which calls flush() in half-duplex mode, ...
CallRead ==
  /\ pc = "idle"
  /\ IF half THEN GoFlush("enable") ELSE pc' = "test" /\ UNCHANGED ret
  /\ UNCHANGED <<tx, rx, hal, mode, wlocal, c, hist>>

\* ... and then turns the receiver on, ...
EnableRx ==
  /\ pc = "enable"
  /\ SwitchToRx
  /\ pc' = "test"
  /\ UNCHANGED <<tx, rx, pTxBuffPtr, TxXferCount, half, _written, ret, wlocal, c,
                 hist>>

\* ... looks for a byte, ...
Test ==
  /\ pc = "test"
  /\ pc' = IF rx_head = rx_tail THEN "idle" ELSE "fetch"
  /\ UNCHANGED <<tx, rx, hal, mode, ret, wlocal, c, hist>>

\* ... reads it ...
Fetch ==
  /\ pc = "fetch"
  /\ c' = rx_buff[rx_tail]
  /\ pc' = "consume"
  /\ UNCHANGED <<tx, rx, hal, mode, ret, wlocal, hist>>

\* ... and gives its place free.
Consume ==
  /\ pc = "consume"
  /\ rx_tail' = (rx_tail + 1) % RxSize
  /\ got' = got + 1
  /\ c' = 0
  /\ pc' = "idle"
  /\ UNCHANGED <<tx, rx_buff, rx_head, hal, mode, ret, wlocal, accepted, wired,
                 rcvd, ends, raced>>

\* begin(): uart_init makes the handle ready, both directions enabled; then
\* enableHalfDuplexRx.
CallBegin ==
  /\ pc = "closed"
  /\ gState' = "READY"
  /\ receiver' = TRUE
  /\ IF half THEN GoFlush("attach") ELSE pc' = "attach" /\ UNCHANGED ret
  /\ UNCHANGED <<tx, rx, pTxBuffPtr, TxXferCount, half, _written, _rx_enabled,
                 wlocal, c, hist>>

\* The receiver is on; uart_attach_rx_callback starts the reception.
Attach ==
  /\ pc = "attach"
  /\ SwitchToRx
  /\ pc' = "idle"
  /\ UNCHANGED <<tx, rx, pTxBuffPtr, TxXferCount, half, _written, ret, wlocal, c,
                 hist>>

\* end(): flush(), uart_deinit, and the received bytes are dropped.
CallEnd ==
  /\ pc = "idle"
  /\ ends < MaxEnds
  /\ ends' = ends + 1
  /\ GoFlush("deinit")
  /\ UNCHANGED <<tx, rx, hal, mode, wlocal, c, accepted, wired, rcvd, got,
                 raced>>

Deinit ==
  /\ pc = "deinit"
  /\ gState' = "RESET"
  /\ receiver' = FALSE
  /\ rx_head' = rx_tail
  /\ got' = rcvd
  /\ pc' = "closed"
  /\ UNCHANGED <<tx, rx_buff, rx_tail, pTxBuffPtr, TxXferCount, half, _written,
                 _rx_enabled, ret, wlocal, c, accepted, wired, rcvd, ends, raced>>

Read == FlushReturn \/ EnableRx \/ Test \/ Fetch \/ Consume \/ Attach \/ Deinit

-----------------------------------------------------------------------------
(* The receiver.                                                           *)

\* Mutant: the last free place is used too.
RxRoomAlways == TRUE

\* Storing a byte would not make the ring look empty.
RxRoom == (rx_head + 1) % RxSize # rx_tail

\* A byte arrives: UART_RxISR_8BIT, _rx_complete_irq and uart_getc, which starts
\* the reception of the next byte, ...
RxByte ==
  /\ receiver /\ gState # "RESET" /\ "attach" \notin {pc, ret}
  /\ rcvd < MaxRx
  /\ RxRoom
  /\ rx_buff' = [rx_buff EXCEPT ![rx_head] = rcvd + 1]
  /\ rx_head' = (rx_head + 1) % RxSize
  /\ rcvd' = rcvd + 1
  /\ UNCHANGED <<tx, rx_tail, hal, mode, pc, ret, wlocal, c, accepted, wired, got,
                 ends, raced>>

\* ... or it is dropped: no room, or an error that HAL_UART_ErrorCallback
\* answers by starting the reception again.
RxDrop ==
  /\ receiver /\ gState # "RESET"
  /\ UNCHANGED vars

-----------------------------------------------------------------------------
Main == Write \/ Read
Uart == TxISR \/ TxComplete

Next ==
  \/ \E n \in 0 .. MaxWrite : CallWrite(n)
  \/ CallFlush \/ CallRead \/ CallBegin \/ CallEnd
  \/ Main
  \/ Uart
  \/ RxByte
  \/ RxDrop

Spec == Init /\ [][Next]_vars

\* The CPU keeps running, and the UART shifts bytes out whoever listens: a port
\* without a CTS pin, which is the default (with one the far end can hold it up).
Fairness == WF_vars(Main) /\ WF_vars(Uart)

LiveSpec == Spec /\ Fairness

-----------------------------------------------------------------------------
(* Properties                                                              *)

\* Where the next byte for the wire lies, and how many there are.
TxFrom == IF gState = "BUSY_TX" THEN pTxBuffPtr % TxSize ELSE tx_tail
TxLeft == Remaining(TxFrom)
TxChan == [k \in 1 .. TxLeft |-> tx_buff[(TxFrom + k - 1) % TxSize]]

TxPipe == INSTANCE ByteStream WITH
            Capacity <- TxSize - 1,
            accepted <- accepted,
            delivered <- wired,
            chan <- TxChan,
            broken <- raced

\* The transmit ring with its two starters implements the pipe of ByteStream:
\* the bytes on the wire are the bytes written, each once and in order.
TxImplementsPipe == TxPipe!Spec

\* The bytes for the sketch: the one read() has in hand, and those behind it.
RxLeft == Ring(RxSize, rx_tail, rx_head)
RxChan == [k \in 1 .. RxLeft |-> IF k = 1 /\ pc = "consume" THEN c
                                 ELSE rx_buff[(rx_tail + k - 1) % RxSize]]

RxPipe == INSTANCE ByteStream WITH
            Capacity <- RxSize - 1,
            accepted <- rcvd,
            delivered <- got,
            chan <- RxChan,
            broken <- FALSE

\* The receive ring implements the pipe of ByteStream: read() returns the bytes
\* that found room, each once and in order, and end() drops the rest.
RxImplementsPipe == RxPipe!Spec

\* "HAL doesn't manage rollover, so split transfer": write() calls itself, never
\* more than once, since the space the inner call finds is at least what the
\* outer one had sampled. (Until the two starters race: then the tail may pass the
\* head and the space shrink.)
NestedOnce == pc = "split" /\ depth = 1 /\ ~raced => ~TooLarge

\* "Transfer data with HAL only is there is no TX data transfer ongoing otherwise,
\* data transfer will be done asynchronously from callback": either write() or
\* the interrupt sends a byte, and nothing else goes out. (Violated: see SentAlready.)
SentOnce == wired <= accepted

\* No byte is stranded: when no call is at work and the transmitter is idle, the
\* ring is empty. (write() and the interrupt decide separately, each from what
\* it sees of the other, who starts the next transfer. Until the two race.)
NothingStranded ==
  pc \in {"idle", "closed"} /\ gState # "BUSY_TX" /\ ~raced => tx_head = tx_tail

\* "In half-duplex mode we have to wait for all TX characters to be transmitted
\* before we can receive data": receiver and transmitter are never at work at
\* the same time.
OneDirection == half /\ gState = "BUSY_TX" => ~receiver

\* Every call returns: write() to a full ring, flush(), and in half-duplex mode
\* read(), all of which wait for the interrupt. (Until the two starters race.)
CallsReturn == pc \notin {"idle", "closed"} ~> pc \in {"idle", "closed"} \/ raced
=============================================================================
