-------------------------- MODULE UartSerial_proofs --------------------------
(***************************************************************************)
(* Proofs about UartSerial, for rings of every size and every bound.       *)
(***************************************************************************)
EXTENDS UartSerial, StreamLemmas, TLAPS

-----------------------------------------------------------------------------
(* Types.                                                                  *)

Types == TypeTx /\ TypeRx /\ TypeHal /\ TypeMode /\ TypeLocal /\ TypeHist

\* There is an inner call only inside write(), and what it is given is part of
\* what the outer one has left: the subtraction when it returns needs it.
PartInv ==
  depth = 1 => pc \in {"wait", "split", "copy", "advance", "start"} /\ part <= size

LEMMA RemainingType ==
  ASSUME TypeTx, NEW t \in 0 .. TxSize - 1
  PROVE  /\ Remaining(t) = IF tx_head >= t THEN tx_head - t ELSE TxSize + tx_head - t
         /\ Remaining(t) \in 0 .. TxSize - 1
         /\ NextBlock(t) \in 0 .. TxSize - t
         /\ NextBlock(t) <= Remaining(t)
<1>1. Remaining(t) = IF tx_head >= t THEN tx_head - t ELSE TxSize + tx_head - t
  BY SizeAssumption, RingCases DEF Remaining, TypeTx
<1>2. Remaining(t) \in 0 .. TxSize - 1
  BY <1>1, SizeAssumption DEF TypeTx
<1> QED
  BY <1>1, <1>2, SizeAssumption DEF NextBlock, TypeTx

\* availableForWrite() leaves one place empty.
LEMMA AvailableType ==
  ASSUME TypeTx
  PROVE  /\ AvailableForWrite = TxSize - 1 - Remaining(tx_tail)
         /\ AvailableForWrite \in 0 .. TxSize - 1
<1>1. tx_tail \in 0 .. TxSize - 1
  BY DEF TypeTx
<1>2. Remaining(tx_tail)
        = IF tx_head >= tx_tail THEN tx_head - tx_tail ELSE TxSize + tx_head - tx_tail
  BY <1>1, RemainingType
<1> QED
  BY <1>2, SizeAssumption DEF AvailableForWrite, TypeTx

\* Starting a transfer leaves the handle in a state of the right type.
LEMMA TransmitType ==
  ASSUME TypeTx, TypeHal, NEW g \in {"RESET", "READY", "BUSY_TX"},
         NEW t \in 0 .. TxSize - 1, NEW n \in 0 .. TxSize, TransmitIT(g, t, n)
  PROVE  TypeHal'
BY SizeAssumption DEF TypeHal, TransmitIT

LEMMA TypeInit == Init => Types /\ PartInv
<1> SUFFICES ASSUME Init PROVE Types /\ PartInv
  OBVIOUS
<1>1. TypeMode
  BY Zenon DEF Init, TypeMode
<1>2. TypeTx /\ TypeRx /\ TypeHal /\ TypeLocal /\ TypeHist /\ PartInv
  BY SizeAssumption, SMT DEF Init, TypeTx, TypeRx, TypeHal, TypeLocal, TypeHist, PartInv,
    PC, Calls
<1> QED
  BY <1>1, <1>2 DEF Types

\* The positions of the main thread.
LEMMA PCType == \A x \in Calls : x \in PC
BY DEF PC

LEMMA TypeStep == Types /\ PartInv /\ [Next]_vars => (Types /\ PartInv)'
<1> SUFFICES ASSUME Types, PartInv, [Next]_vars PROVE (Types /\ PartInv)'
  OBVIOUS
<1> USE SizeAssumption
<1>t. TypeTx /\ TypeRx /\ TypeHal /\ TypeMode /\ TypeLocal /\ TypeHist
  BY DEF Types
<1>a. AvailableForWrite \in 0 .. TxSize - 1
  BY <1>t, AvailableType
<1>b. TxSize - tx_head \in 0 .. TxSize
  BY <1>t DEF TypeTx
\* Which parts of the state a step leaves alone decides most of it.
<1>k. /\ UNCHANGED tx => TypeTx'
      /\ UNCHANGED rx => TypeRx'
      /\ UNCHANGED hal => TypeHal'
      /\ UNCHANGED <<accepted, wired, rcvd, got, ends>> => TypeHist'
      /\ UNCHANGED <<pc, ret, wlocal, c>> => TypeLocal'
      /\ UNCHANGED <<pc, wlocal>> => PartInv'
  BY <1>t DEF tx, rx, hal, wlocal, TypeTx, TypeRx, TypeHal, TypeHist, TypeLocal, PartInv
<1>m. UNCHANGED <<mode, raced>> => TypeMode'
  BY <1>t, Zenon DEF mode, TypeMode
<1>s. /\ SwitchToTx => gState' \in {"RESET", "READY", "BUSY_TX"}
      /\ SwitchToRx => gState' \in {"RESET", "READY", "BUSY_TX"}
  BY <1>t DEF SwitchToTx, SwitchToRx, TypeHal
<1>w. ASSUME SwitchToTx \/ SwitchToRx, UNCHANGED <<half, raced>>, _written' \in BOOLEAN
      PROVE  TypeMode'
  <2>1. _rx_enabled' \in BOOLEAN /\ receiver' \in BOOLEAN
    BY <1>t, <1>w, Zenon DEF SwitchToTx, SwitchToRx, TypeMode
  <2> QED
    BY <1>t, <1>w, <2>1, Zenon DEF TypeMode
<1>h. UNCHANGED hist => TypeHist' /\ UNCHANGED raced
  BY <1>k DEF hist
<1>1. ASSUME NEW n \in 0 .. MaxWrite, CallWrite(n) PROVE (Types /\ PartInv)'
  <2>1. TypeMode'
    BY <1>w, <1>1 DEF CallWrite, hist
  <2>2. TypeTx' /\ TypeRx' /\ TypeHist'
    BY <1>k, <1>h, <1>1 DEF CallWrite
  <2>3. TypeHal'
    BY <1>t, <1>s, <1>1 DEF CallWrite, TypeHal
  <2>4. TypeLocal' /\ PartInv'
    <3>1. n \in Nat
      BY BoundsAssumption
    <3> QED
      BY <1>t, <1>a, <1>b, <1>1, <3>1 DEF CallWrite, Sample, TypeLocal, PartInv, PC, Calls
  <2> QED
    BY <2>1, <2>2, <2>3, <2>4 DEF Types
<1>2. CASE Wait \/ NoSplit
  <2>1. TypeLocal' /\ PartInv'
    BY <1>t, <1>2 DEF Wait, NoSplit, wlocal, TypeLocal, PartInv, PC, Calls
  <2> QED
    BY <1>k, <1>h, <1>m, <1>2, <2>1 DEF Wait, NoSplit, Types
<1>3. CASE Split
  <2>1. Piece \in 0 .. TxSize /\ Piece <= size
    BY <1>t, <1>3 DEF Split, Piece, TooLarge, Current, TypeLocal
  <2>2. TypeLocal' /\ PartInv'
    BY <1>t, <1>a, <1>b, <1>3, <2>1 DEF Split, Sample, TypeLocal, PartInv, PC, Calls
  <2> QED
    BY <1>k, <1>h, <1>m, <1>3, <2>2 DEF Split, Types
<1>4. CASE Copy
  <2>c. Current \in Nat
    BY <1>t DEF Current, TypeLocal
  <2>1. TypeTx'
    <3>1. ASSUME NEW i \in 0 .. TxSize - 1 PROVE Ring(TxSize, tx_head, i) \in Nat
      <4>1. Ring(TxSize, tx_head, i) \in 0 .. TxSize - 1
        BY <1>t, RingCases DEF TypeTx
      <4> QED
        BY <4>1
    <3> QED
      BY <1>t, <1>4, <2>c, <3>1 DEF Copy, TypeTx, TypeHist
  <2>2. TypeLocal' /\ PartInv'
    BY <1>t, <1>4, <2>c DEF Copy, TypeLocal, TypeTx, PartInv, PC, Calls
  <2> QED
    BY <1>k, <1>h, <1>m, <1>4, <2>1, <2>2 DEF Copy, Types
<1>5. CASE Advance
  <2>c. Current \in Nat
    BY <1>t DEF Current, TypeLocal
  <2>1. TypeTx' /\ TypeHist'
    BY <1>t, <1>5, <2>c DEF Advance, TypeTx, TypeHist
  <2>2. TypeLocal' /\ PartInv'
    BY <1>t, <1>5 DEF Advance, TypeLocal, PartInv, PC, Calls, wlocal
  <2> QED
    BY <1>k, <1>m, <1>5, <2>1, <2>2 DEF Advance, Types
<1>6. CASE Start
  <2>1. TypeHal' /\ TypeTx'
    <3>1. tx_size' \in 0 .. TxSize
      BY <1>t, <1>6 DEF Start, StartTransfer, TypeTx, TypeLocal
    <3>2. TypeHal'
      BY <1>t, <1>k, <1>6, TransmitType DEF Start, StartTransfer, TypeTx, TypeHal, TypeLocal
    <3> QED
      BY <1>t, <1>6, <3>1, <3>2 DEF Start, TypeTx
  <2>2. TypeLocal' /\ PartInv'
    BY <1>t, <1>6 DEF Start, TypeLocal, PartInv, PC, Calls
  <2>3. TypeMode'
    BY <1>t, <1>6, Zenon DEF Start, TypeMode, mode
  <2> QED
    BY <1>k, <1>6, <2>1, <2>2, <2>3 DEF Start, Types
<1>7. CASE SampleAgain
  <2>1. TypeLocal' /\ PartInv'
    BY <1>t, <1>a, <1>b, <1>7 DEF SampleAgain, Sample, TypeLocal, PartInv, PC, Calls
  <2> QED
    BY <1>k, <1>h, <1>m, <1>7, <2>1 DEF SampleAgain, Types
<1>8. CASE CallFlush \/ FlushReturn \/ CallRead \/ Test
  <2>1. TypeLocal' /\ PartInv'
    BY <1>t, <1>8, PCType DEF CallFlush, FlushReturn, CallRead, Test, GoFlush, wlocal,
      TypeLocal, PartInv, PC, Calls
  <2> QED
    BY <1>k, <1>h, <1>m, <1>8, <2>1 DEF CallFlush, FlushReturn, CallRead, Test, Types
<1>9. CASE EnableRx \/ Attach
  <2>1. TypeLocal' /\ PartInv'
    BY <1>t, <1>9 DEF EnableRx, Attach, wlocal, TypeLocal, PartInv, PC, Calls
  <2>2. TypeHal'
    BY <1>t, <1>s, <1>9 DEF EnableRx, Attach, TypeHal
  <2>3. SwitchToRx /\ UNCHANGED <<half, raced, _written>>
    BY <1>9 DEF EnableRx, Attach, hist
  <2>4. TypeMode'
    <3>1. _written' \in BOOLEAN
      BY <1>t, <2>3, Zenon DEF TypeMode
    <3> QED
      BY <1>w, <2>3, <3>1
  <2> QED
    BY <1>k, <1>h, <1>9, <2>1, <2>2, <2>4 DEF EnableRx, Attach, Types
<1>10. CASE Fetch
  <2>1. TypeLocal' /\ PartInv'
    BY <1>t, <1>10 DEF Fetch, wlocal, TypeLocal, TypeRx, PartInv, PC, Calls
  <2> QED
    BY <1>k, <1>h, <1>m, <1>10, <2>1 DEF Fetch, Types
<1>11. CASE Consume
  <2>1. TypeLocal' /\ PartInv'
    BY <1>t, <1>11 DEF Consume, wlocal, TypeLocal, PartInv, PC, Calls
  <2>2. TypeRx' /\ TypeHist'
    BY <1>t, <1>11 DEF Consume, TypeRx, TypeHist
  <2> QED
    BY <1>k, <1>m, <1>11, <2>1, <2>2 DEF Consume, Types
<1>12. CASE CallBegin
  <2>1. TypeLocal' /\ PartInv'
    BY <1>t, <1>12 DEF CallBegin, GoFlush, wlocal, TypeLocal, PartInv, PC, Calls
  <2>2. TypeHal'
    BY <1>t, <1>12 DEF CallBegin, TypeHal
  <2>3. TypeMode'
    BY <1>t, <1>12, Zenon DEF CallBegin, TypeMode, hist
  <2> QED
    BY <1>k, <1>h, <1>12, <2>1, <2>2, <2>3 DEF CallBegin, Types
<1>13. CASE CallEnd
  <2>1. TypeLocal' /\ PartInv'
    BY <1>t, <1>13 DEF CallEnd, GoFlush, wlocal, TypeLocal, PartInv, PC, Calls
  <2>2. TypeHist'
    BY <1>t, <1>13 DEF CallEnd, TypeHist
  <2> QED
    BY <1>k, <1>m, <1>13, <2>1, <2>2 DEF CallEnd, Types
<1>14. CASE Deinit
  <2>1. TypeLocal' /\ PartInv'
    BY <1>t, <1>14 DEF Deinit, wlocal, TypeLocal, PartInv, PC, Calls
  <2>2. TypeRx' /\ TypeHal' /\ TypeHist'
    BY <1>t, <1>14 DEF Deinit, TypeRx, TypeHal, TypeHist
  <2>3. TypeMode'
    BY <1>t, <1>14, Zenon DEF Deinit, TypeMode
  <2> QED
    BY <1>k, <1>14, <2>1, <2>2, <2>3 DEF Deinit, Types
<1>15. CASE TxISR
  <2>1. TypeHal' /\ TypeHist'
    BY <1>t, <1>15 DEF TxISR, TypeHal, TypeHist
  <2> QED
    BY <1>k, <1>m, <1>15, <2>1 DEF TxISR, Types
<1>16. CASE TxComplete
  <2> DEFINE t == (tx_tail + tx_size) % TxSize
  <2>1. t \in 0 .. TxSize - 1
    BY <1>t DEF TypeTx
  <2> HIDE DEF t
  <2>2. NextBlock(t) \in 0 .. TxSize
    BY <1>t, <2>1, RemainingType
  <2>3. /\ tx_tail' = t
        /\ \/ tx_size' = NextBlock(t) /\ TransmitIT("READY", t, NextBlock(t))
           \/ tx_size' = tx_size /\ gState' = "READY" /\ UNCHANGED <<pTxBuffPtr, TxXferCount>>
    BY <1>16 DEF TxComplete, t
  <2>4. TypeTx'
    BY <1>t, <1>16, <2>1, <2>2, <2>3 DEF TxComplete, TypeTx
  <2>5. TypeHal'
    <3>1. CASE TransmitIT("READY", t, NextBlock(t))
      BY <1>t, <2>1, <2>2, <3>1, TransmitType
    <3>2. CASE gState' = "READY" /\ UNCHANGED <<pTxBuffPtr, TxXferCount>>
      BY <1>t, <3>2 DEF TypeHal
    <3> QED
      BY <2>3, <3>1, <3>2
  <2> QED
    BY <1>k, <1>h, <1>m, <1>16, <2>4, <2>5 DEF TxComplete, Types
<1>17. CASE RxByte
  <2>1. TypeRx' /\ TypeHist'
    BY <1>t, <1>17 DEF RxByte, TypeRx, TypeHist
  <2> QED
    BY <1>k, <1>m, <1>17, <2>1 DEF RxByte, Types
<1>18. CASE RxDrop \/ UNCHANGED vars
  BY <1>k, <1>h, <1>m, <1>18 DEF RxDrop, vars, Types
<1> QED
  BY <1>1, <1>2, <1>3, <1>4, <1>5, <1>6, <1>7, <1>8, <1>9, <1>10, <1>11, <1>12, <1>13,
    <1>14, <1>15, <1>16, <1>17, <1>18 DEF Next, Main, Write, Read, Uart

LEMMA TypeInvariant == Spec => [](Types /\ PartInv)
BY TypeInit, TypeStep, PTL DEF Spec

-----------------------------------------------------------------------------
(* The receive ring.                                                       *)

\* The receive ring holds the bytes that arrived and were not taken, and read()
\* has the oldest of them in hand before it gives its place free.
RxInv ==
  /\ rcvd = got + RxLeft
  /\ RingHolds(RxSize, rx_buff, rx_tail, RxLeft, got)
  /\ pc \in {"fetch", "consume"} => RxLeft > 0
  /\ pc = "consume" => c = got + 1

LEMMA RxLeftCases ==
  ASSUME TypeRx
  PROVE  /\ RxLeft = IF rx_head >= rx_tail THEN rx_head - rx_tail
                                           ELSE RxSize + rx_head - rx_tail
         /\ RxLeft \in 0 .. RxSize - 1
BY SizeAssumption, RingCases DEF TypeRx, RxLeft

\* The next place of the receive ring.
LEMMA RxNextCases ==
  ASSUME NEW p \in 0 .. RxSize - 1
  PROVE  (p + 1) % RxSize = IF p = RxSize - 1 THEN 0 ELSE p + 1
<1>1. (p + 1) % RxSize = IF p + 1 < RxSize THEN p + 1 ELSE p + 1 - RxSize
  <2>1. RxSize \in Nat \ {0} /\ 1 \in 0 .. RxSize
    BY SizeAssumption
  <2> QED
    BY <2>1, MoveCases
<1> QED
  BY <1>1, SizeAssumption

LEMMA RxInit == Init => RxInv
<1> SUFFICES ASSUME Init PROVE RxInv
  OBVIOUS
<1>1. TypeRx
  BY TypeInit DEF Types
<1>2. RxLeft = 0
  BY <1>1, RxLeftCases DEF Init
<1>3. \A i \in 0 .. RxSize - 1 : Ring(RxSize, rx_tail, i) \in 0 .. RxSize - 1
  BY <1>1, SizeAssumption, RingCases DEF TypeRx
<1>4. RingHolds(RxSize, rx_buff, rx_tail, 0, got)
  BY <1>3 DEF RingHolds
<1> QED
  BY <1>2, <1>4 DEF Init, RxInv

\* A byte that finds room is the next one of the run.
LEMMA RxByteStep ==
  ASSUME Types, Types', RxInv, RxByte
  PROVE  RxInv' /\ RxLeft' = RxLeft + 1 /\ rcvd' = rcvd + 1 /\ got' = got
<1> USE SizeAssumption
<1>t. TypeRx /\ TypeRx' /\ TypeHist
  BY DEF Types
<1>1. rx_head' = IF rx_head = RxSize - 1 THEN 0 ELSE rx_head + 1
  BY <1>t, RxNextCases DEF RxByte, TypeRx
<1>2. rx_head' # rx_tail /\ rx_tail' = rx_tail
  BY DEF RxByte, RxRoom
<1>3. RxLeft' = RxLeft + 1
  <2>1. RxLeft' = IF rx_head' >= rx_tail' THEN rx_head' - rx_tail'
                                          ELSE RxSize + rx_head' - rx_tail'
    BY <1>t, RingCases DEF RxLeft, TypeRx
  <2>2. RxLeft = IF rx_head >= rx_tail THEN rx_head - rx_tail
                                       ELSE RxSize + rx_head - rx_tail
    BY <1>t, RxLeftCases
  <2> QED
    BY <1>t, <1>1, <1>2, <2>1, <2>2 DEF TypeRx
<1>4. ASSUME NEW i \in 0 .. RxSize - 1, Ring(RxSize, rx_tail', i) < RxLeft'
      PROVE  rx_buff'[i] = got' + 1 + Ring(RxSize, rx_tail', i)
  <2>1. Ring(RxSize, rx_tail, i) \in 0 .. RxSize - 1 /\ RxLeft \in 0 .. RxSize - 1
    BY <1>t, RingCases, RxLeftCases DEF TypeRx
  <2>2. CASE i = rx_head
    <3>1. rx_buff'[i] = rcvd + 1
      BY <1>t, <2>2 DEF RxByte, TypeRx
    <3>2. Ring(RxSize, rx_tail, i) = RxLeft
      BY <2>2 DEF RxLeft
    <3> QED
      BY <1>t, <1>2, <2>1, <3>1, <3>2 DEF RxByte, RxInv, TypeHist
  <2>3. CASE i # rx_head
    <3>1. rx_buff'[i] = rx_buff[i]
      BY <1>t, <2>3 DEF RxByte, TypeRx
    <3>2. Ring(RxSize, rx_tail, i) # RxLeft
      <4>1. Ring(RxSize, rx_tail, i)
              = IF i >= rx_tail THEN i - rx_tail ELSE RxSize + i - rx_tail
        BY <1>t, RingCases DEF TypeRx
      <4>2. RxLeft = IF rx_head >= rx_tail THEN rx_head - rx_tail
                                           ELSE RxSize + rx_head - rx_tail
        BY <1>t, RxLeftCases
      <4> QED
        BY <1>t, <2>3, <4>1, <4>2 DEF TypeRx
    <3>3. Ring(RxSize, rx_tail, i) < RxLeft
      BY <1>2, <1>3, <1>4, <2>1, <3>2
    <3> QED
      BY <1>2, <3>1, <3>3 DEF RxByte, RxInv, RingHolds
  <2> QED
    BY <2>2, <2>3
<1>5. RingHolds(RxSize, rx_buff, rx_tail, RxLeft, got)'
  BY <1>4 DEF RingHolds
<1>6. RxLeft \in 0 .. RxSize - 1
  BY <1>t, RxLeftCases
<1> QED
  BY <1>t, <1>3, <1>5, <1>6 DEF RxByte, RxInv, TypeHist

\* read() gives the place of the oldest byte free.
LEMMA ConsumeStep ==
  ASSUME Types, Types', RxInv, Consume
  PROVE  RxInv' /\ RxLeft' = RxLeft - 1 /\ got' = got + 1 /\ rcvd' = rcvd
<1> USE SizeAssumption
<1>t. TypeRx /\ TypeRx' /\ TypeHist
  BY DEF Types
<1>1. rx_tail' = IF rx_tail = RxSize - 1 THEN 0 ELSE rx_tail + 1
  BY <1>t, RxNextCases DEF Consume, TypeRx
<1>2. rx_head' = rx_head /\ rx_buff' = rx_buff /\ got' = got + 1 /\ RxLeft > 0
  BY DEF Consume, RxInv
<1>3. RxLeft' = RxLeft - 1
  <2>1. RxLeft' = IF rx_head' >= rx_tail' THEN rx_head' - rx_tail'
                                          ELSE RxSize + rx_head' - rx_tail'
    BY <1>t, RingCases DEF RxLeft, TypeRx
  <2>2. RxLeft = IF rx_head >= rx_tail THEN rx_head - rx_tail
                                       ELSE RxSize + rx_head - rx_tail
    BY <1>t, RxLeftCases
  <2> QED
    BY <1>t, <1>1, <1>2, <2>1, <2>2 DEF TypeRx
<1>6. RxLeft \in 0 .. RxSize - 1
  BY <1>t, RxLeftCases
<1>4. ASSUME NEW i \in 0 .. RxSize - 1, Ring(RxSize, rx_tail', i) < RxLeft'
      PROVE  rx_buff'[i] = got' + 1 + Ring(RxSize, rx_tail', i)
  <2>1. Ring(RxSize, rx_tail, i)
          = IF i >= rx_tail THEN i - rx_tail ELSE RxSize + i - rx_tail
    BY <1>t, RingCases DEF TypeRx
  <2>2. Ring(RxSize, rx_tail', i)
          = IF i >= rx_tail' THEN i - rx_tail' ELSE RxSize + i - rx_tail'
    BY <1>t, RingCases DEF TypeRx
  <2>4. Ring(RxSize, rx_tail', i) \in 0 .. RxSize - 1
    BY <1>t, RingCases DEF TypeRx
  <2>3. Ring(RxSize, rx_tail, i) = Ring(RxSize, rx_tail', i) + 1
    <3>1. Ring(RxSize, rx_tail', i) < RxSize - 2
      BY <1>3, <1>4, <1>6, <2>4
    <3>2. rx_tail \in 0 .. RxSize - 1
      BY <1>t DEF TypeRx
    <3> QED
      BY <1>1, <2>1, <2>2, <3>1, <3>2
  <2>5. rx_buff[i] = got + 1 + Ring(RxSize, rx_tail, i)
    BY <1>3, <1>4, <1>6, <2>3, <2>4 DEF RxInv, RingHolds
  <2> QED
    BY <1>t, <1>2, <2>3, <2>4, <2>5 DEF TypeHist
<1>5. RingHolds(RxSize, rx_buff, rx_tail, RxLeft, got)'
  BY <1>4 DEF RingHolds
<1> QED
  BY <1>t, <1>2, <1>3, <1>5, <1>6 DEF Consume, RxInv, TypeHist

\* What a step does to the bytes between arrival and the sketch.
RxEffect ==
  \/ rcvd' = rcvd + 1 /\ got' = got
  \/ got' = got + 1 /\ rcvd' = rcvd
  \/ got' = rcvd /\ rcvd' = rcvd
  \/ UNCHANGED <<rcvd, got>>

LEMMA RxStep == Types /\ Types' /\ RxInv /\ [Next]_vars => RxInv' /\ RxEffect
<1> SUFFICES ASSUME Types, Types', RxInv, [Next]_vars PROVE RxInv' /\ RxEffect
  OBVIOUS
<1>t. TypeRx /\ TypeRx' /\ TypeHist
  BY DEF Types
<1>l. RxLeft = IF rx_head >= rx_tail THEN rx_head - rx_tail
                                     ELSE RxSize + rx_head - rx_tail
  BY <1>t, RxLeftCases
<1>u. ASSUME UNCHANGED <<rx, rcvd, got>>,
             \/ pc' \notin {"fetch", "consume"}
             \/ UNCHANGED <<pc, c>>
      PROVE  RxInv' /\ RxEffect
  BY <1>u DEF rx, RxInv, RxEffect, RxLeft, RingHolds
<1>1. CASE RxByte
  BY <1>1, RxByteStep DEF RxEffect
<1>2. CASE Consume
  BY <1>2, ConsumeStep DEF RxEffect
<1>3. CASE Test
  <2>1. UNCHANGED <<rx, rcvd, got>>
    BY <1>3 DEF Test, hist
  <2>2. CASE rx_head = rx_tail
    BY <1>3, <1>u, <2>1, <2>2 DEF Test
  <2>3. CASE rx_head # rx_tail
    <3>1. RxLeft > 0
      BY <1>t, <1>l, <2>3, SizeAssumption DEF TypeRx
    <3> QED
      BY <1>3, <2>1, <2>3, <3>1 DEF Test, rx, RxInv, RxEffect, RxLeft, RingHolds
  <2> QED
    BY <2>2, <2>3
<1>4. CASE Fetch
  <2>1. UNCHANGED <<rx, rcvd, got>> /\ pc' = "consume" /\ c' = rx_buff[rx_tail]
    BY <1>4 DEF Fetch, hist
  <2>2. RxLeft > 0
    BY <1>4 DEF Fetch, RxInv
  <2>3. Ring(RxSize, rx_tail, rx_tail) = 0
    BY <1>t, SizeAssumption, RingCases DEF TypeRx
  <2>4. rx_buff[rx_tail] = got + 1
    BY <1>t, <2>2, <2>3 DEF RxInv, RingHolds, TypeRx, TypeHist
  <2> QED
    BY <2>1, <2>2, <2>4 DEF rx, RxInv, RxEffect, RxLeft, RingHolds
<1>5. CASE Deinit
  <2>1. rx_head' = rx_tail /\ rx_tail' = rx_tail /\ got' = rcvd /\ rcvd' = rcvd
        /\ pc' = "closed"
    BY <1>5 DEF Deinit
  <2>2. RxLeft' = 0
    BY <1>t, <2>1, SizeAssumption, RingCases DEF RxLeft, TypeRx
  <2>3. ASSUME NEW i \in 0 .. RxSize - 1 PROVE Ring(RxSize, rx_tail', i) \in 0 .. RxSize - 1
    BY <1>t, SizeAssumption, RingCases DEF TypeRx
  <2>4. RingHolds(RxSize, rx_buff, rx_tail, RxLeft, got)'
    BY <2>2, <2>3 DEF RingHolds
  <2> QED
    BY <1>t, <2>1, <2>2, <2>4 DEF RxInv, RxEffect, TypeHist
<1>6. CASE (\E n \in 0 .. MaxWrite : CallWrite(n)) \/ Write
  BY <1>6, <1>u DEF CallWrite, Write, Wait, Split, NoSplit, Copy, Advance, Start,
    SampleAgain, hist
<1>7. CASE CallFlush \/ CallRead \/ CallBegin \/ CallEnd \/ EnableRx \/ Attach
  BY <1>7, <1>u DEF CallFlush, CallRead, CallBegin, CallEnd, EnableRx, Attach, GoFlush, hist
<1>8. CASE FlushReturn
  <2>1. pc' \in Calls
    BY <1>8 DEF FlushReturn, Types, TypeLocal
  <2>2. pc' \notin {"fetch", "consume"}
    BY <2>1 DEF Calls
  <2> QED
    BY <1>8, <1>u, <2>2 DEF FlushReturn, hist
<1>9. CASE Uart
  BY <1>9, <1>u DEF Uart, TxISR, TxComplete, hist
<1>10. CASE RxDrop \/ UNCHANGED vars
  BY <1>10, <1>u DEF RxDrop, vars, hist
<1> QED
  BY <1>1, <1>2, <1>3, <1>4, <1>5, <1>6, <1>7, <1>8, <1>9, <1>10 DEF Next, Main, Read

LEMMA RxInvariant == Spec => [](Types /\ PartInv /\ RxInv)
BY RxInit, RxStep, TypeInvariant, PTL DEF Spec

-----------------------------------------------------------------------------
(* The receive ring implements the pipe.                                   *)

\* The bytes in the pipe are those that arrived and were not delivered.
RxPipeInv ==
  /\ rcvd \in Nat /\ got \in Nat /\ got <= rcvd /\ rcvd - got <= RxSize - 1
  /\ RxChan = Bytes(got, rcvd - got)

LEMMA RxChanBytes == Types /\ RxInv => RxPipeInv
<1> SUFFICES ASSUME Types, RxInv PROVE RxPipeInv
  OBVIOUS
<1>1. /\ RxLeft \in 0 .. RxSize - 1 /\ rcvd = got + RxLeft /\ rcvd \in Nat /\ got \in Nat
      /\ rx_tail \in 0 .. RxSize - 1 /\ RxSize \in Nat \ {0}
  BY RxLeftCases, SizeAssumption DEF Types, TypeHist, TypeRx, RxInv
<1>2. \A k \in 1 .. RxLeft : rx_buff[(rx_tail + k - 1) % RxSize] = got + k
  <2>1. RingHolds(RxSize, rx_buff, rx_tail, RxLeft, got)
    BY DEF RxInv
  <2>2. RxSize \in Nat \ {0}
    BY <1>1
  <2>3. rx_tail \in 0 .. RxSize - 1 /\ RxLeft \in 0 .. RxSize - 1 /\ got \in Nat
    BY <1>1
  <2>4. rx_buff \in [0 .. RxSize - 1 -> Nat]
    BY DEF Types, TypeRx
  <2> QED
    BY <2>1, <2>2, <2>3, <2>4, RingRun
<1>3. RxChan = Bytes(got, RxLeft)
  BY <1>1, <1>2 DEF RxChan, Bytes, RxInv
<1>4. RxLeft = rcvd - got
  BY <1>1
<1> QED
  BY <1>1, <1>3, <1>4 DEF RxPipeInv

LEMMA RxPipeStep ==
  RxPipeInv /\ RxPipeInv' /\ RxEffect => [RxPipe!Next]_(RxPipe!vars)
<1> SUFFICES ASSUME RxPipeInv, RxPipeInv', RxEffect
             PROVE  RxPipe!Work \/ UNCHANGED <<rcvd, got, RxChan>>
  BY DEF RxPipe!Next, RxPipe!vars
<1>1. /\ rcvd \in Nat /\ got \in Nat /\ got <= rcvd /\ rcvd - got <= RxSize - 1
      /\ RxChan = Bytes(got, rcvd - got)
  BY DEF RxPipeInv
<1>2. /\ rcvd' \in Nat /\ got' \in Nat /\ got' <= rcvd' /\ rcvd' - got' <= RxSize - 1
      /\ RxChan' = Bytes(got', rcvd' - got')
  BY DEF RxPipeInv
<1>3. rcvd - got \in Nat /\ Len(RxChan) = rcvd - got
  <2>1. rcvd - got \in Nat
    BY <1>1
  <2> QED
    BY <1>1, <2>1, BytesSeq
<1>4. CASE rcvd' = rcvd + 1 /\ got' = got
  <2>1. RxChan' = RxChan \o Bytes(rcvd, 1)
    BY <1>1, <1>2, <1>4, RunGrows
  <2>2. RxPipe!Accept(1)
    BY <1>1, <1>2, <1>3, <1>4, <2>1 DEF RxPipe!Accept, RxPipe!Run, Bytes
  <2>3. 1 \in 1 .. RxSize - 1
    BY SizeAssumption
  <2> QED
    BY <2>2, <2>3 DEF RxPipe!Work
<1>5. CASE got' = got + 1 /\ rcvd' = rcvd
  <2>1. SubSeq(RxChan, 1, 1) = Bytes(got, 1) /\ RxChan' = SubSeq(RxChan, 1 + 1, rcvd - got)
    <3>1. got + 1 <= rcvd
      BY <1>2, <1>5
    <3>2. /\ SubSeq(Bytes(got, rcvd - got), 1, 1) = Bytes(got, 1)
          /\ Bytes(got + 1, rcvd - (got + 1)) = SubSeq(Bytes(got, rcvd - got), 1 + 1, rcvd - got)
      BY <1>1, <3>1, RunShrinks
    <3> QED
      BY <1>1, <1>2, <1>5, <3>2
  <2>2. RxPipe!Deliver(1)
    BY <1>1, <1>2, <1>3, <1>5, <2>1 DEF RxPipe!Deliver, RxPipe!Run, Bytes
  <2>3. 1 \in 1 .. RxSize - 1
    BY SizeAssumption
  <2> QED
    BY <2>2, <2>3 DEF RxPipe!Work
<1>6. CASE got' = rcvd /\ rcvd' = rcvd
  <2>1. RxChan' = <<>>
    BY <1>1, <1>2, <1>6, NoBytes
  <2> QED
    BY <1>6, <2>1 DEF RxPipe!Work, RxPipe!Clear
<1>7. CASE UNCHANGED <<rcvd, got>>
  BY <1>1, <1>2, <1>7
<1> QED
  BY <1>4, <1>5, <1>6, <1>7 DEF RxEffect

\* The receive ring, filled by the interrupt between any two steps of read(),
\* implements the pipe of ByteStream for every size of the ring: the sketch gets
\* the bytes that found room, each once and in order, and end() drops the rest.
THEOREM ReceiveImplementsPipe == Spec => RxImplementsPipe
<1>1. Init => RxPipe!Init
  <2> SUFFICES ASSUME Init PROVE RxPipe!Init
    OBVIOUS
  <2>1. RxPipeInv
    BY TypeInit, RxInit, RxChanBytes
  <2>2. rcvd = 0 /\ got = 0
    BY DEF Init
  <2>3. RxChan = <<>>
    BY <2>1, <2>2, NoBytes DEF RxPipeInv
  <2> QED
    BY <2>2, <2>3 DEF RxPipe!Init
<1>2. Types /\ Types' /\ RxInv /\ RxPipeInv /\ RxPipeInv' /\ [Next]_vars
      => [RxPipe!Next]_(RxPipe!vars)
  BY RxStep, RxPipeStep
<1> QED
  BY <1>1, <1>2, RxInvariant, RxChanBytes, PTL DEF Spec, RxImplementsPipe, RxPipe!Spec

-----------------------------------------------------------------------------
(* One wire for both directions.                                           *)

Writing == {"wait", "split", "copy", "advance", "start", "sample"}

\* _rx_enabled may lag behind the wire only while begin() is at work, and write()
\* has turned the receiver off before it starts a transfer. (The property itself
\* says nothing of the moments before a transfer.)
DirInv ==
  half => /\ _rx_enabled \/ receiver => gState # "BUSY_TX"
          /\ pc \in Writing => ~_rx_enabled /\ ~receiver
          /\ receiver => \/ _rx_enabled
                         \/ pc = "attach"
                         \/ pc = "flush" /\ ret = "attach"

LEMMA DirStep == Types /\ DirInv /\ [Next]_vars => DirInv'
<1> SUFFICES ASSUME Types, DirInv, [Next]_vars PROVE DirInv'
  OBVIOUS
<1> USE DEF DirInv, Writing, mode, hal
<1>1. CASE \E n \in 0 .. MaxWrite : CallWrite(n)
  BY <1>1 DEF CallWrite, SwitchToTx
<1>2. CASE Wait \/ Split \/ NoSplit \/ Copy \/ Advance \/ SampleAgain
  BY <1>2 DEF Wait, Split, NoSplit, Copy, Advance, SampleAgain
<1>3. CASE Start
  BY <1>3 DEF Start
<1>4. CASE CallFlush \/ CallRead \/ CallEnd
  BY <1>4 DEF CallFlush, CallRead, CallEnd, GoFlush
<1>5. CASE FlushReturn
  <2>1. pc' \notin Writing
    BY <1>5 DEF FlushReturn, Types, TypeLocal, Calls
  <2> QED
    BY <1>5, <2>1 DEF FlushReturn
<1>6. CASE EnableRx \/ Attach
  BY <1>6 DEF EnableRx, Attach, SwitchToRx
<1>7. CASE CallBegin
  BY <1>7 DEF CallBegin, GoFlush
<1>8. CASE Test \/ Fetch \/ Consume \/ Deinit
  BY <1>8 DEF Test, Fetch, Consume, Deinit
<1>9. CASE TxISR
  BY <1>9 DEF TxISR
<1>10. CASE TxComplete
  BY <1>10 DEF TxComplete
<1>11. CASE RxByte \/ RxDrop \/ UNCHANGED vars
  BY <1>11 DEF RxByte, RxDrop, vars
<1> QED
  BY <1>1, <1>2, <1>3, <1>4, <1>5, <1>6, <1>7, <1>8, <1>9, <1>10, <1>11
    DEF Next, Main, Write, Read, Uart

\* In half-duplex mode the receiver is off while a transfer is under way, whatever
\* the sketch calls in between, end() and begin() included.
THEOREM WireHasOneDirection == Spec => []OneDirection
<1>1. Init => DirInv
  BY DEF Init, DirInv, Writing
<1>2. DirInv => OneDirection
  BY DEF DirInv, OneDirection
<1> QED
  BY <1>1, <1>2, DirStep, TypeInvariant, PTL DEF Spec

-----------------------------------------------------------------------------
(* The transmit ring: who starts what.                                     *)

\* The handle is reset exactly while the port is closed.
OpenInv == gState = "RESET" <=> pc = "closed"

LEMMA OpenStep == Types /\ OpenInv /\ [Next]_vars => OpenInv'
<1> SUFFICES ASSUME Types, OpenInv, [Next]_vars PROVE OpenInv'
  OBVIOUS
<1> USE DEF OpenInv, hal
<1>1. CASE \E n \in 0 .. MaxWrite : CallWrite(n)
  BY <1>1 DEF CallWrite, SwitchToTx
<1>2. CASE Write
  BY <1>2 DEF Write, Wait, Split, NoSplit, Copy, Advance, Start, StartTransfer, TransmitIT,
    SampleAgain
<1>3. CASE CallFlush \/ CallRead \/ CallBegin \/ CallEnd
  BY <1>3 DEF CallFlush, CallRead, CallBegin, CallEnd, GoFlush
<1>4. CASE FlushReturn
  <2>1. pc' # "closed"
    BY <1>4 DEF FlushReturn, Types, TypeLocal, Calls
  <2> QED
    BY <1>4, <2>1 DEF FlushReturn
<1>5. CASE EnableRx \/ Attach \/ Test \/ Fetch \/ Consume \/ Deinit
  BY <1>5 DEF EnableRx, Attach, SwitchToRx, Test, Fetch, Consume, Deinit
<1>6. CASE TxISR
  BY <1>6 DEF TxISR
<1>7. CASE TxComplete
  BY <1>7 DEF TxComplete, TransmitIT
<1>8. CASE RxByte \/ RxDrop \/ UNCHANGED vars
  BY <1>8 DEF RxByte, RxDrop, vars
<1> QED
  BY <1>1, <1>2, <1>3, <1>4, <1>5, <1>6, <1>7, <1>8 DEF Next, Main, Read, Uart

\* The block under way lies at the tail, within the bytes of the ring, and does
\* not pass its end; the HAL is somewhere in it.
BusyInv ==
  gState = "BUSY_TX" => /\ 1 <= tx_size /\ tx_tail + tx_size <= TxSize
                        /\ tx_size <= Remaining(tx_tail)
                        /\ pTxBuffPtr + TxXferCount = tx_tail + tx_size
                        /\ TxXferCount <= tx_size

\* Without one the ring is empty, or write() is about to start all there is.
IdleInv ==
  gState # "BUSY_TX" => \/ tx_head = tx_tail
                        \/ /\ pc = "start" /\ chunk = Remaining(tx_tail)
                           /\ tx_tail + chunk <= TxSize

\* The samples of write() are safe when they are used: there is at least as much
\* room as it believes, and the bytes it copies do not pass the end of the ring.
WriteInv ==
  /\ pc \in {"wait", "split"} =>
       /\ till_end = TxSize - tx_head /\ available <= AvailableForWrite
       /\ depth = 1 => part <= available /\ part <= till_end
  /\ pc \in {"copy", "advance"} =>
       Current <= AvailableForWrite /\ tx_head + Current <= TxSize
  /\ pc = "advance" => chunk = Current

\* What flush() relies on, and what it leaves to those that call it.
FlushInv ==
  /\ ~_written => tx_head = tx_tail /\ gState # "BUSY_TX" /\ pc \notin Writing
  /\ pc \in {"enable", "attach", "deinit"} => gState # "BUSY_TX"

TxInv ==
  ~raced => /\ BusyInv /\ IdleInv /\ WriteInv /\ FlushInv
            /\ pTxBuffPtr + TxXferCount <= TxSize

LEMMA TxInit == Init => TxInv
<1> SUFFICES ASSUME Init PROVE TxInv
  OBVIOUS
<1> QED
  BY SizeAssumption DEF Init, TxInv, BusyInv, IdleInv, WriteInv, FlushInv, Writing

\* The transmit-complete interrupt: what is left behind the block is less by the
\* block, and if there is any the next block is started.
LEMMA TxCompleteStep ==
  ASSUME Types, Types', OpenInv, BusyInv, WriteInv, FlushInv, TxComplete
  PROVE  /\ BusyInv' /\ IdleInv' /\ WriteInv' /\ FlushInv'
         /\ (pTxBuffPtr + TxXferCount <= TxSize)'
         /\ Remaining(tx_tail)' = Remaining(tx_tail) - tx_size
         /\ tx_tail' = IF tx_tail + tx_size = TxSize THEN 0 ELSE tx_tail + tx_size
         /\ gState' = "BUSY_TX" => pTxBuffPtr' = tx_tail'
<1> USE SizeAssumption
<1>t. TypeTx /\ TypeTx' /\ TypeHal /\ TypeLocal
  BY DEF Types
<1> DEFINE t == (tx_tail + tx_size) % TxSize
<1>b. /\ 1 <= tx_size /\ tx_tail + tx_size <= TxSize /\ tx_size <= Remaining(tx_tail)
      /\ pTxBuffPtr + TxXferCount = tx_tail + tx_size /\ TxXferCount = 0
      /\ gState = "BUSY_TX"
  BY DEF TxComplete, BusyInv
<1>i. /\ TxSize \in Nat \ {0, 1} /\ tx_head \in 0 .. TxSize - 1
      /\ tx_tail \in 0 .. TxSize - 1 /\ tx_size \in Nat
  BY <1>t DEF TypeTx
<1>1. /\ t = IF tx_tail + tx_size = TxSize THEN 0 ELSE tx_tail + tx_size
      /\ t \in 0 .. TxSize - 1
      /\ Remaining(t) = Remaining(tx_tail) - tx_size
  BY <1>i, <1>b, RingShrinks DEF Remaining
<1>2. /\ tx_tail' = t /\ UNCHANGED <<tx_head, pc, _written, wlocal>>
      /\ \/ /\ tx_head # t /\ tx_size' = NextBlock(t)
            /\ TransmitIT("READY", t, NextBlock(t))
         \/ /\ tx_head = t /\ gState' = "READY"
            /\ UNCHANGED <<tx_size, pTxBuffPtr, TxXferCount>>
  BY DEF TxComplete, mode
<1> HIDE DEF t
<1>3. /\ Remaining(t) = IF tx_head >= t THEN tx_head - t ELSE TxSize + tx_head - t
      /\ Remaining(t) \in 0 .. TxSize - 1
      /\ NextBlock(t) \in 0 .. TxSize - t
      /\ NextBlock(t) <= Remaining(t)
  BY <1>t, <1>1, RemainingType
<1>4. Remaining(tx_tail) \in 0 .. TxSize - 1
  BY <1>t, <1>i, RemainingType
<1>5. Remaining(tx_tail)' = Remaining(t)
  BY <1>2 DEF Remaining
<1>6. \/ /\ gState' = "BUSY_TX" /\ pTxBuffPtr' = t /\ TxXferCount' = NextBlock(t)
         /\ tx_size' = NextBlock(t) /\ NextBlock(t) >= 1
      \/ /\ tx_head = t /\ gState' = "READY"
         /\ UNCHANGED <<pTxBuffPtr, TxXferCount>>
  <2>1. CASE tx_head # t
    <3>1. Remaining(t) >= 1 /\ TxSize - t >= 1
      BY <1>i, <1>1, <1>3, <2>1
    <3>2. NextBlock(t) >= 1
      BY <3>1 DEF NextBlock
    <3> QED
      BY <1>2, <1>3, <2>1, <3>2 DEF TransmitIT
  <2>2. CASE tx_head = t
    BY <1>2, <2>2
  <2> QED
    BY <2>1, <2>2
<1>7. BusyInv'
  BY <1>1, <1>2, <1>3, <1>5, <1>6 DEF BusyInv
<1>8. IdleInv'
  BY <1>2, <1>6 DEF IdleInv
<1>9. WriteInv'
  <2>1. AvailableForWrite = TxSize - 1 - Remaining(tx_tail)
    BY <1>t, AvailableType
  <2>2. AvailableForWrite' = TxSize - 1 - Remaining(t)
    <3>1. AvailableForWrite' = IF tx_head >= t THEN TxSize - 1 - tx_head + t
                                              ELSE t - tx_head - 1
      BY <1>2 DEF AvailableForWrite
    <3> QED
      BY <1>i, <1>1, <1>3, <3>1
  <2>3. AvailableForWrite \in 0 .. TxSize - 1 /\ AvailableForWrite' >= AvailableForWrite
    BY <1>i, <1>1, <1>3, <1>4, <2>1, <2>2
  <2>4. Current' = Current /\ Current \in Nat
    BY <1>t, <1>2 DEF Current, wlocal, TypeLocal
  <2>5. AvailableForWrite' \in Int
    BY <1>3, <2>2
  <2> HIDE DEF Current, AvailableForWrite
  <2> QED
    BY <1>t, <1>2, <2>3, <2>4, <2>5 DEF WriteInv, wlocal, TypeLocal
<1>10. FlushInv'
  BY <1>b, <1>2 DEF FlushInv
<1>11. (pTxBuffPtr + TxXferCount <= TxSize)'
  <2>1. CASE pTxBuffPtr' = t /\ TxXferCount' = NextBlock(t)
    BY <1>1, <1>3, <2>1
  <2>2. CASE UNCHANGED <<pTxBuffPtr, TxXferCount>>
    BY <1>b, <2>2
  <2> QED
    BY <1>6, <2>1, <2>2
<1> QED
  BY <1>1, <1>2, <1>5, <1>6, <1>7, <1>8, <1>9, <1>10, <1>11

\* write() moves the head behind the bytes it has copied: a ring that was idle
\* holds exactly them.
LEMMA AdvanceStep ==
  ASSUME Types, Types', BusyInv, IdleInv, WriteInv, FlushInv, Advance
  PROVE  /\ BusyInv' /\ IdleInv' /\ WriteInv' /\ FlushInv'
         /\ tx_head' = IF tx_head + Current = TxSize THEN 0 ELSE tx_head + Current
         /\ Remaining(tx_tail)' = Remaining(tx_tail) + Current
<1>t. TypeTx /\ TypeHal /\ TypeLocal
  BY DEF Types
<1>i. /\ TxSize \in Nat \ {0, 1} /\ tx_head \in 0 .. TxSize - 1
      /\ tx_tail \in 0 .. TxSize - 1 /\ tx_size \in Nat /\ Current \in Nat
  BY <1>t, SizeAssumption DEF TypeTx, TypeLocal, Current
<1>1. /\ UNCHANGED <<tx_tail, tx_size, gState, pTxBuffPtr, TxXferCount, chunk, _written>>
      /\ pc = "advance" /\ pc' = "start" /\ tx_head' = (tx_head + Current) % TxSize
  BY DEF Advance, hal, mode, wlocal
<1>2. chunk = Current /\ Current <= AvailableForWrite /\ tx_head + Current <= TxSize
  BY <1>1 DEF WriteInv
<1>3. AvailableForWrite = TxSize - 1 - Remaining(tx_tail)
      /\ Remaining(tx_tail) \in 0 .. TxSize - 1
  BY <1>t, <1>i, AvailableType, RemainingType
<1>4. /\ tx_head' = IF tx_head + Current = TxSize THEN 0 ELSE tx_head + Current
      /\ Remaining(tx_tail)' = Remaining(tx_tail) + Current
  <2>1. Current <= TxSize - 1 - Ring(TxSize, tx_tail, tx_head)
    BY <1>2, <1>3 DEF Remaining
  <2>2. /\ (tx_head + Current) % TxSize
             = IF tx_head + Current = TxSize THEN 0 ELSE tx_head + Current
        /\ Ring(TxSize, tx_tail, (tx_head + Current) % TxSize)
             = Ring(TxSize, tx_tail, tx_head) + Current
    BY <1>i, <1>2, <2>1, RingGrows
  <2> QED
    BY <1>1, <2>2 DEF Remaining
<1>5. BusyInv'
  BY <1>i, <1>1, <1>3, <1>4 DEF BusyInv
<1>6. IdleInv'
  <2>1. CASE gState # "BUSY_TX"
    <3>1. tx_head = tx_tail
      BY <1>1, <2>1 DEF IdleInv
    <3>2. Remaining(tx_tail) = 0
      BY <1>t, <1>i, <3>1, RemainingType
    <3> QED
      BY <1>i, <1>1, <1>2, <1>4, <3>1, <3>2 DEF IdleInv
  <2> QED
    BY <1>1, <2>1 DEF IdleInv
<1>7. WriteInv'
  BY <1>1 DEF WriteInv
<1>8. FlushInv'
  BY <1>1 DEF FlushInv, Writing
<1> QED
  BY <1>4, <1>5, <1>6, <1>7, <1>8

\* write() starts a transfer if none is under way: of all the ring holds, unless
\* the interrupt has sent it already.
LEMMA StartStep ==
  ASSUME Types, OpenInv, BusyInv, IdleInv, FlushInv, Start, ~SentAlready,
         pTxBuffPtr + TxXferCount <= TxSize
  PROVE  /\ BusyInv' /\ IdleInv' /\ WriteInv' /\ FlushInv'
         /\ (pTxBuffPtr + TxXferCount <= TxSize)'
         /\ UNCHANGED <<tx_head, tx_tail>>
         /\ \/ UNCHANGED hal
            \/ gState # "BUSY_TX" /\ gState' = "BUSY_TX" /\ pTxBuffPtr' = tx_tail
            \/ gState # "BUSY_TX" /\ gState' # "BUSY_TX"
<1>t. TypeTx /\ TypeHal /\ TypeLocal
  BY DEF Types
<1>i. /\ tx_head \in 0 .. TxSize - 1 /\ tx_tail \in 0 .. TxSize - 1
      /\ chunk \in Nat /\ TxSize \in Nat
      /\ Remaining(tx_tail) = IF tx_head >= tx_tail THEN tx_head - tx_tail
                                                    ELSE TxSize + tx_head - tx_tail
  <2>1. /\ tx_head \in 0 .. TxSize - 1 /\ tx_tail \in 0 .. TxSize - 1
        /\ chunk \in Nat /\ TxSize \in Nat
    BY <1>t, SizeAssumption DEF TypeTx, TypeLocal
  <2> QED
    BY <1>t, <2>1, RemainingType
<1>1. /\ UNCHANGED <<tx_head, tx_tail, _written>> /\ StartTransfer
      /\ pc = "start" /\ pc' \in {"idle", "sample"}
  BY DEF Start, mode
<1>r. Remaining(tx_tail)' = Remaining(tx_tail)
  BY <1>1 DEF Remaining
<1>w. WriteInv'
  BY <1>1 DEF WriteInv
<1>f. FlushInv'
  BY <1>1 DEF FlushInv, Writing
<1>2. CASE gState = "BUSY_TX"
  <2>1. UNCHANGED <<tx_size, hal>>
    BY <1>1, <1>2 DEF StartTransfer
  <2>2. BusyInv' /\ IdleInv' /\ (pTxBuffPtr + TxXferCount <= TxSize)'
    BY <1>1, <1>2, <1>r, <2>1 DEF BusyInv, IdleInv, hal
  <2> QED
    BY <1>1, <1>w, <1>f, <2>1, <2>2
<1>3. CASE gState # "BUSY_TX"
  <2>1. gState = "READY"
    BY <1>t, <1>1, <1>3 DEF OpenInv, TypeHal
  <2>2. CASE chunk > 0
    <3>1. chunk = Remaining(tx_tail) /\ tx_tail + chunk <= TxSize
      BY <1>3, <2>2 DEF IdleInv, SentAlready
    <3>2. /\ gState' = "BUSY_TX" /\ pTxBuffPtr' = tx_tail /\ TxXferCount' = chunk
          /\ tx_size' = chunk
      BY <1>1, <1>3, <2>1, <2>2 DEF StartTransfer, TransmitIT
    <3>3. BusyInv' /\ IdleInv' /\ (pTxBuffPtr + TxXferCount <= TxSize)'
      BY <1>i, <1>1, <1>r, <2>2, <3>1, <3>2 DEF BusyInv, IdleInv
    <3> QED
      BY <1>1, <1>3, <1>w, <1>f, <3>2, <3>3
  <2>3. CASE chunk = 0
    <3>1. tx_head = tx_tail
      BY <1>i, <1>3, <2>3 DEF IdleInv
    <3>2. gState' = "READY" /\ UNCHANGED <<pTxBuffPtr, TxXferCount>>
      BY <1>1, <1>3, <2>1, <2>3 DEF StartTransfer, TransmitIT
    <3>3. BusyInv' /\ IdleInv' /\ (pTxBuffPtr + TxXferCount <= TxSize)'
      BY <1>1, <3>1, <3>2 DEF BusyInv, IdleInv
    <3> QED
      BY <1>1, <1>3, <1>w, <1>f, <3>2, <3>3
  <2> QED
    BY <1>i, <2>2, <2>3
<1> QED
  BY <1>2, <1>3

LEMMA TxStep ==
  Types /\ Types' /\ PartInv /\ DirInv /\ OpenInv /\ TxInv /\ [Next]_vars => TxInv'
<1> SUFFICES ASSUME Types, Types', PartInv, DirInv, OpenInv, TxInv, [Next]_vars, ~raced'
             PROVE  /\ BusyInv' /\ IdleInv' /\ WriteInv' /\ FlushInv'
                    /\ (pTxBuffPtr + TxXferCount <= TxSize)'
  BY DEF TxInv
<1>t. TypeTx /\ TypeHal /\ TypeLocal
  BY DEF Types
<1>o. ASSUME ~raced
      PROVE  /\ BusyInv /\ IdleInv /\ WriteInv /\ FlushInv
             /\ pTxBuffPtr + TxXferCount <= TxSize
  BY <1>o DEF TxInv
<1>a. /\ AvailableForWrite \in 0 .. TxSize - 1
      /\ TxSize \in Nat /\ tx_head \in 0 .. TxSize - 1 /\ tx_tail \in 0 .. TxSize - 1
      /\ (tx_head = tx_tail => Remaining(tx_tail) = 0)
  <2>1. TxSize \in Nat /\ tx_head \in 0 .. TxSize - 1 /\ tx_tail \in 0 .. TxSize - 1
    BY <1>t, SizeAssumption DEF TypeTx
  <2> QED
    BY <1>t, <2>1, AvailableType, RemainingType
\* A step that leaves ring and handle alone, ...
<1>k. ASSUME UNCHANGED <<tx_head, tx_tail, tx_size, hal>>, ~raced
      PROVE  /\ BusyInv' /\ (pTxBuffPtr + TxXferCount <= TxSize)'
             /\ pc # "start" => IdleInv'
             /\ pc' = pc /\ chunk' = chunk => IdleInv'
             /\ AvailableForWrite' = AvailableForWrite
             /\ Remaining(tx_tail)' = Remaining(tx_tail)
  <2>1. Remaining(tx_tail)' = Remaining(tx_tail) /\ AvailableForWrite' = AvailableForWrite
    BY <1>k DEF Remaining, AvailableForWrite
  <2> QED
    BY <1>k, <1>o, <2>1 DEF BusyInv, IdleInv, hal
\* ... and is not one of write().
<1>n. ASSUME UNCHANGED <<tx_head, tx_tail, tx_size, hal, _written>>, ~raced,
             pc \notin Writing, pc' \notin Writing,
             pc' \notin {"enable", "attach", "deinit"} \/ gState # "BUSY_TX"
      PROVE  /\ BusyInv' /\ IdleInv' /\ WriteInv' /\ FlushInv'
             /\ (pTxBuffPtr + TxXferCount <= TxSize)'
  BY <1>n, <1>k, <1>o DEF WriteInv, FlushInv, Writing, hal
<1>1. ASSUME NEW n \in 0 .. MaxWrite, CallWrite(n)
      PROVE  /\ BusyInv' /\ IdleInv' /\ WriteInv' /\ FlushInv'
             /\ (pTxBuffPtr + TxXferCount <= TxSize)'
  <2>1. /\ UNCHANGED <<tx_head, tx_tail, tx_size, pTxBuffPtr, TxXferCount, depth>>
        /\ available' = AvailableForWrite /\ till_end' = TxSize - tx_head
        /\ pc = "idle" /\ pc' = "wait" /\ _written' = TRUE /\ ~raced
    BY <1>1 DEF CallWrite, Sample, tx, hist
  <2>2. gState' = "BUSY_TX" <=> gState = "BUSY_TX"
    BY <1>1 DEF CallWrite, SwitchToTx, DirInv
  <2>3. Remaining(tx_tail)' = Remaining(tx_tail) /\ AvailableForWrite' = AvailableForWrite
    BY <2>1 DEF Remaining, AvailableForWrite
  <2>4. BusyInv' /\ IdleInv' /\ (pTxBuffPtr + TxXferCount <= TxSize)'
    BY <1>o, <2>1, <2>2, <2>3 DEF BusyInv, IdleInv
  <2>5. WriteInv'
    BY <1>a, <2>1, <2>3 DEF WriteInv, PartInv
  <2>6. FlushInv'
    BY <2>1 DEF FlushInv
  <2> QED
    BY <2>4, <2>5, <2>6
<1>2. CASE Wait
  BY <1>2, <1>k, <1>o DEF Wait, WriteInv, FlushInv, Writing, tx, hal, mode, wlocal, hist,
    Current
<1>3. CASE Split
  <2>1. /\ UNCHANGED <<tx_head, tx_tail, tx_size, hal, _written>> /\ ~raced
        /\ available' = AvailableForWrite /\ till_end' = TxSize - tx_head
        /\ pc = "split" /\ pc' = "wait" /\ part' = Piece
    BY <1>3 DEF Split, Sample, tx, mode, hist
  <2>2. available <= AvailableForWrite /\ till_end = TxSize - tx_head
    BY <1>o, <2>1 DEF WriteInv
  <2>3. Piece <= AvailableForWrite /\ Piece <= TxSize - tx_head
    BY <1>t, <1>a, <2>2 DEF Piece, TypeLocal
  <2>4. AvailableForWrite' = AvailableForWrite /\ BusyInv' /\ IdleInv'
        /\ (pTxBuffPtr + TxXferCount <= TxSize)'
    BY <1>k, <2>1
  <2>5. WriteInv'
    BY <1>a, <2>1, <2>3, <2>4 DEF WriteInv
  <2>6. FlushInv'
    BY <1>o, <2>1 DEF FlushInv, Writing, hal
  <2> QED
    BY <2>4, <2>5, <2>6
<1>4. CASE NoSplit
  <2>1. /\ UNCHANGED <<tx_head, tx_tail, tx_size, hal, _written, wlocal>> /\ ~raced
        /\ pc = "split" /\ pc' = "copy" /\ ~TooLarge
    BY <1>4 DEF NoSplit, tx, mode, hist
  <2>2. available <= AvailableForWrite /\ till_end = TxSize - tx_head
    BY <1>o, <2>1 DEF WriteInv
  <2>3. Current \in Nat /\ Current' = Current
    BY <1>t, <2>1 DEF Current, TypeLocal, wlocal
  <2>4. Current <= AvailableForWrite /\ tx_head + Current <= TxSize
    BY <1>t, <1>a, <2>1, <2>2, <2>3 DEF TooLarge, TypeLocal
  <2>5. AvailableForWrite' = AvailableForWrite /\ BusyInv' /\ IdleInv'
        /\ (pTxBuffPtr + TxXferCount <= TxSize)'
    BY <1>k, <2>1
  <2>6. WriteInv'
    BY <2>1, <2>3, <2>4, <2>5 DEF WriteInv
  <2>7. FlushInv'
    BY <1>o, <2>1 DEF FlushInv, Writing, hal
  <2> QED
    BY <2>5, <2>6, <2>7
<1>5. CASE Copy
  <2>1. /\ UNCHANGED <<tx_head, tx_tail, tx_size, hal, _written, depth, size, part>> /\ ~raced
        /\ pc = "copy" /\ pc' = "advance"
        /\ chunk' = IF tx_head + Current <= TxSize THEN Current ELSE TxSize - tx_head
    BY <1>5 DEF Copy, mode, hist
  <2>2. Current <= AvailableForWrite /\ tx_head + Current <= TxSize
    BY <1>o, <2>1 DEF WriteInv
  <2>3. Current' = Current
    BY <2>1 DEF Current
  <2>4. AvailableForWrite' = AvailableForWrite /\ BusyInv' /\ IdleInv'
        /\ (pTxBuffPtr + TxXferCount <= TxSize)'
    BY <1>k, <2>1
  <2>5. WriteInv'
    BY <2>1, <2>2, <2>3, <2>4 DEF WriteInv
  <2>6. FlushInv'
    BY <1>o, <2>1 DEF FlushInv, Writing, hal
  <2> QED
    BY <2>4, <2>5, <2>6
<1>6. CASE Advance
  <2>1. ~raced /\ UNCHANGED <<pTxBuffPtr, TxXferCount>>
    BY <1>6 DEF Advance, hal
  <2> QED
    BY <1>6, <1>o, <2>1, AdvanceStep
<1>7. CASE Start
  <2>1. ~raced /\ ~SentAlready
    BY <1>7 DEF Start
  <2> QED
    BY <1>7, <1>o, <2>1, StartStep
<1>8. CASE SampleAgain
  <2>1. /\ UNCHANGED <<tx_head, tx_tail, tx_size, hal, _written, depth>> /\ ~raced
        /\ available' = AvailableForWrite /\ till_end' = TxSize - tx_head
        /\ pc = "sample" /\ pc' = "split"
    BY <1>8 DEF SampleAgain, Sample, tx, mode, hist
  <2>2. AvailableForWrite' = AvailableForWrite /\ BusyInv' /\ IdleInv'
        /\ (pTxBuffPtr + TxXferCount <= TxSize)'
    BY <1>k, <2>1
  <2>3. WriteInv'
    BY <1>a, <2>1, <2>2 DEF WriteInv, PartInv
  <2>4. FlushInv'
    BY <1>o, <2>1 DEF FlushInv, Writing, hal
  <2> QED
    BY <2>2, <2>3, <2>4
<1>9. CASE CallFlush \/ CallRead \/ CallEnd \/ Test \/ Fetch \/ Consume
  BY <1>9, <1>n DEF CallFlush, CallRead, CallEnd, Test, Fetch, Consume, GoFlush, tx, mode,
    hist, Writing
<1>10. CASE FlushReturn
  <2>1. /\ UNCHANGED <<tx_head, tx_tail, tx_size, hal, _written>> /\ ~raced
        /\ pc = "flush" /\ pc' \in Calls /\ (~_written \/ tx_head = tx_tail)
    BY <1>10, <1>t DEF FlushReturn, Flushed, tx, mode, hist, TypeLocal
  <2>2. gState # "BUSY_TX"
    BY <1>t, <1>o, <1>a, <2>1 DEF FlushInv, BusyInv, TypeTx
  <2> QED
    BY <1>n, <2>1, <2>2 DEF Calls, Writing
<1>11. CASE EnableRx \/ Attach
  <2>1. /\ UNCHANGED <<tx_head, tx_tail, tx_size, pTxBuffPtr, TxXferCount, _written>>
        /\ ~raced /\ pc \in {"enable", "attach"} /\ pc' \in {"test", "idle"}
        /\ SwitchToRx
    BY <1>11 DEF EnableRx, Attach, tx, hist
  <2>2. gState # "BUSY_TX" /\ gState' # "BUSY_TX"
    BY <1>o, <2>1 DEF FlushInv, SwitchToRx
  <2>3. tx_head = tx_tail
    BY <1>o, <2>1, <2>2 DEF IdleInv
  <2> QED
    BY <1>o, <2>1, <2>2, <2>3 DEF BusyInv, IdleInv, WriteInv, FlushInv, Writing
<1>12. CASE CallBegin \/ Deinit
  <2>1. /\ UNCHANGED <<tx_head, tx_tail, tx_size, pTxBuffPtr, TxXferCount, _written>>
        /\ ~raced /\ pc \in {"closed", "deinit"} /\ pc' \in {"flush", "attach", "closed"}
        /\ gState' # "BUSY_TX"
    BY <1>12 DEF CallBegin, Deinit, GoFlush, tx, hist
  <2>2. gState # "BUSY_TX"
    BY <1>o, <2>1 DEF FlushInv, OpenInv
  <2>3. tx_head = tx_tail
    BY <1>o, <2>1, <2>2 DEF IdleInv
  <2> QED
    BY <1>o, <2>1, <2>2, <2>3 DEF BusyInv, IdleInv, WriteInv, FlushInv, Writing
<1>13. CASE TxISR
  <2>1. /\ UNCHANGED <<tx_head, tx_tail, tx_size, gState, pc, wlocal, _written>> /\ ~raced
        /\ gState = "BUSY_TX" /\ TxXferCount > 0
        /\ pTxBuffPtr' = pTxBuffPtr + 1 /\ TxXferCount' = TxXferCount - 1
    BY <1>13 DEF TxISR, tx, mode
  <2>2. pTxBuffPtr' + TxXferCount' = pTxBuffPtr + TxXferCount
        /\ TxXferCount' <= TxXferCount /\ TxXferCount' \in Nat
    BY <1>t, <2>1 DEF TypeHal
  <2>3. Remaining(tx_tail)' = Remaining(tx_tail) /\ AvailableForWrite' = AvailableForWrite
        /\ Current' = Current
    BY <2>1 DEF Remaining, AvailableForWrite, Current, wlocal
  <2>4. BusyInv' /\ (pTxBuffPtr + TxXferCount <= TxSize)'
    BY <1>t, <1>o, <2>1, <2>2, <2>3 DEF BusyInv, TypeHal, TypeTx
  <2>5. IdleInv' /\ WriteInv' /\ FlushInv'
    BY <1>o, <2>1, <2>3 DEF IdleInv, WriteInv, FlushInv, wlocal
  <2> QED
    BY <2>4, <2>5
<1>14. CASE TxComplete
  <2>1. ~raced
    BY <1>14 DEF TxComplete, hist
  <2> QED
    BY <1>14, <1>o, <2>1, TxCompleteStep
<1>15. CASE RxByte \/ RxDrop \/ UNCHANGED vars
  <2>1. UNCHANGED <<tx, hal, mode, pc, wlocal, raced>>
    BY <1>15 DEF RxByte, RxDrop, vars, hist
  <2>2. Current' = Current
    BY <2>1 DEF Current, wlocal
  <2>3. ~raced /\ UNCHANGED <<tx_head, tx_tail, tx_size, hal, chunk>>
    BY <2>1 DEF tx, wlocal
  <2> QED
    BY <1>k, <1>o, <2>1, <2>2, <2>3 DEF WriteInv, FlushInv, hal, mode, wlocal
<1> QED
  BY <1>1, <1>2, <1>3, <1>4, <1>5, <1>6, <1>7, <1>8, <1>9, <1>10, <1>11, <1>12, <1>13,
    <1>14, <1>15 DEF Next, Main, Write, Read, Uart

LEMMA TxInvariant == Spec => [](Types /\ PartInv /\ DirInv /\ OpenInv /\ TxInv)
<1>1. Init => DirInv /\ OpenInv
  BY DEF Init, DirInv, OpenInv, Writing
<1> QED
  BY <1>1, TxInit, TxStep, DirStep, OpenStep, TypeInvariant, PTL DEF Spec

\* Types: the positions stay in the rings, and what the HAL is given in the
\* transmit ring.
THEOREM TypeCorrect == Spec => []TypeOK
<1>1. Types /\ TxInv => TypeOK
  BY DEF Types, TxInv, TypeOK
<1> QED
  BY <1>1, TxInvariant, PTL

\* Until write() has lost the race with the interrupt, it calls itself at most
\* once: the inner call always finds the room the outer one has seen.
THEOREM InnerCallFits == Spec => []NestedOnce
<1>1. Types /\ TxInv => NestedOnce
  <2> SUFFICES ASSUME Types, TxInv, ~raced, pc = "split", depth = 1 PROVE ~TooLarge
    BY DEF NestedOnce
  <2>1. part <= available /\ part <= till_end
    BY DEF TxInv, WriteInv
  <2> QED
    BY <2>1 DEF TooLarge, Current, Types, TypeLocal
<1> QED
  BY <1>1, TxInvariant, PTL

\* Until then no byte stays behind either: the transmitter is idle only with an
\* empty ring, however write() and the interrupt share the starting of transfers.
THEOREM NoByteStranded == Spec => []NothingStranded
<1>1. TxInv => NothingStranded
  BY DEF TxInv, IdleInv, NothingStranded
<1> QED
  BY <1>1, TxInvariant, PTL

-----------------------------------------------------------------------------
(* The transmit ring: what it holds.                                       *)

\* The places that hold bytes of the stream: those behind the head too once write()
\* has copied them there.
Filled == IF pc = "advance" THEN TxLeft + Current ELSE TxLeft

\* The bytes between the wire and the head are the ones accepted and not yet sent.
TxContents ==
  ~raced => /\ accepted = wired + TxLeft
            /\ Filled <= TxSize - 1
            /\ RingHolds(TxSize, tx_buff, TxFrom, Filled, wired)

\* Where the HAL is, and what is left from there.
LEMMA TxFromCases ==
  ASSUME Types, BusyInv
  PROVE  /\ TxFrom \in 0 .. TxSize - 1 /\ TxLeft \in 0 .. TxSize - 1
         /\ TxLeft <= Remaining(tx_tail)
         /\ gState = "BUSY_TX" =>
              /\ TxFrom = IF pTxBuffPtr = TxSize THEN 0 ELSE pTxBuffPtr
              /\ TxXferCount <= TxLeft
<1>t. /\ TypeTx /\ TxSize \in Nat \ {0, 1} /\ tx_head \in 0 .. TxSize - 1
      /\ tx_tail \in 0 .. TxSize - 1 /\ tx_size \in Nat
      /\ pTxBuffPtr \in Nat /\ TxXferCount \in Nat
  BY SizeAssumption DEF Types, TypeTx, TypeHal
<1>r. Remaining(tx_tail) \in 0 .. TxSize - 1
  BY <1>t, RemainingType
<1>1. CASE gState # "BUSY_TX"
  BY <1>t, <1>r, <1>1 DEF TxFrom, TxLeft
<1>2. CASE gState = "BUSY_TX"
  <2>1. /\ tx_tail + tx_size <= TxSize /\ tx_size <= Remaining(tx_tail)
        /\ pTxBuffPtr + TxXferCount = tx_tail + tx_size /\ TxXferCount <= tx_size
    BY <1>2 DEF BusyInv
  <2>2. PICK k \in Nat : k = tx_size - TxXferCount
    BY <1>t, <2>1
  <2>3. tx_tail + k = pTxBuffPtr /\ tx_tail + k <= TxSize /\ k <= Remaining(tx_tail)
    BY <1>t, <1>r, <2>1, <2>2
  <2>4. /\ (tx_tail + k) % TxSize = IF tx_tail + k = TxSize THEN 0 ELSE tx_tail + k
        /\ (tx_tail + k) % TxSize \in 0 .. TxSize - 1
        /\ Ring(TxSize, (tx_tail + k) % TxSize, tx_head)
             = Ring(TxSize, tx_tail, tx_head) - k
    BY <1>t, <2>3, RingShrinks DEF Remaining
  <2>5. TxFrom = (tx_tail + k) % TxSize
    BY <1>2, <2>3 DEF TxFrom
  <2>6. TxLeft = Remaining(tx_tail) - k
    BY <2>4, <2>5 DEF TxLeft, Remaining
  <2> QED
    BY <1>t, <1>r, <2>1, <2>2, <2>3, <2>4, <2>5, <2>6
<1> QED
  BY <1>1, <1>2

\* What a step does to the bytes between write() and the wire.
TxEffect ==
  \/ raced'
  \/ ~raced /\ (\E n \in Nat : accepted' = accepted + n /\ wired' = wired)
  \/ ~raced /\ wired' = wired + 1 /\ accepted' = accepted
  \/ ~raced /\ UNCHANGED <<accepted, wired>>

\* The UART sends the oldest byte.
LEMMA SendStep ==
  ASSUME Types, BusyInv, TxContents, ~raced, TxISR
  PROVE  TxContents' /\ TxEffect
<1>t. /\ TxSize \in Nat \ {0, 1} /\ tx_head \in 0 .. TxSize - 1
      /\ pTxBuffPtr \in Nat /\ TxXferCount \in Nat /\ wired \in Nat /\ accepted \in Nat
      /\ tx_tail \in Nat /\ tx_size \in Nat
      /\ tx_buff \in [0 .. TxSize - 1 -> Nat]
      /\ Current \in Nat
  BY SizeAssumption DEF Types, TypeTx, TypeHal, TypeHist, TypeLocal, Current
<1>1. /\ UNCHANGED <<tx_head, tx_buff, gState, pc, wlocal, accepted, raced>>
      /\ gState = "BUSY_TX" /\ TxXferCount > 0
      /\ pTxBuffPtr' = pTxBuffPtr + 1 /\ wired' = wired + 1
  BY DEF TxISR, tx
<1>2. /\ TxFrom \in 0 .. TxSize - 1 /\ TxLeft \in 0 .. TxSize - 1
      /\ TxFrom = (IF pTxBuffPtr = TxSize THEN 0 ELSE pTxBuffPtr)
      /\ TxXferCount <= TxLeft
  BY <1>1, TxFromCases
<1>3. TxFrom = pTxBuffPtr
  BY <1>t, <1>1, <1>2 DEF BusyInv
<1>4. TxFrom' = (TxFrom + 1) % TxSize
  BY <1>1, <1>3 DEF TxFrom
<1>5. TxLeft' = TxLeft - 1
  <2>1. TxFrom + 1 <= TxSize /\ 1 <= Ring(TxSize, TxFrom, tx_head) /\ 1 \in Nat
    BY <1>t, <1>1, <1>2 DEF TxLeft, Remaining
  <2>2. Ring(TxSize, (TxFrom + 1) % TxSize, tx_head) = Ring(TxSize, TxFrom, tx_head) - 1
    BY <1>t, <1>2, <2>1, RingShrinks
  <2> QED
    BY <1>1, <1>4, <2>2 DEF TxLeft, Remaining
<1>6. Current' = Current
  BY <1>1 DEF Current, wlocal
<1>7. /\ accepted = wired + TxLeft /\ Filled <= TxSize - 1
      /\ RingHolds(TxSize, tx_buff, TxFrom, Filled, wired)
  BY DEF TxContents
<1>8. Filled' = Filled - 1 /\ Filled \in 1 .. TxSize - 1
  BY <1>t, <1>1, <1>2, <1>5, <1>6, <1>7 DEF Filled
<1>9. RingHolds(TxSize, tx_buff, (TxFrom + 1) % TxSize, Filled - 1, wired + 1)
  BY <1>t, <1>2, <1>7, <1>8, HoldsNext
<1>10. RingHolds(TxSize, tx_buff, TxFrom, Filled, wired)'
  BY <1>1, <1>4, <1>8, <1>9 DEF RingHolds
<1> QED
  BY <1>t, <1>1, <1>2, <1>5, <1>7, <1>8, <1>10 DEF TxContents, TxEffect

\* write() copies bytes behind the head: not over bytes that are still to be sent.
LEMMA CopyStep ==
  ASSUME Types, BusyInv, WriteInv, TxContents, ~raced, Copy
  PROVE  TxContents' /\ TxEffect
<1>t. /\ TypeTx /\ TxSize \in Nat \ {0, 1} /\ tx_head \in 0 .. TxSize - 1
      /\ wired \in Nat /\ tx_buff \in [0 .. TxSize - 1 -> Nat]
      /\ Current \in Nat /\ tx_tail \in 0 .. TxSize - 1
  BY SizeAssumption DEF Types, TypeTx, TypeHist, TypeLocal, Current
<1>1. /\ UNCHANGED <<tx_head, tx_tail, hal, depth, size, part, accepted, wired, raced>>
      /\ pc = "copy" /\ pc' = "advance"
      /\ tx_buff' = [i \in DOMAIN tx_buff |->
                       IF Ring(TxSize, tx_head, i) < Current
                       THEN accepted + 1 + Ring(TxSize, tx_head, i) ELSE tx_buff[i]]
  BY DEF Copy, hist
<1>2. /\ TxFrom \in 0 .. TxSize - 1 /\ TxLeft \in 0 .. TxSize - 1
      /\ TxLeft <= Remaining(tx_tail) /\ Remaining(tx_tail) \in 0 .. TxSize - 1
      /\ AvailableForWrite = TxSize - 1 - Remaining(tx_tail)
  BY <1>t, TxFromCases, AvailableType, RemainingType
<1>3. TxFrom' = TxFrom /\ Current' = Current
  BY <1>1 DEF TxFrom, Current, hal
<1>4. TxLeft' = TxLeft
  BY <1>1, <1>3 DEF TxLeft, Remaining
<1>5. accepted = wired + TxLeft /\ RingHolds(TxSize, tx_buff, TxFrom, TxLeft, wired)
  BY <1>1 DEF TxContents, Filled
<1>6. TxLeft + Current <= TxSize - 1
  <2>1. Current <= AvailableForWrite
    BY <1>1 DEF WriteInv
  <2> QED
    BY <1>t, <1>2, <2>1
<1>7. RingHolds(TxSize, tx_buff', TxFrom, TxLeft + Current, wired)
  <2>1. tx_buff' = [i \in 0 .. TxSize - 1 |->
                      IF Ring(TxSize, tx_head, i) < Current
                      THEN (wired + Ring(TxSize, TxFrom, tx_head)) + 1
                             + Ring(TxSize, tx_head, i)
                      ELSE tx_buff[i]]
    BY <1>t, <1>1, <1>5 DEF TxLeft, Remaining
  <2>2. /\ Ring(TxSize, TxFrom, tx_head) + Current <= TxSize - 1
        /\ RingHolds(TxSize, tx_buff, TxFrom, Ring(TxSize, TxFrom, tx_head), wired)
    BY <1>5, <1>6 DEF TxLeft, Remaining
  <2>3. RingHolds(TxSize, tx_buff', TxFrom, Ring(TxSize, TxFrom, tx_head) + Current, wired)
    BY <1>t, <1>2, <2>1, <2>2, HoldsMore
  <2> QED
    BY <2>3 DEF TxLeft, Remaining
<1>8. Filled' = TxLeft + Current
  BY <1>1, <1>3, <1>4 DEF Filled
<1>9. RingHolds(TxSize, tx_buff, TxFrom, Filled, wired)'
  BY <1>1, <1>3, <1>7, <1>8 DEF RingHolds
<1> QED
  BY <1>1, <1>4, <1>5, <1>6, <1>8, <1>9 DEF TxContents, TxEffect

\* The head moves behind the bytes that were copied: they are accepted.
LEMMA AcceptStep ==
  ASSUME Types, BusyInv, WriteInv, TxContents, ~raced, Advance
  PROVE  TxContents' /\ TxEffect
<1>t. /\ TxSize \in Nat \ {0, 1} /\ tx_head \in 0 .. TxSize - 1
      /\ wired \in Nat /\ accepted \in Nat /\ Current \in Nat
  BY SizeAssumption DEF Types, TypeTx, TypeHist, TypeLocal, Current
<1>1. /\ UNCHANGED <<tx_buff, tx_tail, hal, wired, raced>>
      /\ pc = "advance" /\ pc' = "start"
      /\ tx_head' = (tx_head + Current) % TxSize /\ accepted' = accepted + Current
  BY DEF Advance
<1>2. TxFrom \in 0 .. TxSize - 1 /\ TxLeft \in 0 .. TxSize - 1
  BY TxFromCases
<1>3. TxFrom' = TxFrom
  BY <1>1 DEF TxFrom, hal
<1>4. /\ accepted = wired + TxLeft /\ TxLeft + Current <= TxSize - 1
      /\ RingHolds(TxSize, tx_buff, TxFrom, TxLeft + Current, wired)
  BY <1>1 DEF TxContents, Filled
<1>5. TxLeft' = TxLeft + Current
  <2>1. tx_head + Current <= TxSize
    BY <1>1 DEF WriteInv
  <2>2. Current <= TxSize - 1 - Ring(TxSize, TxFrom, tx_head)
    BY <1>t, <1>2, <1>4 DEF TxLeft, Remaining
  <2>3. Ring(TxSize, TxFrom, (tx_head + Current) % TxSize)
          = Ring(TxSize, TxFrom, tx_head) + Current
    BY <1>t, <1>2, <2>1, <2>2, RingGrows
  <2> QED
    BY <1>1, <1>3, <2>3 DEF TxLeft, Remaining
<1>6. Filled' = TxLeft + Current
  BY <1>1, <1>5 DEF Filled
<1>7. RingHolds(TxSize, tx_buff, TxFrom, Filled, wired)'
  BY <1>1, <1>3, <1>4, <1>6 DEF RingHolds
<1> QED
  BY <1>t, <1>1, <1>2, <1>4, <1>5, <1>6, <1>7 DEF TxContents, TxEffect

LEMMA ContentsStep ==
  /\ Types /\ Types' /\ PartInv /\ DirInv /\ OpenInv /\ TxInv /\ TxContents
  /\ [Next]_vars
  => TxContents' /\ TxEffect
<1> SUFFICES ASSUME Types, Types', PartInv, DirInv, OpenInv, TxInv, TxContents, [Next]_vars,
                    ~raced'
             PROVE  TxContents' /\ TxEffect
  BY DEF TxContents, TxEffect
<1>o. ASSUME ~raced
      PROVE  /\ BusyInv /\ IdleInv /\ WriteInv /\ FlushInv
             /\ pTxBuffPtr + TxXferCount <= TxSize
  BY <1>o DEF TxInv
\* A step that leaves the bytes and the place of the next one alone.
<1>u. ASSUME UNCHANGED <<tx_buff, tx_head, accepted, wired>>, ~raced, TxFrom' = TxFrom,
             \/ UNCHANGED <<pc, wlocal>>
             \/ pc # "advance" /\ pc' # "advance"
      PROVE  TxContents' /\ TxEffect
  <2>1. TxLeft' = TxLeft
    BY <1>u DEF TxLeft, Remaining
  <2>2. Filled' = Filled
    BY <1>u, <2>1 DEF Filled, Current, wlocal
  <2>3. RingHolds(TxSize, tx_buff, TxFrom, Filled, wired)' <=>
          RingHolds(TxSize, tx_buff, TxFrom, Filled, wired)
    BY <1>u, <2>2 DEF RingHolds
  <2> QED
    BY <1>u, <2>1, <2>2, <2>3 DEF TxContents, TxEffect
<1>h. UNCHANGED hal /\ tx_tail' = tx_tail => TxFrom' = TxFrom
  BY DEF TxFrom, hal
<1>1. CASE \E n \in 0 .. MaxWrite : CallWrite(n)
  <2>1. UNCHANGED <<tx_buff, tx_head, tx_tail, pTxBuffPtr, accepted, wired>> /\ ~raced
        /\ pc # "advance" /\ pc' # "advance"
    BY <1>1 DEF CallWrite, tx, hist
  <2>2. gState' = "BUSY_TX" <=> gState = "BUSY_TX"
    BY <1>1 DEF CallWrite, SwitchToTx, DirInv
  <2>3. TxFrom' = TxFrom
    BY <2>1, <2>2 DEF TxFrom
  <2> QED
    BY <1>u, <2>1, <2>3
<1>2. CASE Wait \/ Split \/ NoSplit \/ SampleAgain
  BY <1>2, <1>u, <1>h DEF Wait, Split, NoSplit, SampleAgain, tx, hist
<1>3. CASE Copy
  BY <1>3, <1>o, CopyStep DEF Copy, hist
<1>4. CASE Advance
  BY <1>4, <1>o, AcceptStep DEF Advance
<1>5. CASE Start
  <2>1. /\ UNCHANGED <<tx_buff, tx_head, tx_tail, accepted, wired>> /\ ~raced
        /\ pc # "advance" /\ pc' # "advance" /\ ~SentAlready
    BY <1>5 DEF Start
  <2>2. \/ UNCHANGED hal
        \/ gState # "BUSY_TX" /\ gState' = "BUSY_TX" /\ pTxBuffPtr' = tx_tail
        \/ gState # "BUSY_TX" /\ gState' # "BUSY_TX"
    BY <1>5, <1>o, <2>1, StartStep
  <2>3. tx_tail % TxSize = tx_tail
    BY SizeAssumption, ModSmall DEF Types, TypeTx
  <2>4. TxFrom' = TxFrom
    BY <1>h, <2>1, <2>2, <2>3 DEF TxFrom
  <2> QED
    BY <1>u, <2>1, <2>4
<1>6. CASE CallFlush \/ CallRead \/ CallEnd \/ Test \/ Fetch \/ Consume
  BY <1>6, <1>u, <1>h DEF CallFlush, CallRead, CallEnd, Test, Fetch, Consume, GoFlush, tx, hist
<1>7. CASE FlushReturn
  <2>1. pc' # "advance"
    BY <1>7 DEF FlushReturn, Types, TypeLocal, Calls
  <2> QED
    BY <1>7, <1>u, <1>h, <2>1 DEF FlushReturn, tx, hist
<1>8. CASE EnableRx \/ Attach \/ CallBegin \/ Deinit
  <2>1. /\ UNCHANGED <<tx_buff, tx_head, tx_tail, accepted, wired>> /\ ~raced
        /\ pc \in {"enable", "attach", "closed", "deinit"} /\ pc' # "advance"
        /\ gState' \in {gState, "READY", "RESET"}
    BY <1>8 DEF EnableRx, Attach, CallBegin, Deinit, GoFlush, SwitchToRx, tx, hist
  <2>2. gState # "BUSY_TX"
    BY <1>o, <2>1 DEF FlushInv, OpenInv
  <2>3. TxFrom' = TxFrom
    BY <2>1, <2>2 DEF TxFrom
  <2> QED
    BY <1>u, <2>1, <2>3
<1>9. CASE TxISR
  BY <1>9, <1>o, SendStep DEF TxISR
<1>10. CASE TxComplete
  <2>1. /\ UNCHANGED <<tx_buff, tx_head, accepted, wired, pc, wlocal>> /\ ~raced
        /\ gState = "BUSY_TX" /\ TxXferCount = 0
    BY <1>10 DEF TxComplete, hist
  <2>2. /\ tx_tail' = IF tx_tail + tx_size = TxSize THEN 0 ELSE tx_tail + tx_size
        /\ gState' = "BUSY_TX" => pTxBuffPtr' = tx_tail'
    BY <1>10, <1>o, <2>1, TxCompleteStep
  <2>3. TxFrom = IF pTxBuffPtr = TxSize THEN 0 ELSE pTxBuffPtr
    BY <1>o, <2>1, TxFromCases
  <2>4. pTxBuffPtr = tx_tail + tx_size
    BY <1>o, <2>1 DEF BusyInv, Types, TypeHal
  <2>5. tx_tail' % TxSize = tx_tail'
    BY SizeAssumption, ModSmall DEF Types, TypeTx
  <2>6. TxFrom' = tx_tail'
    BY <2>2, <2>5 DEF TxFrom
  <2> QED
    BY <1>u, <2>1, <2>2, <2>3, <2>4, <2>6
<1>11. CASE RxByte \/ RxDrop \/ UNCHANGED vars
  BY <1>11, <1>u, <1>h DEF RxByte, RxDrop, vars, tx, hist
<1> QED
  BY <1>1, <1>2, <1>3, <1>4, <1>5, <1>6, <1>7, <1>8, <1>9, <1>10, <1>11
    DEF Next, Main, Write, Read, Uart

LEMMA ContentsInit == Init => TxContents
<1> SUFFICES ASSUME Init PROVE TxContents
  OBVIOUS
<1>1. Types /\ tx_head = 0 /\ TxFrom = 0
  BY TypeInit DEF Init, TxFrom
<1>2. TxLeft = 0
  <2>1. TypeTx /\ 0 \in 0 .. TxSize - 1
    BY <1>1, SizeAssumption DEF Types
  <2> QED
    BY <1>1, <2>1, RemainingType DEF TxLeft
<1>3. Filled = 0
  BY <1>2 DEF Init, Filled
<1>4. ASSUME NEW i \in 0 .. TxSize - 1 PROVE Ring(TxSize, 0, i) \in 0 .. TxSize - 1
  BY SizeAssumption, RingCases
<1>5. RingHolds(TxSize, tx_buff, TxFrom, 0, wired)
  BY <1>1, <1>4 DEF RingHolds
<1> QED
  BY <1>2, <1>3, <1>5, SizeAssumption DEF TxContents, Init

LEMMA ContentsInvariant ==
  Spec => [](Types /\ PartInv /\ DirInv /\ OpenInv /\ TxInv /\ TxContents)
BY ContentsInit, ContentsStep, TxInvariant, PTL DEF Spec

-----------------------------------------------------------------------------
(* The transmit ring implements the pipe.                                  *)

TxPipeInv ==
  ~raced => /\ accepted \in Nat /\ wired \in Nat /\ wired <= accepted
            /\ accepted - wired <= TxSize - 1
            /\ TxChan = Bytes(wired, accepted - wired)

LEMMA TxChanBytes == Types /\ TxInv /\ TxContents => TxPipeInv
<1> SUFFICES ASSUME Types, TxInv, TxContents, ~raced
             PROVE  /\ accepted \in Nat /\ wired \in Nat /\ wired <= accepted
                    /\ accepted - wired <= TxSize - 1
                    /\ TxChan = Bytes(wired, accepted - wired)
  BY DEF TxPipeInv
<1>1. /\ accepted \in Nat /\ wired \in Nat /\ TxSize \in Nat \ {0}
      /\ tx_buff \in [0 .. TxSize - 1 -> Nat] /\ Current \in Nat
  BY SizeAssumption DEF Types, TypeTx, TypeHist, TypeLocal, Current
<1>2. TxFrom \in 0 .. TxSize - 1 /\ TxLeft \in 0 .. TxSize - 1
  BY TxFromCases DEF TxInv
<1>3. accepted = wired + TxLeft /\ TxLeft <= Filled
  BY <1>1, <1>2 DEF TxContents, Filled
<1>4. RingHolds(TxSize, tx_buff, TxFrom, TxLeft, wired)
  <2>1. ASSUME NEW i \in 0 .. TxSize - 1, Ring(TxSize, TxFrom, i) < TxLeft
        PROVE  tx_buff[i] = wired + 1 + Ring(TxSize, TxFrom, i)
    <3>1. Ring(TxSize, TxFrom, i) \in 0 .. TxSize - 1
      BY <1>1, <1>2, RingCases
    <3>2. Filled \in Nat
      BY <1>1, <1>2 DEF Filled
    <3>3. Ring(TxSize, TxFrom, i) < Filled
      BY <1>2, <1>3, <2>1, <3>1, <3>2
    <3> QED
      BY <3>3 DEF TxContents, RingHolds
  <2> QED
    BY <2>1 DEF RingHolds
<1>5. \A k \in 1 .. TxLeft : tx_buff[(TxFrom + k - 1) % TxSize] = wired + k
  BY <1>1, <1>2, <1>4, RingRun
<1>6. TxChan = Bytes(wired, TxLeft)
  BY <1>1, <1>2, <1>5 DEF TxChan, Bytes
<1>7. TxLeft = accepted - wired
  BY <1>1, <1>2, <1>3
<1> QED
  BY <1>1, <1>2, <1>3, <1>6, <1>7

LEMMA TxPipeStep ==
  Types /\ Types' /\ TxPipeInv /\ TxPipeInv' /\ TxEffect => [TxPipe!Next]_(TxPipe!vars)
<1> SUFFICES ASSUME TxPipeInv, TxPipeInv', TxEffect, ~raced, ~raced'
             PROVE  TxPipe!Work \/ UNCHANGED <<accepted, wired, TxChan>>
  <2> SUFFICES ASSUME Types, Types', TxPipeInv, TxPipeInv', TxEffect
               PROVE  [TxPipe!Next]_(TxPipe!vars)
    OBVIOUS
  <2>1. CASE raced'
    BY <2>1 DEF TxPipe!Next, TxPipe!Break
  <2>2. CASE ~raced'
    <3>1. ~raced
      BY <2>2 DEF TxEffect
    <3>2. raced' = raced
      <4>1. raced \in BOOLEAN /\ raced' \in BOOLEAN
        BY DEF Types, TypeMode
      <4>2. raced = FALSE
        BY <3>1, <4>1, Zenon
      <4>3. raced' = FALSE
        BY <2>2, <4>1, Zenon
      <4> QED
        BY <4>2, <4>3, Zenon
    <3>3. TxPipe!Work \/ UNCHANGED <<accepted, wired, TxChan>>
      BY <2>2, <3>1
    <3>4. CASE TxPipe!Work
      BY <2>2, <3>1, <3>4 DEF TxPipe!Next
    <3>5. CASE UNCHANGED <<accepted, wired, TxChan>>
      BY <3>2, <3>5 DEF TxPipe!vars
    <3> QED
      BY <3>3, <3>4, <3>5
  <2> QED
    BY <2>1, <2>2
<1>1. /\ accepted \in Nat /\ wired \in Nat /\ wired <= accepted
      /\ accepted - wired <= TxSize - 1
      /\ TxChan = Bytes(wired, accepted - wired)
  BY DEF TxPipeInv
<1>2. /\ accepted' \in Nat /\ wired' \in Nat /\ wired' <= accepted'
      /\ accepted' - wired' <= TxSize - 1
      /\ TxChan' = Bytes(wired', accepted' - wired')
  BY DEF TxPipeInv
<1>3. accepted - wired \in Nat /\ Len(TxChan) = accepted - wired
  <2>1. accepted - wired \in Nat
    BY <1>1
  <2> QED
    BY <1>1, <2>1, BytesSeq
<1>4. ASSUME NEW n \in Nat, n # 0, accepted' = accepted + n, wired' = wired
      PROVE  TxPipe!Work
  <2>1. TxChan' = TxChan \o Bytes(accepted, n)
    BY <1>1, <1>2, <1>4, RunGrows
  <2>2. TxPipe!Accept(n)
    BY <1>1, <1>2, <1>3, <1>4, <2>1 DEF TxPipe!Accept, TxPipe!Run, Bytes
  <2>3. n \in 1 .. TxSize - 1
    BY <1>1, <1>2, <1>4, SizeAssumption
  <2> QED
    BY <2>2, <2>3 DEF TxPipe!Work
<1>5. CASE wired' = wired + 1 /\ accepted' = accepted
  <2>1. wired + 1 <= accepted
    BY <1>2, <1>5
  <2>2. /\ SubSeq(TxChan, 1, 1) = Bytes(wired, 1)
        /\ TxChan' = SubSeq(TxChan, 1 + 1, accepted - wired)
    <3>1. /\ SubSeq(Bytes(wired, accepted - wired), 1, 1) = Bytes(wired, 1)
          /\ Bytes(wired + 1, accepted - (wired + 1))
               = SubSeq(Bytes(wired, accepted - wired), 1 + 1, accepted - wired)
      BY <1>1, <2>1, RunShrinks
    <3> QED
      BY <1>1, <1>2, <1>5, <3>1
  <2>3. TxPipe!Deliver(1)
    BY <1>1, <1>2, <1>3, <1>5, <2>2 DEF TxPipe!Deliver, TxPipe!Run, Bytes
  <2>4. 1 \in 1 .. TxSize - 1
    BY <1>1, <2>1, SizeAssumption
  <2> QED
    BY <2>3, <2>4 DEF TxPipe!Work
<1>6. CASE UNCHANGED <<accepted, wired>>
  BY <1>1, <1>2, <1>6
<1> QED
  BY <1>1, <1>4, <1>5, <1>6 DEF TxEffect

\* The transmit ring implements the pipe of ByteStream for every size of the
\* ring: whichever of write() and the transfer-complete callback starts the next
\* transfer, and wherever a write is split, the wire carries the bytes written,
\* each once and in order. The pipe breaks, and the claim with it, only where the
\* two starters race.
THEOREM TransmitImplementsPipe == Spec => TxImplementsPipe
<1>1. Init => TxPipe!Init
  <2> SUFFICES ASSUME Init PROVE TxPipe!Init
    OBVIOUS
  <2>1. accepted = 0 /\ wired = 0 /\ raced = FALSE
    BY DEF Init
  <2>2. TxPipeInv
    BY TypeInit, TxInit, ContentsInit, TxChanBytes
  <2>3. TxChan = <<>>
    BY <2>1, <2>2, NoBytes DEF TxPipeInv
  <2> QED
    BY <2>1, <2>3 DEF TxPipe!Init
<1> QED
  BY <1>1, TxPipeStep, ContentsInvariant, TxChanBytes, ContentsStep, PTL
    DEF Spec, TxImplementsPipe, TxPipe!Spec
=============================================================================
