---------------------------- MODULE CdcTx_proofs ----------------------------
(***************************************************************************)
(* Proofs about CdcTx, for every packet size and every bound: types, the   *)
(* queue and the block under transfer, who starts the next transfer, the   *)
(* short packet at the end of each, and the refinement of ByteStream.      *)
(***************************************************************************)
EXTENDS CdcTx, StreamLemmas, TLAPS

-----------------------------------------------------------------------------
(* The invariants.                                                         *)

\* What write() has in hand: the portion it copies is part of what is left, and a
\* block it starts is not empty.
LocalInv ==
  /\ sent + rest <= MaxBytes
  /\ pc \in {"copy", "advance"} => 1 <= portion /\ portion <= rest
  /\ pc \in {"stamp", "transmit"} => 1 <= size

Active == {"data", "zlp", "done"}
Starting == {"block", "stamp", "transmit"}

\* TxState tells whether a transfer is under way, and write() has found that none
\* is before it takes a block.
StateInv ==
  /\ xfer = "idle" => TxState = 0
  /\ xfer \in Active => TxState = 1 /\ pc \notin Starting

\* A transfer has one or two packets. When the host has taken the last, either
\* that was a short one, or an empty one is due.
ShortInv ==
  /\ xfer = "data" => 1 <= left /\ total_length - left \in {0, MaxPacketSize}
  /\ xfer = "zlp" => total_length = 0
  /\ xfer = "done" => \/ lastPacket < MaxPacketSize
                      \/ total_length = MaxPacketSize
  /\ EndsShort

\* The block under transfer lies at read, within the bytes of the queue, and does
\* not pass the end of the buffer. So does the one write() is about to start.
BlockInv ==
  /\ xfer \in Active \/ pc \in {"stamp", "transmit"} =>
       1 <= reserved /\ reserved <= ReadSize /\ read + reserved <= BufferSize
  /\ xfer = "data" => txBuffer = read /\ total_length = reserved
  /\ pc \in {"stamp", "transmit"} => block = read /\ size = reserved

\* How far the host is in it.
HostInv ==
  /\ done <= rcvd /\ rcvd <= sent
  /\ xfer = "data" => rcvd = done + (total_length - left)
  /\ xfer \in {"zlp", "done"} => rcvd = done + reserved
  /\ xfer = "idle" => rcvd = done

\* Without a transfer the queue is empty, or write() has still to look for one.
IdleInv ==
  xfer = "idle" => ReadSize = 0 \/ pc = "continue" \/ pc \in Starting

\* The places that hold bytes of the stream: those behind write too once write()
\* has copied them there.
Filled == IF pc = "advance" THEN ReadSize + portion ELSE ReadSize

\* The bytes between read and write are those written and not yet transmitted,
\* and the portion fits in what is left of the buffer.
Contents ==
  /\ sent = done + ReadSize
  /\ pc \in {"copy", "advance"} => ReadSize + portion <= BufferSize - 1
  /\ RingHolds(BufferSize, buffer, read, Filled, done)

StreamInv == ~torn => BlockInv /\ HostInv /\ IdleInv /\ Contents

-----------------------------------------------------------------------------
(* Positions and sizes.                                                    *)

LEMMA SizeFacts ==
  /\ BufferSize \in Nat \ {0, 1} /\ BufferSize \in Nat \ {0}
  /\ BufferSize = 2 * MaxPacketSize /\ MaxPacketSize \in Nat \ {0}
BY MaxPacketSizeAssumption DEF BufferSize

LEMMA ReadSizeCases ==
  ASSUME TypeQueue
  PROVE  /\ ReadSize = IF write >= read THEN write - read ELSE BufferSize + write - read
         /\ ReadSize \in 0 .. BufferSize - 1
BY SizeFacts, RingCases DEF TypeQueue, ReadSize

\* One place of the buffer stays empty.
LEMMA WriteSizeCases ==
  ASSUME TypeQueue
  PROVE  WriteSize = BufferSize - 1 - ReadSize
<1> DEFINE m == read + BufferSize - write - 1
<1>1. write \in 0 .. BufferSize - 1 /\ read \in 0 .. BufferSize - 1
  BY DEF TypeQueue
<1>2. ReadSize = IF write >= read THEN write - read ELSE BufferSize + write - read
  BY ReadSizeCases
<1>3. CASE write >= read
  <2>1. m \in 0 .. BufferSize - 1
    BY <1>1, <1>3, SizeFacts
  <2>2. WriteSize = m
    BY <2>1, SizeFacts, ModSmall DEF WriteSize
  <2> QED
    BY <1>1, <1>2, <1>3, <2>2, SizeFacts
<1>4. CASE write < read
  <2>1. m \in BufferSize .. 2 * BufferSize - 1
    BY <1>1, <1>4, SizeFacts
  <2>2. WriteSize = m - BufferSize
    BY <2>1, SizeFacts, ModOnce DEF WriteSize
  <2> QED
    BY <1>1, <1>2, <1>4, <2>2, SizeFacts
<1> QED
  BY <1>1, <1>3, <1>4

\* A block is part of what is queued and does not pass the end of the buffer.
LEMMA BlockSizeCases ==
  ASSUME TypeQueue, NEW rd \in 0 .. BufferSize - 1
  PROVE  /\ BlockSize(rd) \in 0 .. BufferSize - 1
         /\ rd + BlockSize(rd) <= BufferSize
         /\ BlockSize(rd) <= Ring(BufferSize, rd, write)
         /\ BlockSize(rd) = 0 => Ring(BufferSize, rd, write) = 0
<1>1. write \in 0 .. BufferSize - 1
  BY DEF TypeQueue
<1>2. Ring(BufferSize, rd, write) = IF write >= rd THEN write - rd ELSE BufferSize + write - rd
  BY <1>1, SizeFacts, RingCases
<1> QED
  BY <1>1, <1>2, SizeFacts DEF BlockSize

LEMMA CommitReadType == TypeQueue => CommitRead \in 0 .. BufferSize - 1
<1> SUFFICES ASSUME TypeQueue PROVE CommitRead \in 0 .. BufferSize - 1
  OBVIOUS
<1>1. read \in 0 .. BufferSize - 1 /\ reserved \in 0 .. BufferSize
  BY SizeFacts DEF TypeQueue
<1>2. CommitRead = IF read + reserved < BufferSize THEN read + reserved
                                                   ELSE read + reserved - BufferSize
  BY <1>1, SizeFacts, MoveCases DEF CommitRead
<1> QED
  BY <1>1, <1>2, SizeFacts

\* Where a portion ends.
LEMMA AdvanceType ==
  TypeQueue /\ TypeLocal => (write + portion) % BufferSize \in 0 .. BufferSize - 1
<1> SUFFICES ASSUME TypeQueue, TypeLocal
             PROVE  (write + portion) % BufferSize \in 0 .. BufferSize - 1
  OBVIOUS
<1>1. write \in 0 .. BufferSize - 1 /\ portion \in 0 .. BufferSize
  BY SizeFacts DEF TypeQueue, TypeLocal
<1>2. (write + portion) % BufferSize
        = IF write + portion < BufferSize THEN write + portion
                                          ELSE write + portion - BufferSize
  BY <1>1, SizeFacts, MoveCases
<1> QED
  BY <1>1, <1>2, SizeFacts

-----------------------------------------------------------------------------
(* Types.                                                                  *)

TypeInv == TypeOK /\ LocalInv

\* A group of variables that does not change keeps its types.
LEMMA TypeUnchanged ==
  ASSUME TypeOK
  PROVE  /\ UNCHANGED queue => TypeQueue'
         /\ UNCHANGED endpoint => TypeEndpoint'
         /\ UNCHANGED <<pc, local>> => TypeLocal'
         /\ UNCHANGED <<transmitStart, dtrState>> => TypeLine'
         /\ UNCHANGED <<hostHist, hist>> => TypeHist'
BY DEF TypeOK, TypeQueue, TypeEndpoint, TypeLocal, TypeLine, TypeHist,
       queue, endpoint, local, hostHist, hist

\* A transfer is started with a block of the queue, or the endpoint is left alone.
LEMMA TransmitType ==
  ASSUME TypeOK, NEW tx, NEW b \in 0 .. BufferSize - 1, NEW n \in 0 .. BufferSize - 1,
         TransmitPacket(tx, b, n)
  PROVE  TypeEndpoint'
BY DEF TransmitPacket, TypeOK, TypeEndpoint, endpoint

LEMMA StampType == StampTick => transmitStart' \in {"none", "recent", "late"} /\ rearmed' \in BOOLEAN
BY DEF StampTick

LEMMA TypeInit == Init => TypeInv
<1> SUFFICES ASSUME Init PROVE TypeInv
  OBVIOUS
<1>1. /\ 0 \in 0 .. BufferSize - 1 /\ 0 \in 0 .. MaxBytes /\ 0 \in 0 .. MaxWrite
      /\ 0 \in 0 .. MaxPacketSize /\ 0 \in 0 .. MaxConfigs /\ 0 \in 0 .. MaxControls
      /\ 0 \in Nat
  BY SizeFacts, BoundsAssumption
<1>2. TypeQueue /\ TypeEndpoint
  BY <1>1 DEF Init, TypeQueue, TypeEndpoint
<1>3. TypeLocal /\ TypeLine /\ TypeHist
  BY <1>1 DEF Init, TypeLocal, TypeLine, TypeHist, PC
<1>4. LocalInv
  BY BoundsAssumption DEF Init, LocalInv
<1> QED
  BY <1>2, <1>3, <1>4 DEF TypeInv, TypeOK

LEMMA TypeStep == TypeInv /\ [Next]_vars => TypeInv'
<1> SUFFICES ASSUME TypeInv, [Next]_vars PROVE TypeInv'
  OBVIOUS
<1>0. TypeOK /\ LocalInv /\ TypeQueue /\ TypeEndpoint /\ TypeLocal /\ TypeLine /\ TypeHist
  BY DEF TypeInv, TypeOK
<1> USE SizeFacts, BoundsAssumption
<1>1. ASSUME NEW n \in 1 .. MaxWrite, CallWrite(n) PROVE TypeInv'
  <2>1. TypeLocal'
    BY <1>0, <1>1 DEF CallWrite, TypeLocal, PC
  <2>2. LocalInv'
    BY <1>0, <1>1 DEF CallWrite, LocalInv, hist
  <2> QED
    BY <1>0, <1>1, <2>1, <2>2, TypeUnchanged DEF CallWrite, TypeInv, TypeOK
<1>2. CASE WriteReturn
  <2>1. TypeLocal'
    BY <1>0, <1>2 DEF WriteReturn, TypeLocal, PC
  <2>2. LocalInv'
    BY <1>0, <1>2 DEF WriteReturn, LocalInv, hist, TypeHist, TypeLocal
  <2> QED
    BY <1>0, <1>2, <2>1, <2>2, TypeUnchanged DEF WriteReturn, TypeInv, TypeOK
<1>3. CASE Portion
  <2>1. WriteSize \in 1 .. BufferSize - 1
    BY <1>0, <1>3, WriteSizeCases, ReadSizeCases DEF Portion
  <2>2. TypeLocal'
    BY <1>0, <1>3, <2>1 DEF Portion, TypeLocal, PC
  <2>3. LocalInv'
    BY <1>0, <1>3, <2>1 DEF Portion, LocalInv, hist, TypeLocal
  <2> QED
    BY <1>0, <1>3, <2>2, <2>3, TypeUnchanged DEF Portion, TypeInv, TypeOK
<1>4. CASE EnqueueCopy
  <2>1. ASSUME NEW i \in 0 .. BufferSize - 1, Ring(BufferSize, write, i) < portion
        PROVE  sent + 1 + Ring(BufferSize, write, i) \in 0 .. MaxBytes
    <3>1. Ring(BufferSize, write, i) \in 0 .. BufferSize - 1
      BY <1>0, RingCases DEF TypeQueue
    <3>2. sent + portion <= MaxBytes
      BY <1>0, <1>4 DEF EnqueueCopy, LocalInv, TypeLocal, TypeHist
    <3> QED
      BY <1>0, <2>1, <3>1, <3>2 DEF TypeHist, TypeLocal
  <2>2. buffer' \in [0 .. BufferSize - 1 -> 0 .. MaxBytes]
    BY <1>0, <1>4, <2>1 DEF EnqueueCopy, TypeQueue
  <2>3. TypeQueue' /\ TypeLocal'
    BY <1>0, <1>4, <2>2 DEF EnqueueCopy, TypeQueue, TypeLocal, local, PC
  <2>4. LocalInv'
    BY <1>0, <1>4 DEF EnqueueCopy, LocalInv, hist, local
  <2> QED
    BY <1>0, <1>4, <2>3, <2>4, TypeUnchanged DEF EnqueueCopy, TypeInv, TypeOK
<1>5. CASE EnqueueAdvance
  <2>1. portion <= rest /\ sent + rest <= MaxBytes
    BY <1>0, <1>5 DEF EnqueueAdvance, LocalInv
  <2>2. TypeQueue'
    BY <1>0, <1>5, AdvanceType DEF EnqueueAdvance, TypeQueue
  <2>3. TypeLocal'
    BY <1>0, <1>5, <2>1 DEF EnqueueAdvance, TypeLocal, PC
  <2>4. TypeHist'
    BY <1>0, <1>5, <2>1 DEF EnqueueAdvance, TypeHist, TypeLocal, hostHist
  <2>5. LocalInv'
    BY <1>0, <1>5, <2>1 DEF EnqueueAdvance, LocalInv, TypeLocal, TypeHist
  <2> QED
    BY <1>0, <1>5, <2>2, <2>3, <2>4, <2>5, TypeUnchanged DEF EnqueueAdvance, TypeInv, TypeOK
<1>6. CASE ContinueBusy \/ ContinueFree \/ CallFlush \/ FlushReturn
  <2>1. TypeLocal' /\ LocalInv'
    BY <1>0, <1>6 DEF ContinueBusy, ContinueFree, CallFlush, FlushReturn, TypeLocal, PC,
      LocalInv, local, hist
  <2> QED
    BY <1>0, <1>6, <2>1, TypeUnchanged
      DEF ContinueBusy, ContinueFree, CallFlush, FlushReturn, TypeInv, TypeOK
<1>7. CASE ReadBlock
  <2>1. BlockSize(read) \in 0 .. BufferSize - 1
    BY <1>0, BlockSizeCases DEF TypeQueue
  <2>2. TypeQueue' /\ TypeLocal'
    BY <1>0, <1>7, <2>1 DEF ReadBlock, TypeQueue, TypeLocal, PC
  <2>3. LocalInv'
    BY <1>0, <1>7, <2>1 DEF ReadBlock, LocalInv, hist
  <2> QED
    BY <1>0, <1>7, <2>2, <2>3, TypeUnchanged DEF ReadBlock, TypeInv, TypeOK
<1>8. CASE Stamp
  <2>1. TypeLine' /\ TypeHist'
    BY <1>0, <1>8, StampType DEF Stamp, TypeLine, TypeHist, hostHist
  <2>2. TypeLocal' /\ LocalInv'
    BY <1>0, <1>8 DEF Stamp, TypeLocal, PC, LocalInv, local
  <2> QED
    BY <1>0, <1>8, <2>1, <2>2, TypeUnchanged DEF Stamp, TypeInv, TypeOK
<1>9. CASE Transmit
  <2>1. TypeEndpoint'
    BY <1>0, <1>9, TransmitType DEF Transmit, TypeLocal
  <2>2. TypeLocal' /\ LocalInv'
    BY <1>0, <1>9 DEF Transmit, TypeLocal, PC, LocalInv, local, hist
  <2> QED
    BY <1>0, <1>9, <2>1, <2>2, TypeUnchanged DEF Transmit, TypeInv, TypeOK
<1>10. CASE HostTakes
  <2>1. TypeEndpoint' /\ TypeHist'
    BY <1>0, <1>10 DEF HostTakes, TypeEndpoint, TypeHist, hist
  <2>2. LocalInv'
    BY <1>0, <1>10 DEF HostTakes, LocalInv, local, hist
  <2> QED
    BY <1>0, <1>10, <2>1, <2>2, TypeUnchanged DEF HostTakes, TypeInv, TypeOK
<1>11. CASE HostTakesZlp \/ DataInZlp
  <2>1. TypeEndpoint' /\ TypeHist'
    BY <1>0, <1>11 DEF HostTakesZlp, DataInZlp, TypeEndpoint, TypeHist, hostHist, hist
  <2>2. LocalInv'
    BY <1>0, <1>11 DEF HostTakesZlp, DataInZlp, LocalInv, local, hist
  <2> QED
    BY <1>0, <1>11, <2>1, <2>2, TypeUnchanged DEF HostTakesZlp, DataInZlp, TypeInv, TypeOK
<1>12. CASE DataIn
  <2>1. CommitRead \in 0 .. BufferSize - 1
    BY <1>0, CommitReadType
  <2>2. BlockSize(CommitRead) \in 0 .. BufferSize - 1
    BY <1>0, <2>1, BlockSizeCases
  <2>3. /\ TypeEndpoint' /\ reserved' \in 0 .. BufferSize - 1
        /\ transmitStart' \in {"none", "recent", "late"} /\ rearmed' \in BOOLEAN
    <3>1. TransmitNext(CommitRead)
      BY <1>12 DEF DataIn
    <3>2. CASE BlockSize(CommitRead) > 0
      BY <1>0, <2>1, <2>2, <3>1, <3>2, TransmitType, StampType DEF TransmitNext
    <3>3. CASE ~(BlockSize(CommitRead) > 0)
      BY <1>0, <3>1, <3>3 DEF TransmitNext, TypeEndpoint, TypeHist
    <3> QED
      BY <3>2, <3>3
  <2>4. TypeQueue' /\ TypeLine' /\ TypeHist'
    BY <1>0, <1>12, <2>1, <2>3 DEF DataIn, TypeQueue, TypeLine, TypeHist, hostHist
  <2>5. LocalInv'
    BY <1>0, <1>12 DEF DataIn, LocalInv, local
  <2> QED
    BY <1>0, <1>12, <2>3, <2>4, <2>5, TypeUnchanged DEF DataIn, TypeInv, TypeOK
<1>13. ASSUME NEW dtr \in BOOLEAN, SetControlLineState(dtr) PROVE TypeInv'
  <2>1. TypeLine'
    BY <1>0, <1>13 DEF SetControlLineState, TypeLine
  <2>2. TypeHist'
    BY <1>0, <1>13 DEF SetControlLineState, TypeHist, hostHist
  <2>3. LocalInv'
    BY <1>0, <1>13 DEF SetControlLineState, LocalInv, local
  <2> QED
    BY <1>0, <1>13, <2>1, <2>2, <2>3, TypeUnchanged DEF SetControlLineState, TypeInv, TypeOK
<1>14. CASE UsbReset
  <2>1. TypeEndpoint' /\ LocalInv'
    BY <1>0, <1>14 DEF UsbReset, TypeEndpoint, LocalInv, local, hist
  <2> QED
    BY <1>0, <1>14, <2>1, TypeUnchanged DEF UsbReset, TypeInv, TypeOK
<1>15. CASE SetConfiguration
  <2>1. TypeQueue' /\ TypeEndpoint'
    BY <1>0, <1>15 DEF SetConfiguration, TypeQueue, TypeEndpoint
  <2>2. TypeHist'
    BY <1>0, <1>15 DEF SetConfiguration, TypeHist, Undisturbed
  <2>3. LocalInv'
    BY <1>0, <1>15 DEF SetConfiguration, LocalInv, local
  <2> QED
    BY <1>0, <1>15, <2>1, <2>2, <2>3, TypeUnchanged DEF SetConfiguration, TypeInv, TypeOK
<1>16. CASE Timeout
  <2>1. TypeLine' /\ LocalInv'
    BY <1>0, <1>16 DEF Timeout, TypeLine, LocalInv, local, hist
  <2> QED
    BY <1>0, <1>16, <2>1, TypeUnchanged DEF Timeout, TypeInv, TypeOK
<1>17. CASE WriteSpin \/ FlushSpin \/ UNCHANGED vars
  <2>1. UNCHANGED vars
    BY <1>17 DEF WriteSpin, FlushSpin
  <2>2. LocalInv'
    BY <1>0, <2>1 DEF vars, LocalInv, local, hist
  <2> QED
    BY <1>0, <2>1, <2>2, TypeUnchanged DEF vars, TypeInv, TypeOK
<1> QED
  BY <1>1, <1>2, <1>3, <1>4, <1>5, <1>6, <1>7, <1>8, <1>9, <1>10, <1>11, <1>12, <1>13,
    <1>14, <1>15, <1>16, <1>17 DEF Next, MainStep, Irq, Host

\* Every variable of the transmit path keeps its type, also where a configuration
\* has torn the stream: the block CDC_TransmitQueue_ReadBlock returns never passes
\* the end of the buffer, and no number ever exceeds the bytes the sketch wrote.
THEOREM TypeCorrect == Spec => []TypeOK
<1>1. TypeInv => TypeOK
  BY DEF TypeInv
<1> QED
  BY <1>1, TypeInit, TypeStep, PTL DEF Spec

-----------------------------------------------------------------------------
(* Who starts a transfer, and how it ends.                                 *)

LEMMA StateStep == TypeOK /\ StateInv /\ [Next]_vars => StateInv'
<1> SUFFICES ASSUME TypeOK, StateInv, [Next]_vars PROVE StateInv'
  OBVIOUS
<1>0. TxState \in {0, 1} /\ xfer \in {"off", "idle"} \cup Active
  BY DEF TypeOK, TypeEndpoint, Active
<1> USE DEF StateInv, Active, Starting
<1>1. CASE \E n \in 1 .. MaxWrite : CallWrite(n)
  BY <1>1 DEF CallWrite, endpoint
<1>2. CASE WriteReturn \/ Portion \/ EnqueueCopy \/ EnqueueAdvance \/ ContinueBusy
  BY <1>2 DEF WriteReturn, Portion, EnqueueCopy, EnqueueAdvance, ContinueBusy, endpoint
<1>3. CASE ContinueFree \/ ReadBlock \/ Stamp \/ CallFlush \/ FlushReturn
  BY <1>0, <1>3 DEF ContinueFree, ReadBlock, Stamp, CallFlush, FlushReturn, endpoint
<1>4. CASE Transmit
  BY <1>4 DEF Transmit, TransmitPacket, endpoint
<1>5. CASE Host \/ DataInZlp
  BY <1>5 DEF Host, HostTakes, HostTakesZlp, DataInZlp
<1>6. CASE DataIn
  BY <1>6 DEF DataIn, TransmitNext, TransmitPacket, endpoint
<1>7. CASE \E dtr \in BOOLEAN : SetControlLineState(dtr)
  BY <1>7 DEF SetControlLineState, endpoint
<1>8. CASE UsbReset \/ SetConfiguration
  BY <1>8 DEF UsbReset, SetConfiguration
<1>9. CASE Timeout \/ WriteSpin \/ FlushSpin \/ UNCHANGED vars
  BY <1>9 DEF Timeout, WriteSpin, FlushSpin, vars, endpoint
<1> QED
  BY <1>1, <1>2, <1>3, <1>4, <1>5, <1>6, <1>7, <1>8, <1>9 DEF Next, MainStep, Irq

\* A zero-length packet is due after a transfer of exactly one packet: the queue
\* never holds two.
LEMMA ZlpDueCases == TypeEndpoint => (ZlpDue <=> total_length = MaxPacketSize)
<1> SUFFICES ASSUME TypeEndpoint PROVE ZlpDue <=> total_length = MaxPacketSize
  OBVIOUS
<1>1. total_length \in 0 .. 2 * MaxPacketSize - 1
  BY SizeFacts DEF TypeEndpoint
<1>2. CASE total_length \in 0 .. MaxPacketSize - 1
  <2>1. total_length % MaxPacketSize = total_length
    BY <1>2, SizeFacts, ModSmall
  <2> QED
    BY <1>2, <2>1, SizeFacts DEF ZlpDue
<1>3. CASE total_length \in MaxPacketSize .. 2 * MaxPacketSize - 1
  <2>1. total_length % MaxPacketSize = total_length - MaxPacketSize
    BY <1>3, SizeFacts, ModOnce
  <2> QED
    BY <1>3, <2>1, SizeFacts DEF ZlpDue
<1> QED
  BY <1>1, <1>2, <1>3, SizeFacts

LEMMA ShortStep == TypeInv /\ ShortInv /\ [Next]_vars => ShortInv'
<1> SUFFICES ASSUME TypeInv, ShortInv, [Next]_vars PROVE ShortInv'
  OBVIOUS
<1>0. TypeOK /\ TypeQueue /\ TypeEndpoint /\ TypeLocal /\ TypeHist /\ LocalInv
  BY DEF TypeInv, TypeOK
<1> USE SizeFacts DEF ShortInv, EndsShort
<1>1. ASSUME UNCHANGED <<endpoint, lastPacket>> PROVE ShortInv'
  BY <1>1 DEF endpoint
<1>2. CASE \E n \in 1 .. MaxWrite : CallWrite(n)
  BY <1>1, <1>2 DEF CallWrite, hostHist
<1>3. CASE \/ WriteReturn \/ Portion \/ EnqueueCopy \/ EnqueueAdvance \/ ContinueBusy
           \/ ContinueFree \/ ReadBlock \/ Stamp \/ CallFlush \/ FlushReturn
  BY <1>1, <1>3 DEF WriteReturn, Portion, EnqueueCopy, EnqueueAdvance, ContinueBusy,
    ContinueFree, ReadBlock, Stamp, CallFlush, FlushReturn, hostHist
<1>4. CASE Transmit
  <2>1. 1 <= size /\ size \in 0 .. BufferSize - 1
    BY <1>0, <1>4 DEF Transmit, LocalInv, TypeLocal
  <2>2. CASE UNCHANGED endpoint
    BY <1>1, <1>4, <2>2 DEF Transmit, hostHist
  <2>3. CASE xfer' = "data" /\ total_length' = size /\ left' = size
    BY <2>1, <2>3
  <2> QED
    BY <1>4, <2>2, <2>3 DEF Transmit, TransmitPacket
<1>5. CASE HostTakes
  <2>1. /\ left \in 0 .. BufferSize - 1 /\ total_length \in 0 .. BufferSize - 1
        /\ 1 <= left /\ total_length - left \in {0, MaxPacketSize}
    BY <1>0, <1>5 DEF HostTakes, TypeEndpoint
  <2>2. CASE left < MaxPacketSize
    BY <1>5, <2>1, <2>2 DEF HostTakes
  <2>3. CASE left = MaxPacketSize
    BY <1>5, <2>1, <2>3 DEF HostTakes
  <2>4. CASE left > MaxPacketSize
    BY <1>5, <2>1, <2>4 DEF HostTakes
  <2> QED
    BY <2>1, <2>2, <2>3, <2>4
<1>6. CASE HostTakesZlp \/ DataInZlp
  BY <1>0, <1>6 DEF HostTakesZlp, DataInZlp
<1>7. CASE DataIn
  <2>1. lastPacket < MaxPacketSize /\ lastPacket' = lastPacket
    BY <1>0, <1>7, ZlpDueCases DEF DataIn, hostHist
  <2>2. CASE xfer' = "idle"
    BY <2>1, <2>2
  <2>3. ASSUME NEW n \in Nat, 1 <= n, xfer' = "data", total_length' = n, left' = n
        PROVE  ShortInv'
    BY <2>1, <2>3
  <2>4. BlockSize(CommitRead) \in Nat
    BY <1>0, CommitReadType, BlockSizeCases
  <2>5. CASE BlockSize(CommitRead) > 0
    <3>1. /\ xfer' = "data" /\ total_length' = BlockSize(CommitRead)
          /\ left' = BlockSize(CommitRead)
      BY <1>7, <2>5 DEF DataIn, TransmitNext, TransmitPacket
    <3> QED
      BY <2>3, <2>4, <2>5, <3>1
  <2>6. CASE ~(BlockSize(CommitRead) > 0)
    BY <1>7, <2>2, <2>6 DEF DataIn, TransmitNext
  <2> QED
    BY <2>5, <2>6
<1>8. CASE \E dtr \in BOOLEAN : SetControlLineState(dtr)
  BY <1>1, <1>8 DEF SetControlLineState, hostHist
<1>9. CASE UsbReset \/ SetConfiguration
  BY <1>9 DEF UsbReset, SetConfiguration
<1>10. CASE Timeout \/ WriteSpin \/ FlushSpin \/ UNCHANGED vars
  BY <1>1, <1>10 DEF Timeout, WriteSpin, FlushSpin, vars, hostHist
<1> QED
  BY <1>2, <1>3, <1>4, <1>5, <1>6, <1>7, <1>8, <1>9, <1>10 DEF Next, MainStep, Irq, Host

LEMMA EndpointInvariant == Spec => [](TypeInv /\ StateInv /\ ShortInv)
<1>1. Init => StateInv /\ ShortInv
  BY DEF Init, StateInv, ShortInv, EndsShort, Active
<1>2. TypeInv => TypeOK
  BY DEF TypeInv
<1> QED
  BY <1>1, <1>2, TypeInit, TypeStep, StateStep, ShortStep, PTL DEF Spec

\* Every transfer ends with a short packet, whatever sizes write() is called with
\* and however resets and configurations interrupt it: the host's read ends too.
THEOREM TransfersEndShort == Spec => []EndsShort
<1>1. ShortInv => EndsShort
  BY DEF ShortInv
<1> QED
  BY <1>1, EndpointInvariant, PTL

-----------------------------------------------------------------------------
(* The stream.                                                             *)

LEMMA StreamInit == Init => StreamInv
<1> SUFFICES ASSUME Init PROVE BlockInv /\ HostInv /\ IdleInv /\ Contents
  BY DEF StreamInv
<1>1. TypeQueue
  BY TypeInit DEF TypeInv, TypeOK
<1>2. ReadSize = 0 /\ Filled = 0
  BY <1>1, ReadSizeCases DEF Init, Filled
<1>3. ASSUME NEW i \in 0 .. BufferSize - 1
      PROVE  Ring(BufferSize, read, i) \in 0 .. BufferSize - 1
  BY <1>1, SizeFacts, RingCases DEF TypeQueue
<1>4. RingHolds(BufferSize, buffer, read, 0, done)
  BY <1>3, SizeFacts DEF RingHolds
<1> QED
  BY <1>2, <1>4 DEF Init, BlockInv, HostInv, IdleInv, Contents, Active

\* What a step may do to the bytes of a stream that it leaves untorn.
StreamEffect ==
  \/ torn'
  \/ ~torn /\ (\E n \in Nat : n > 0 /\ sent' = sent + n /\ rcvd' = rcvd)
  \/ ~torn /\ (\E n \in Nat : n > 0 /\ rcvd' = rcvd + n /\ sent' = sent)
  \/ ~torn /\ rcvd' = sent /\ sent' = sent
  \/ ~torn /\ UNCHANGED <<sent, rcvd>>

\* The portion is copied behind write, ...
LEMMA CopyStep ==
  ASSUME TypeInv, BlockInv, HostInv, IdleInv, Contents, EnqueueCopy
  PROVE  BlockInv' /\ HostInv' /\ IdleInv' /\ Contents'
<1>0. TypeQueue /\ TypeLocal /\ TypeHist
  BY DEF TypeInv, TypeOK
<1>1. /\ pc = "copy" /\ pc' = "advance"
      /\ UNCHANGED <<write, read, reserved, endpoint, local, rcvd, sent, done>>
  BY DEF EnqueueCopy, hostHist, hist
<1>2. ReadSize' = ReadSize /\ ReadSize \in 0 .. BufferSize - 1
  BY <1>0, <1>1, ReadSizeCases DEF ReadSize
<1>3. ReadSize + portion <= BufferSize - 1 /\ sent = done + ReadSize
  BY <1>1 DEF Contents
<1>4. RingHolds(BufferSize, buffer', read, ReadSize + portion, done)
  <2>1. RingHolds(BufferSize, buffer, read, ReadSize, done)
    BY <1>1 DEF Contents, Filled
  <2>2. buffer' = [i \in 0 .. BufferSize - 1 |->
                     IF Ring(BufferSize, write, i) < portion
                     THEN (done + ReadSize) + 1 + Ring(BufferSize, write, i)
                     ELSE buffer[i]]
    BY <1>0, <1>3 DEF EnqueueCopy, TypeQueue
  <2>3. /\ buffer \in [0 .. BufferSize - 1 -> Nat] /\ portion \in Nat /\ done \in Nat
        /\ write \in 0 .. BufferSize - 1 /\ read \in 0 .. BufferSize - 1
    BY <1>0, BoundsAssumption DEF TypeQueue, TypeLocal, TypeHist
  <2> QED
    BY <1>3, <2>1, <2>2, <2>3, SizeFacts, HoldsMore DEF ReadSize
<1>5. Contents'
  BY <1>1, <1>2, <1>3, <1>4 DEF Contents, Filled, local
<1> QED
  BY <1>1, <1>2, <1>5 DEF BlockInv, HostInv, IdleInv, Active, Starting, endpoint, local

\* ... and is part of the queue once write has moved.
LEMMA AdvanceStep ==
  ASSUME TypeInv, BlockInv, HostInv, IdleInv, Contents, EnqueueAdvance
  PROVE  BlockInv' /\ HostInv' /\ IdleInv' /\ Contents'
<1>0. TypeQueue /\ TypeLocal /\ TypeHist /\ TypeEndpoint /\ LocalInv
  BY DEF TypeInv, TypeOK
<1>1. /\ pc = "advance" /\ pc' = "continue" /\ sent' = sent + portion
      /\ write' = (write + portion) % BufferSize
      /\ UNCHANGED <<buffer, read, reserved, endpoint, portion, rcvd, done>>
  BY DEF EnqueueAdvance, hostHist
<1>2. /\ ReadSize \in 0 .. BufferSize - 1 /\ ReadSize + portion <= BufferSize - 1
      /\ sent = done + ReadSize /\ portion \in Nat /\ done \in Nat /\ rcvd \in Nat
      /\ RingHolds(BufferSize, buffer, read, ReadSize + portion, done)
  BY <1>0, <1>1, ReadSizeCases DEF Contents, Filled, TypeLocal, TypeHist
<1>3. ReadSize' = ReadSize + portion
  BY <1>0, <1>1, <1>2, SizeFacts, RingAdds DEF ReadSize, TypeQueue
<1>4. Contents'
  BY <1>1, <1>2, <1>3 DEF Contents, Filled
<1>5. BlockInv'
  BY <1>0, <1>1, <1>2, <1>3, SizeFacts DEF BlockInv, Active, endpoint, TypeQueue
<1>6. HostInv' /\ IdleInv'
  BY <1>1, <1>2 DEF HostInv, IdleInv, endpoint
<1> QED
  BY <1>4, <1>5, <1>6

\* The interrupt takes the block out of the queue and starts the next.
LEMMA DataInStep ==
  ASSUME TypeInv, StateInv, BlockInv, HostInv, IdleInv, Contents, DataIn
  PROVE  BlockInv' /\ HostInv' /\ IdleInv' /\ Contents'
<1>0. TypeQueue /\ TypeLocal /\ TypeHist /\ TypeEndpoint
  BY DEF TypeInv, TypeOK
<1>1. /\ xfer = "done" /\ read' = (read + reserved) % BufferSize /\ done' = done + reserved
      /\ UNCHANGED <<buffer, write, pc, local, rcvd, sent>>
      /\ TransmitNext(read')
  BY DEF DataIn, CommitRead, hostHist
<1>2. /\ ReadSize \in 0 .. BufferSize - 1 /\ sent = done + ReadSize /\ done \in Nat
      /\ 1 <= reserved /\ reserved <= ReadSize /\ read + reserved <= BufferSize
      /\ rcvd = done + reserved /\ pc \notin Starting
      /\ reserved \in Nat /\ portion \in Nat /\ read \in 0 .. BufferSize - 1
      /\ write \in 0 .. BufferSize - 1
  BY <1>0, <1>1, ReadSizeCases
    DEF Contents, BlockInv, HostInv, StateInv, Active, TypeHist, TypeQueue, TypeLocal
<1>3. read' \in 0 .. BufferSize - 1 /\ ReadSize' = ReadSize - reserved
  BY <1>1, <1>2, SizeFacts, RingShrinks DEF ReadSize
<1>4. Contents'
  <2>1. Filled' = Filled - reserved
    BY <1>1, <1>2, <1>3 DEF Filled, local
  <2>2. Filled \in 0 .. BufferSize - 1 /\ reserved \in 0 .. Filled
    BY <1>2, SizeFacts DEF Filled, Contents
  <2>3. RingHolds(BufferSize, buffer, (read + reserved) % BufferSize, Filled - reserved,
                  done + reserved)
    BY <1>2, <2>2, SizeFacts, HoldsSkip DEF Contents
  <2>4. RingHolds(BufferSize, buffer, read, Filled, done)'
    BY <1>1, <2>1, <2>3
  <2>5. (pc \in {"copy", "advance"} => ReadSize + portion <= BufferSize - 1)'
    BY <1>1, <1>2, <1>3, SizeFacts DEF Contents, local
  <2>6. (sent = done + ReadSize)'
    BY <1>1, <1>2, <1>3
  <2> QED
    BY <2>4, <2>5, <2>6 DEF Contents
<1>5. /\ BlockSize(read') \in 0 .. BufferSize - 1 /\ read' + BlockSize(read') <= BufferSize
      /\ BlockSize(read') <= ReadSize'
      /\ BlockSize(read') = 0 => ReadSize' = 0
  <2>1. ReadSize' = Ring(BufferSize, read', write)
    BY <1>1 DEF ReadSize
  <2> QED
    BY <1>0, <1>3, <2>1, BlockSizeCases
<1>6. CASE BlockSize(read') > 0
  <2>1. /\ reserved' = BlockSize(read') /\ xfer' = "data" /\ txBuffer' = read'
        /\ total_length' = reserved' /\ left' = reserved'
    BY <1>1, <1>6 DEF TransmitNext, TransmitPacket
  <2>2. BlockInv'
    BY <1>1, <1>2, <1>5, <1>6, <2>1, SizeFacts DEF BlockInv, Starting
  <2>3. HostInv'
    <3>1. total_length' - left' = 0
      BY <1>5, <2>1
    <3> QED
      BY <1>1, <1>2, <2>1, <3>1 DEF HostInv
  <2> QED
    BY <1>4, <2>1, <2>2, <2>3 DEF IdleInv
<1>7. CASE ~(BlockSize(read') > 0)
  <2>1. xfer' = "idle" /\ ReadSize' = 0
    BY <1>1, <1>5, <1>7, SizeFacts DEF TransmitNext
  <2>2. BlockInv'
    BY <1>1, <1>2, <2>1 DEF BlockInv, Active, Starting
  <2>3. HostInv'
    BY <1>1, <1>2, <2>1 DEF HostInv
  <2> QED
    BY <1>4, <2>1, <2>2, <2>3 DEF IdleInv
<1> QED
  BY <1>6, <1>7

LEMMA StreamStep ==
  TypeInv /\ StateInv /\ ShortInv /\ StreamInv /\ [Next]_vars => StreamInv' /\ StreamEffect
<1> SUFFICES ASSUME TypeInv, StateInv, ShortInv, StreamInv, [Next]_vars, ~torn'
             PROVE  BlockInv' /\ HostInv' /\ IdleInv' /\ Contents' /\ StreamEffect
  BY DEF StreamInv, StreamEffect
<1>0. TypeQueue /\ TypeLocal /\ TypeHist /\ TypeEndpoint /\ LocalInv
  BY DEF TypeInv, TypeOK
<1>r. ReadSize \in 0 .. BufferSize - 1
  BY <1>0, ReadSizeCases
<1>t. ASSUME ~torn PROVE BlockInv /\ HostInv /\ IdleInv /\ Contents
  BY <1>t DEF StreamInv
\* A step that leaves the queue and the bytes alone.
<1>u. ASSUME ~torn, UNCHANGED <<buffer, write, read, sent, done, rcvd>>,
             Filled' = Filled,
             pc' \in {"copy", "advance"} => ReadSize + portion' <= BufferSize - 1
      PROVE  ReadSize' = ReadSize /\ Contents' /\ StreamEffect
  <2>1. ReadSize' = ReadSize
    BY <1>u DEF ReadSize
  <2> QED
    BY <1>t, <1>u, <2>1 DEF Contents, StreamEffect
<1>1. ASSUME NEW n \in 1 .. MaxWrite, CallWrite(n)
      PROVE  BlockInv' /\ HostInv' /\ IdleInv' /\ Contents' /\ StreamEffect
  <2>1. /\ ~torn /\ pc = "idle" /\ pc' = "loop"
        /\ UNCHANGED <<queue, endpoint, rcvd, sent, done, portion, size, block>>
    BY <1>1 DEF CallWrite, hostHist, hist
  <2>2. Filled' = Filled
    BY <2>1 DEF Filled, ReadSize, queue
  <2>3. ReadSize' = ReadSize /\ Contents' /\ StreamEffect
    BY <1>u, <2>1, <2>2 DEF queue
  <2> QED
    BY <1>t, <2>1, <2>3 DEF BlockInv, HostInv, IdleInv, Active, Starting, queue, endpoint
<1>2. CASE WriteReturn \/ Portion \/ ContinueBusy \/ ContinueFree \/ CallFlush \/ FlushReturn
  <2>1. /\ ~torn /\ pc \in {"loop", "continue", "idle", "flush"}
        /\ pc' \in {"idle", "copy", "loop", "block", "flush"}
        /\ UNCHANGED <<queue, endpoint, rcvd, sent, done>>
    BY <1>2 DEF WriteReturn, Portion, ContinueBusy, ContinueFree, CallFlush, FlushReturn,
      hostHist, hist
  <2>2. Filled' = Filled
    BY <2>1 DEF Filled, ReadSize, queue
  <2>3. pc' = "copy" => portion' \in Nat /\ portion' <= WriteSize
    <3>1. WriteSize \in Nat
      BY <1>0, <1>r, WriteSizeCases, SizeFacts
    <3> QED
      BY <1>0, <1>2, <3>1 DEF WriteReturn, Portion, ContinueBusy, ContinueFree, CallFlush,
        FlushReturn, TypeLocal
  <2>4. pc' = "copy" => ReadSize + portion' <= BufferSize - 1
    BY <1>0, <1>r, <2>3, WriteSizeCases, SizeFacts
  <2>5. ReadSize' = ReadSize /\ Contents' /\ StreamEffect
    BY <1>u, <2>1, <2>2, <2>4 DEF queue
  <2>6. pc = "continue" /\ xfer = "idle" => pc' = "block"
    BY <1>2 DEF WriteReturn, Portion, ContinueBusy, ContinueFree, CallFlush, FlushReturn,
      StateInv
  <2>7. IdleInv'
    BY <1>t, <2>1, <2>5, <2>6 DEF IdleInv, Starting, endpoint
  <2> QED
    BY <1>t, <2>1, <2>5, <2>7 DEF BlockInv, HostInv, Active, queue, endpoint
<1>3. CASE EnqueueCopy
  <2>1. ~torn /\ StreamEffect
    BY <1>3 DEF EnqueueCopy, hostHist, hist, StreamEffect
  <2> QED
    BY <1>3, <1>t, <2>1, CopyStep
<1>4. CASE EnqueueAdvance
  <2>1. ~torn /\ sent' = sent + portion /\ rcvd' = rcvd /\ portion \in Nat /\ portion > 0
    BY <1>0, <1>4 DEF EnqueueAdvance, hostHist, LocalInv, TypeLocal
  <2> QED
    BY <1>4, <1>t, <2>1, AdvanceStep DEF StreamEffect
<1>5. CASE ReadBlock
  <2>1. /\ ~torn /\ pc = "block" /\ xfer \notin Active
        /\ size' = BlockSize(read) /\ reserved' = BlockSize(read) /\ block' = read
        /\ pc' = IF BlockSize(read) > 0 THEN "stamp" ELSE "loop"
        /\ UNCHANGED <<buffer, write, read, endpoint, rcvd, sent, done, portion>>
    BY <1>5 DEF ReadBlock, hostHist, hist, StateInv, Starting
  <2>2. Filled' = Filled /\ pc' \notin {"copy", "advance"}
    BY <2>1 DEF Filled, ReadSize
  <2>3. ReadSize' = ReadSize /\ Contents' /\ StreamEffect
    BY <1>u, <2>1, <2>2
  <2>4. /\ BlockSize(read) \in 0 .. BufferSize - 1 /\ read + BlockSize(read) <= BufferSize
        /\ BlockSize(read) <= ReadSize
        /\ BlockSize(read) = 0 => ReadSize = 0
    BY <1>0, BlockSizeCases DEF ReadSize, TypeQueue
  <2>5. BlockInv'
    BY <2>1, <2>3, <2>4, SizeFacts DEF BlockInv, Active, endpoint
  <2>6. IdleInv'
    BY <2>1, <2>3, <2>4, SizeFacts DEF IdleInv, Starting
  <2> QED
    BY <1>t, <2>1, <2>3, <2>5, <2>6 DEF HostInv, Active, endpoint
<1>6. CASE Stamp
  <2>1. /\ ~torn /\ pc = "stamp" /\ pc' = "transmit"
        /\ UNCHANGED <<queue, endpoint, local, rcvd, sent, done>>
    BY <1>6 DEF Stamp, hostHist
  <2>2. Filled' = Filled
    BY <2>1 DEF Filled, ReadSize, queue
  <2>3. ReadSize' = ReadSize /\ Contents' /\ StreamEffect
    BY <1>u, <2>1, <2>2 DEF queue
  <2> QED
    BY <1>t, <2>1, <2>3 DEF BlockInv, HostInv, IdleInv, Active, Starting, queue, endpoint, local
<1>7. CASE Transmit
  <2>1. /\ ~torn /\ pc = "transmit" /\ pc' = "loop" /\ xfer \notin Active
        /\ UNCHANGED <<queue, local, rcvd, sent, done>>
    BY <1>7 DEF Transmit, hostHist, hist, StateInv, Starting
  <2>2. Filled' = Filled
    BY <2>1 DEF Filled, ReadSize, queue
  <2>3. ReadSize' = ReadSize /\ Contents' /\ StreamEffect
    BY <1>u, <2>1, <2>2 DEF queue
  <2>4. CASE xfer = "off"
    <3>1. UNCHANGED endpoint
      BY <1>7, <2>4 DEF Transmit, TransmitPacket
    <3> QED
      BY <1>t, <2>1, <2>3, <2>4, <3>1 DEF BlockInv, HostInv, IdleInv, Active, endpoint, queue
  <2>5. CASE xfer = "idle"
    <3>1. xfer' = "data" /\ txBuffer' = block /\ total_length' = size /\ left' = size
      BY <1>7, <2>5 DEF Transmit, TransmitPacket, StateInv
    <3>2. BlockInv'
      BY <1>t, <2>1, <2>3, <3>1 DEF BlockInv, queue
    <3>3. total_length' - left' = 0 /\ done \in Nat
      BY <1>0, <3>1 DEF TypeLocal, TypeHist
    <3>4. HostInv'
      BY <1>t, <2>1, <2>5, <3>1, <3>3 DEF HostInv
    <3> QED
      BY <2>3, <3>1, <3>2, <3>4 DEF IdleInv
  <2> QED
    BY <1>0, <2>1, <2>4, <2>5 DEF TypeEndpoint, Active
<1>8. CASE HostTakes
  <2> DEFINE n == IF left < MaxPacketSize THEN left ELSE MaxPacketSize
  <2>1. /\ ~torn /\ xfer = "data" /\ left' = left - n /\ rcvd' = rcvd + n
        /\ xfer' = IF left = n THEN "done" ELSE "data"
        /\ UNCHANGED <<queue, txBuffer, total_length, pc, local, sent, done>>
    BY <1>8 DEF HostTakes, hist
  <2>2. n \in Nat /\ n > 0 /\ n <= left /\ left \in Nat /\ total_length \in Nat
    BY <1>0, <2>1, SizeFacts DEF ShortInv, TypeEndpoint
  <2> HIDE DEF n
  <2>3. Filled' = Filled /\ ReadSize' = ReadSize
    BY <2>1 DEF Filled, ReadSize, queue, local
  <2>4. Contents'
    BY <1>t, <2>1, <2>3 DEF Contents, queue, local
  <2>5. BlockInv' /\ IdleInv'
    BY <1>t, <2>1, <2>3 DEF BlockInv, IdleInv, Active, queue, local
  <2>6. /\ rcvd = done + (total_length - left) /\ done <= rcvd
        /\ total_length = reserved /\ reserved <= ReadSize /\ sent = done + ReadSize
        /\ done \in Nat /\ rcvd \in Nat
    BY <1>0, <1>t, <2>1 DEF HostInv, BlockInv, Contents, Active, TypeHist
  <2>7. HostInv'
    <3>1. rcvd' = done + (total_length - left') /\ done <= rcvd' /\ rcvd' <= sent
      BY <1>r, <2>1, <2>2, <2>6, SizeFacts
    <3>2. left = n => rcvd' = done + reserved
      BY <2>1, <2>2, <2>6
    <3> QED
      BY <2>1, <3>1, <3>2 DEF HostInv, queue
  <2> QED
    BY <2>1, <2>2, <2>4, <2>5, <2>7 DEF StreamEffect
<1>9. CASE HostTakesZlp \/ DataInZlp
  <2>1. /\ ~torn /\ xfer \in {"zlp", "done"} /\ xfer' \in {"zlp", "done"}
        /\ UNCHANGED <<queue, pc, local, rcvd, sent, done>>
    BY <1>9 DEF HostTakesZlp, DataInZlp, hist, hostHist
  <2>2. Filled' = Filled
    BY <2>1 DEF Filled, ReadSize, queue, local
  <2>3. ReadSize' = ReadSize /\ Contents' /\ StreamEffect
    BY <1>t, <1>u, <2>1, <2>2 DEF Contents, queue, local
  <2> QED
    BY <1>t, <2>1, <2>3 DEF BlockInv, HostInv, IdleInv, Active, queue, local
<1>10. CASE DataIn
  <2>1. ~torn /\ StreamEffect
    BY <1>10 DEF DataIn, hostHist, StreamEffect
  <2> QED
    BY <1>10, <1>t, <2>1, DataInStep
<1>11. CASE \/ \E dtr \in BOOLEAN : SetControlLineState(dtr)
            \/ Timeout \/ WriteSpin \/ FlushSpin \/ UNCHANGED vars
  <2>1. ~torn /\ UNCHANGED <<queue, endpoint, pc, local, rcvd, sent, done>>
    BY <1>11 DEF SetControlLineState, Timeout, WriteSpin, FlushSpin, vars, hostHist, hist
  <2>2. Filled' = Filled
    BY <2>1 DEF Filled, ReadSize, queue, local
  <2>3. ReadSize' = ReadSize /\ Contents' /\ StreamEffect
    BY <1>t, <1>u, <2>1, <2>2 DEF Contents, queue, local
  <2> QED
    BY <1>t, <2>1, <2>3 DEF BlockInv, HostInv, IdleInv, queue, endpoint, local
<1>12. CASE UsbReset
  <2>1. /\ ~torn /\ xfer' = "off" /\ UNCHANGED <<queue, pc, local, rcvd, sent, done>>
    BY <1>12 DEF UsbReset, hostHist, hist
  <2>2. Filled' = Filled
    BY <2>1 DEF Filled, ReadSize, queue, local
  <2>3. ReadSize' = ReadSize /\ Contents' /\ StreamEffect
    BY <1>t, <1>u, <2>1, <2>2 DEF Contents, queue, local
  <2> QED
    BY <1>t, <2>1, <2>3 DEF BlockInv, HostInv, IdleInv, Active, queue, local
<1>13. CASE SetConfiguration
  <2>1. /\ ~torn /\ pc \notin {"advance", "stamp", "transmit"}
        /\ write' = 0 /\ read' = 0 /\ xfer' = "idle" /\ done' = sent /\ rcvd' = sent
        /\ UNCHANGED <<buffer, pc, local, sent>>
    BY <1>13 DEF SetConfiguration, Undisturbed
  <2>2. 0 \in 0 .. BufferSize - 1 /\ sent \in Nat /\ portion \in 0 .. BufferSize - 1
    BY <1>0, SizeFacts DEF TypeHist, TypeLocal
  <2>3. ReadSize' = 0 /\ Filled' = 0
    <3>1. Ring(BufferSize, 0, 0) = 0
      BY <2>2, SizeFacts, RingCases
    <3> QED
      BY <2>1, <3>1 DEF ReadSize, Filled
  <2>4. ASSUME NEW i \in 0 .. BufferSize - 1 PROVE ~(Ring(BufferSize, 0, i) < 0)
    BY <2>2, SizeFacts, RingCases
  <2>5. RingHolds(BufferSize, buffer, read, Filled, done)'
    BY <2>1, <2>3, <2>4 DEF RingHolds
  <2>6. Contents'
    BY <2>1, <2>2, <2>3, <2>5 DEF Contents, local
  <2> QED
    BY <2>1, <2>2, <2>3, <2>6
      DEF BlockInv, HostInv, IdleInv, Active, StreamEffect
<1> QED
  BY <1>1, <1>2, <1>3, <1>4, <1>5, <1>6, <1>7, <1>8, <1>9, <1>10, <1>11, <1>12, <1>13
    DEF Next, MainStep, Irq, Host

LEMMA StreamInvariant == Spec => [](TypeInv /\ StateInv /\ ShortInv /\ StreamInv)
BY EndpointInvariant, StreamInit, StreamStep, PTL DEF Spec

\* The bytes of the ring from read on.
LEMMA QueueRun ==
  ASSUME TypeInv, Contents
  PROVE  \A k \in 1 .. ReadSize : buffer[(read + k - 1) % BufferSize] = done + k
<1>1. /\ buffer \in [0 .. BufferSize - 1 -> Nat] /\ read \in 0 .. BufferSize - 1
      /\ done \in Nat /\ portion \in Nat /\ ReadSize \in 0 .. BufferSize - 1
  BY BoundsAssumption, ReadSizeCases DEF TypeInv, TypeOK, TypeQueue, TypeHist, TypeLocal
<1>2. RingHolds(BufferSize, buffer, read, ReadSize, done)
  <2>1. ASSUME NEW i \in 0 .. BufferSize - 1, Ring(BufferSize, read, i) < ReadSize
        PROVE  Ring(BufferSize, read, i) < Filled
    <3>1. Ring(BufferSize, read, i) \in 0 .. BufferSize - 1
      BY <1>1, SizeFacts, RingCases
    <3> QED
      BY <1>1, <2>1, <3>1 DEF Filled
  <2> QED
    BY <2>1 DEF Contents, RingHolds
<1>3. BufferSize \in Nat \ {0}
  BY SizeFacts
<1> QED
  BY <1>1, <1>2, <1>3, RingRun, Zenon

\* No byte is lost, doubled or reordered in the transmit queue, for every packet
\* size: write() and the interrupt move write and read without a lock, each only
\* its own, and the queue holds what was written and not transmitted.
THEOREM QueueCarriesStream == Spec => []QueueHoldsStream
<1>1. TypeInv /\ StreamInv => QueueHoldsStream
  <2> SUFFICES ASSUME TypeInv, StreamInv, ~torn
               PROVE  /\ sent = done + ReadSize
                      /\ \A k \in 0 .. ReadSize - 1 :
                           buffer[(read + k) % BufferSize] = done + 1 + k
    BY DEF QueueHoldsStream
  <2>1. Contents /\ sent = done + ReadSize
    BY DEF StreamInv, Contents
  <2>2. ASSUME NEW k \in 0 .. ReadSize - 1
        PROVE  buffer[(read + k) % BufferSize] = done + 1 + k
    <3>1. /\ ReadSize \in 0 .. BufferSize - 1 /\ done \in Nat
          /\ read \in 0 .. BufferSize - 1
      BY ReadSizeCases DEF TypeInv, TypeOK, TypeHist, TypeQueue
    <3>2. k + 1 \in 1 .. ReadSize /\ read + (k + 1) - 1 = read + k
      BY <3>1, SizeFacts
    <3>3. buffer[(read + (k + 1) - 1) % BufferSize] = done + (k + 1)
      BY <2>1, <3>2, QueueRun
    <3> QED
      BY <3>1, <3>2, <3>3
  <2> QED
    BY <2>1, <2>2
<1> QED
  BY <1>1, StreamInvariant, PTL

\* While the host takes a block packet by packet, write() does not touch it: every
\* packet has the next bytes of the stream.
THEOREM BlockStaysIntact == Spec => []TransferIntact
<1>1. TypeInv /\ StreamInv => TransferIntact
  <2> SUFFICES ASSUME TypeInv, StreamInv, ~torn, xfer = "data", NEW k \in 0 .. left - 1
               PROVE  buffer[txBuffer + (total_length - left) + k] = rcvd + 1 + k
    BY DEF TransferIntact
  <2>1. BlockInv /\ HostInv /\ Contents
    BY DEF StreamInv
  <2>2. /\ txBuffer = read /\ total_length = reserved /\ reserved <= ReadSize
        /\ read + reserved <= BufferSize /\ rcvd = done + (total_length - left)
        /\ done <= rcvd
    BY <2>1 DEF BlockInv, HostInv, Active
  <2>3. /\ left \in Nat /\ reserved \in Nat /\ done \in Nat /\ read \in 0 .. BufferSize - 1
        /\ ReadSize \in 0 .. BufferSize - 1 /\ rcvd \in Nat
    BY ReadSizeCases DEF TypeInv, TypeOK, TypeEndpoint, TypeQueue, TypeHist
  <2> DEFINE j == (total_length - left) + k + 1
  <2>4. j \in 1 .. ReadSize /\ read + j - 1 \in 0 .. BufferSize - 1
    BY <2>2, <2>3, SizeFacts
  <2>5. read + j - 1 = txBuffer + (total_length - left) + k /\ done + j = rcvd + 1 + k
    BY <2>2, <2>3
  <2> HIDE DEF j
  <2>6. buffer[(read + j - 1) % BufferSize] = done + j
    BY <2>1, <2>4, QueueRun
  <2>7. (read + j - 1) % BufferSize = read + j - 1
    BY <2>4, SizeFacts, ModSmall
  <2> QED
    BY <2>5, <2>6, <2>7
<1> QED
  BY <1>1, StreamInvariant, PTL

\* Main thread and interrupt never both leave the last bytes to the other: when
\* write() has returned and no transfer is under way, the queue is empty.
THEOREM NoByteStranded == Spec => []NothingStranded
<1>1. TypeInv /\ StreamInv => NothingStranded
  <2> SUFFICES ASSUME TypeInv, StreamInv, ~torn, pc = "idle", xfer = "idle"
               PROVE  sent = done
    BY DEF NothingStranded
  <2>1. ReadSize = 0 /\ sent = done + ReadSize /\ done \in Nat
    BY DEF StreamInv, IdleInv, Contents, Starting, TypeInv, TypeOK, TypeHist
  <2> QED
    BY <2>1
<1> QED
  BY <1>1, StreamInvariant, PTL

-----------------------------------------------------------------------------
(* The transmit path implements the pipe.                                  *)

PipeInv ==
  ~torn => /\ sent \in Nat /\ rcvd \in Nat /\ rcvd <= sent
           /\ sent - rcvd <= BufferSize - 1
           /\ InPipe = Bytes(rcvd, sent - rcvd)

LEMMA InPipeBytes == TypeInv /\ StreamInv => PipeInv
<1> SUFFICES ASSUME TypeInv, StreamInv, ~torn
             PROVE  /\ sent \in Nat /\ rcvd \in Nat /\ rcvd <= sent
                    /\ sent - rcvd <= BufferSize - 1
                    /\ InPipe = Bytes(rcvd, sent - rcvd)
  BY DEF PipeInv
<1>1. /\ sent \in Nat /\ rcvd \in Nat /\ done \in Nat /\ done <= rcvd /\ rcvd <= sent
      /\ sent = done + ReadSize /\ Contents /\ ReadSize \in 0 .. BufferSize - 1
      /\ read \in 0 .. BufferSize - 1
  BY ReadSizeCases DEF StreamInv, HostInv, Contents, TypeInv, TypeOK, TypeHist, TypeQueue
<1>2. ASSUME NEW k \in 1 .. sent - rcvd
      PROVE  buffer[(read + (rcvd - done) + k - 1) % BufferSize] = rcvd + k
  <2> DEFINE j == (rcvd - done) + k
  <2>1. /\ j \in 1 .. ReadSize /\ done + j = rcvd + k
        /\ read + j - 1 = read + (rcvd - done) + k - 1
    BY <1>1, SizeFacts
  <2> HIDE DEF j
  <2>2. buffer[(read + j - 1) % BufferSize] = done + j
    BY <1>1, <2>1, QueueRun
  <2> QED
    BY <2>1, <2>2
<1>3. InPipe = [k \in 1 .. sent - rcvd |->
                  buffer[(read + (rcvd - done) + k - 1) % BufferSize]]
  BY DEF InPipe
<1>4. InPipe = Bytes(rcvd, sent - rcvd)
  BY <1>2, <1>3 DEF Bytes
<1> QED
  BY <1>1, <1>4, SizeFacts

LEMMA PipeStep ==
  TypeOK /\ TypeOK' /\ PipeInv /\ PipeInv' /\ StreamEffect => [Pipe!Next]_(Pipe!vars)
<1> SUFFICES ASSUME PipeInv, PipeInv', StreamEffect, ~torn, ~torn'
             PROVE  Pipe!Work \/ UNCHANGED <<sent, rcvd, InPipe>>
  <2> SUFFICES ASSUME TypeOK, TypeOK', PipeInv, PipeInv', StreamEffect
               PROVE  [Pipe!Next]_(Pipe!vars)
    OBVIOUS
  <2>1. CASE torn'
    BY <2>1 DEF Pipe!Next, Pipe!Break
  <2>2. CASE ~torn'
    <3>1. ~torn
      BY <2>2 DEF StreamEffect
    <3>2. torn' = torn
      <4>1. torn \in BOOLEAN /\ torn' \in BOOLEAN
        BY DEF TypeOK, TypeHist
      <4>2. torn = FALSE
        BY <3>1, <4>1, Zenon
      <4>3. torn' = FALSE
        BY <2>2, <4>1, Zenon
      <4> QED
        BY <4>2, <4>3, Zenon
    <3>3. Pipe!Work \/ UNCHANGED <<sent, rcvd, InPipe>>
      BY <2>2, <3>1
    <3>4. CASE Pipe!Work
      BY <2>2, <3>1, <3>4 DEF Pipe!Next
    <3>5. CASE UNCHANGED <<sent, rcvd, InPipe>>
      BY <3>2, <3>5 DEF Pipe!vars
    <3> QED
      BY <3>3, <3>4, <3>5
  <2> QED
    BY <2>1, <2>2
<1>1. /\ sent \in Nat /\ rcvd \in Nat /\ rcvd <= sent /\ sent - rcvd <= BufferSize - 1
      /\ InPipe = Bytes(rcvd, sent - rcvd)
  BY DEF PipeInv
<1>2. /\ sent' \in Nat /\ rcvd' \in Nat /\ rcvd' <= sent' /\ sent' - rcvd' <= BufferSize - 1
      /\ InPipe' = Bytes(rcvd', sent' - rcvd')
  BY SizeFacts DEF PipeInv, BufferSize
<1>3. sent - rcvd \in Nat /\ Len(InPipe) = sent - rcvd
  <2>1. sent - rcvd \in Nat
    BY <1>1
  <2> QED
    BY <1>1, <2>1, BytesSeq
<1>4. ASSUME NEW n \in Nat, n > 0, sent' = sent + n, rcvd' = rcvd
      PROVE  Pipe!Work
  <2>1. InPipe' = InPipe \o Bytes(sent, n)
    BY <1>1, <1>2, <1>4, RunGrows
  <2>2. Pipe!Accept(n)
    BY <1>1, <1>2, <1>3, <1>4, <2>1, SizeFacts DEF Pipe!Accept, Pipe!Run, Bytes
  <2>3. n \in 1 .. BufferSize - 1
    BY <1>1, <1>2, <1>4, SizeFacts
  <2> QED
    BY <2>2, <2>3 DEF Pipe!Work
<1>5. ASSUME NEW n \in Nat, n > 0, rcvd' = rcvd + n, sent' = sent
      PROVE  Pipe!Work
  <2>1. rcvd + n <= sent
    BY <1>2, <1>5
  <2>2. /\ SubSeq(InPipe, 1, n) = Bytes(rcvd, n)
        /\ InPipe' = SubSeq(InPipe, n + 1, sent - rcvd)
    <3>1. /\ SubSeq(Bytes(rcvd, sent - rcvd), 1, n) = Bytes(rcvd, n)
          /\ Bytes(rcvd + n, sent - (rcvd + n))
               = SubSeq(Bytes(rcvd, sent - rcvd), n + 1, sent - rcvd)
      BY <1>1, <2>1, RunShrinks
    <3> QED
      BY <1>1, <1>2, <1>5, <3>1
  <2>3. Pipe!Deliver(n)
    BY <1>1, <1>2, <1>3, <1>5, <2>1, <2>2 DEF Pipe!Deliver, Pipe!Run, Bytes
  <2>4. n \in 1 .. BufferSize - 1
    BY <1>1, <1>5, <2>1, SizeFacts
  <2> QED
    BY <2>3, <2>4 DEF Pipe!Work
<1>6. CASE rcvd' = sent /\ sent' = sent
  <2>1. InPipe' = <<>>
    BY <1>1, <1>2, <1>6, NoBytes
  <2> QED
    BY <1>6, <2>1 DEF Pipe!Work, Pipe!Clear
<1>7. CASE UNCHANGED <<sent, rcvd>>
  BY <1>1, <1>2, <1>7
<1> QED
  BY <1>4, <1>5, <1>6, <1>7 DEF StreamEffect

\* write(), the queue, the interrupt and the endpoint together implement the pipe
\* of ByteStream for every packet size: the host gets the bytes written, each once
\* and in order; a configuration drops what is in between and nothing else. The
\* pipe breaks only where a configuration interrupts write() half way.
THEOREM TransmitImplementsPipe == Spec => ImplementsPipe
<1>1. Init => Pipe!Init
  <2> SUFFICES ASSUME Init PROVE Pipe!Init
    OBVIOUS
  <2>1. sent = 0 /\ rcvd = 0 /\ torn = FALSE
    BY DEF Init
  <2>2. PipeInv
    BY TypeInit, StreamInit, InPipeBytes
  <2>3. InPipe = <<>>
    BY <2>1, <2>2, NoBytes DEF PipeInv
  <2> QED
    BY <2>1, <2>3 DEF Pipe!Init
<1>2. TypeInv => TypeOK
  BY DEF TypeInv
<1> QED
  BY <1>1, <1>2, PipeStep, StreamInvariant, InPipeBytes, StreamStep, PTL
    DEF Spec, ImplementsPipe, Pipe!Spec
=============================================================================
