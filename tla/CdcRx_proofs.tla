---------------------------- MODULE CdcRx_proofs ----------------------------
(***************************************************************************)
(* Proofs about CdcRx, for every packet size and every number of bytes and *)
(* configurations: type correctness, and that the lock-free receive queue  *)
(* carries the host's bytes to the sketch unchanged and in order: it       *)
(* implements the pipe of ByteStream.                                      *)
(***************************************************************************)
EXTENDS CdcRx, StreamLemmas

\* Only between read++ and the wrap does read stand behind the last byte.
ReadBound == pc # "wrap" => read < BufferSize

TypeInv == TypeOK /\ ReadBound

-----------------------------------------------------------------------------
(* The inductive invariant of a stream that is not spoilt.                 *)

\* Before the first configuration the queue is all zero; later write is inside
\* the lap, whose length no wrap has made shorter than the limit.
Shape ==
  \/ /\ configs = 0 /\ xfer = "off" /\ receivePended
     /\ length = 0 /\ write = 0 /\ read = 0 /\ lwrite = 0 /\ llength = 0
     /\ pc \notin {"reserve", "arm"}
  \/ /\ configs > 0
     /\ Limit < length /\ write < length /\ read <= length

\* A packet has room at write.
Room ==
  /\ write + MaxPacketSize <= BufferSize
  /\ read > write => write + MaxPacketSize < read
  /\ read = 0 => write < Limit

\* Who has the block: the endpoint, the main thread about to give it to the
\* endpoint, or nobody.
Pended ==
  /\ xfer = "block" => receivePended /\ rxBuffer = write /\ Room
  /\ xfer = "null" /\ pc # "arm" => ~receivePended
  /\ pc = "reserve" => ~receivePended
  /\ pc = "arm" => receivePended /\ xfer # "block" /\ block = write /\ Room

\* What the reader's copy of write is worth: bytes up to lwrite are there. On
\* its own lap the writer may have gone further or to the next lap.
CopyOfWrite ==
  pc \in {"length", "check", "fetch"} =>
    /\ read <= lwrite => \/ read <= write /\ lwrite <= write
                         \/ write < read /\ lwrite < length
    /\ lwrite < read => lwrite <= write /\ write < read

\* What its copy of length is worth.
CopyOfLength ==
  /\ pc \in {"check", "fetch"} =>
       /\ read <= lwrite => lwrite < llength \/ configs = 0
       /\ lwrite < read => llength = length
  /\ pc = "fetch" /\ lwrite < read => read < llength
  /\ pc = "wrap" => \/ read < llength
                    \/ read = 0
                    \/ read = llength /\ llength = length /\ write < read

\* Reception is stopped only with bytes in the queue, except on the way from
\* taking bytes to resuming it.
Stopped ==
  pc \in {"idle", "length", "check", "fetch"} /\ ~receivePended => sent > got

\* What the fields delimit is the stream.
Contents ==
  /\ sent = got + Unread
  /\ read <= write =>
       \A i \in read .. write - 1 : buffer[i] = got + 1 + (i - read)
  /\ read > write =>
       /\ \A i \in read .. length - 1 : buffer[i] = got + 1 + (i - read)
       /\ \A i \in 0 .. write - 1 : buffer[i] = got + 1 + (length - read) + i

StreamInv ==
  Sane => Shape /\ Pended /\ CopyOfWrite /\ CopyOfLength /\ Stopped /\ Contents

-----------------------------------------------------------------------------
\* A group of variables that does not change keeps its types.
LEMMA TypeUnchanged ==
  ASSUME TypeOK
  PROVE  /\ UNCHANGED queue => TypeQueue'
         /\ UNCHANGED endpoint => TypeEndpoint'
         /\ UNCHANGED local => TypeLocal'
         /\ UNCHANGED hist => TypeHist'
BY DEF TypeOK, TypeQueue, TypeEndpoint, TypeLocal, TypeHist, queue, endpoint,
       local, hist

\* CDC_ReceiveQueue_ReserveBlock returns the block at write, begins a new lap,
\* or finds no room.
LEMMA ReserveCases ==
  ASSUME NEW w \in 0 .. BufferSize - 1, NEW l \in 0 .. BufferSize,
         read \in 0 .. BufferSize
  PROVE  LET r == ReserveBlock(w, l) IN
         \/ /\ r = [ok |-> TRUE, write |-> w, length |-> l]
            /\ FitsAtEnd(w) \/ FitsInGap(w)
         \/ /\ r = [ok |-> TRUE, write |-> 0, length |-> w]
            /\ ~FitsAtEnd(w) /\ FitsAtHead(w)
         \/ /\ r = [ok |-> FALSE, write |-> w, length |-> l]
            /\ ~FitsAtEnd(w) /\ ~FitsAtHead(w) /\ ~FitsInGap(w)
<1>1. ~(FitsInGap(w) /\ FitsAtHead(w))
  BY MaxPacketSizeAssumption DEF FitsInGap, FitsAtHead, BufferSize
<1> QED
  BY <1>1 DEF ReserveBlock

\* The block lies in the buffer.
LEMMA ReserveType ==
  ASSUME NEW w \in 0 .. BufferSize - 1, NEW l \in 0 .. BufferSize,
         read \in 0 .. BufferSize
  PROVE  LET r == ReserveBlock(w, l) IN
         /\ r.ok \in BOOLEAN
         /\ r.write \in 0 .. BufferSize - 1
         /\ r.length \in 0 .. BufferSize
         /\ r.ok => r.write \in 0 .. Limit
<1> USE MaxPacketSizeAssumption
<1> DEFINE r == ReserveBlock(w, l)
<1>1. CASE r = [ok |-> TRUE, write |-> w, length |-> l] /\ (FitsAtEnd(w) \/ FitsInGap(w))
  <2>1. w \in 0 .. Limit
    BY <1>1 DEF FitsAtEnd, FitsInGap, BufferSize, Limit
  <2> QED
    BY <1>1, <2>1
<1>2. CASE r = [ok |-> TRUE, write |-> 0, length |-> w]
  <2>1. 0 \in 0 .. Limit /\ 0 \in 0 .. BufferSize - 1 /\ w \in 0 .. BufferSize
    BY DEF BufferSize, Limit
  <2> QED
    BY <1>2, <2>1
<1>3. CASE r = [ok |-> FALSE, write |-> w, length |-> l]
  BY <1>3
<1> QED
  BY <1>1, <1>2, <1>3, ReserveCases

\* So do the write position and the length after a commit.
LEMMA CommitType ==
  ASSUME TypeOK, NEW n \in 0 .. MaxPacketSize
  PROVE  /\ CommitWrite(n) \in 0 .. BufferSize - 1
         /\ CommitLength(n) \in 0 .. BufferSize
BY MaxPacketSizeAssumption DEF CommitWrite, CommitLength, TypeOK, TypeQueue, BufferSize

LEMMA CommitAndResumeType ==
  ASSUME TypeOK, NEW n \in 0 .. MaxPacketSize, CommitAndResume(n)
  PROVE  /\ write' \in 0 .. BufferSize - 1
         /\ length' \in 0 .. BufferSize
         /\ TypeEndpoint'
<1> DEFINE r == ReserveBlock(CommitWrite(n), CommitLength(n))
<1>1. /\ r.ok \in BOOLEAN
      /\ r.write \in 0 .. BufferSize - 1
      /\ r.length \in 0 .. BufferSize
      /\ r.ok => r.write \in 0 .. Limit
  BY CommitType, ReserveType DEF TypeOK, TypeQueue
<1> HIDE DEF r
<1>2. /\ write' = r.write /\ length' = r.length /\ receivePended' = r.ok
      /\ xfer' = IF r.ok THEN "block" ELSE "null"
      /\ rxBuffer' = IF r.ok THEN r.write ELSE rxBuffer
  BY DEF CommitAndResume, r
<1> QED
  BY <1>1, <1>2 DEF TypeOK, TypeEndpoint

LEMMA TypeInit == Init => TypeInv
<1> SUFFICES ASSUME Init PROVE TypeInv
  OBVIOUS
<1> USE MaxPacketSizeAssumption, BoundsAssumption
<1>1. /\ 0 \in 0 .. BufferSize - 1 /\ 0 \in 0 .. BufferSize /\ 0 \in 0 .. Limit
      /\ 0 \in 0 .. MaxBytes /\ 0 \in 0 .. MaxConfigs /\ 0 < BufferSize
  BY DEF BufferSize, Limit
<1>2. TypeQueue /\ TypeEndpoint
  BY <1>1 DEF Init, TypeQueue, TypeEndpoint
<1>3. TypeLocal /\ TypeHist /\ pc \in PC /\ ReadBound
  BY <1>1 DEF Init, TypeLocal, TypeHist, Ops, PC, ReadBound
<1> QED
  BY <1>2, <1>3 DEF TypeInv, TypeOK

LEMMA TypeStep == TypeInv /\ [Next]_vars => TypeInv'
<1> SUFFICES ASSUME TypeInv, [Next]_vars PROVE TypeInv'
  OBVIOUS
<1>0. TypeOK /\ ReadBound
  BY DEF TypeInv
<1> USE MaxPacketSizeAssumption, BoundsAssumption
<1>c. 0 \in 0 .. BufferSize - 1 /\ 0 \in 0 .. BufferSize /\ 0 \in 0 .. Limit /\ 0 < BufferSize
  BY DEF BufferSize, Limit
<1>1. ASSUME NEW n \in 0 .. MaxPacketSize, Receive(n) PROVE TypeInv'
  <2>1. write' \in 0 .. BufferSize - 1 /\ length' \in 0 .. BufferSize /\ TypeEndpoint'
    BY <1>0, <1>1, CommitAndResumeType DEF Receive
  <2>2. ASSUME NEW i \in rxBuffer .. rxBuffer + n - 1
        PROVE  sent + 1 + (i - rxBuffer) \in 0 .. MaxBytes
    BY <1>0, <1>1, <2>2 DEF Receive, TypeOK, TypeHist, TypeEndpoint
  <2>3. buffer' \in [0 .. BufferSize - 1 -> 0 .. MaxBytes]
    BY <1>0, <1>1, <2>2 DEF Receive, TypeOK, TypeQueue
  <2>4. sent' \in 0 .. MaxBytes
    BY <1>0, <1>1 DEF Receive, TypeOK, TypeHist
  <2> QED
    BY <1>0, <1>1, <2>1, <2>3, <2>4, TypeUnchanged
       DEF Receive, TypeInv, TypeOK, TypeQueue, TypeHist, ReadBound
<1>2. ASSUME NEW n \in 0 .. MaxPacketSize, ReceiveNull(n) PROVE TypeInv'
  <2>1. write' \in 0 .. BufferSize - 1 /\ length' \in 0 .. BufferSize /\ TypeEndpoint'
    BY <1>0, <1>2, CommitAndResumeType DEF ReceiveNull
  <2>2. sent' \in 0 .. MaxBytes
    BY <1>0, <1>2 DEF ReceiveNull, TypeOK, TypeHist
  <2> QED
    BY <1>0, <1>2, <2>1, <2>2, TypeUnchanged
       DEF ReceiveNull, TypeInv, TypeOK, TypeQueue, TypeHist, ReadBound
<1>3. CASE UsbReset
  BY <1>0, <1>3, TypeUnchanged
     DEF UsbReset, queue, TypeInv, TypeOK, TypeEndpoint, ReadBound
<1>4. CASE SetConfiguration
  <2>1. TypeQueue'
    BY <1>0, <1>4, <1>c DEF SetConfiguration, TypeOK, TypeQueue, BufferSize
  <2>2. TypeEndpoint'
    BY <1>0, <1>4, <1>c DEF SetConfiguration, TypeOK, TypeEndpoint
  <2>3. got' \in Nat /\ configs' \in 0 .. MaxConfigs /\ sent' \in 0 .. MaxBytes
    BY <1>0, <1>4 DEF SetConfiguration, TypeOK, TypeHist
  <2>4. torn' \in BOOLEAN /\ overrun' \in BOOLEAN
    BY <1>0, <1>4, Zenon DEF SetConfiguration, TypeOK, TypeHist
  <2> QED
    BY <1>0, <1>4, <1>c, <2>1, <2>2, <2>3, <2>4, TypeUnchanged
       DEF SetConfiguration, TypeInv, TypeOK, TypeHist, ReadBound
<1>5. ASSUME NEW o \in Ops, Call(o) PROVE TypeInv'
  <2>1. TypeLocal' /\ pc' \in PC
    BY <1>0, <1>5 DEF Call, TypeOK, TypeLocal, TypeQueue, PC
  <2> QED
    BY <1>0, <1>5, <2>1, TypeUnchanged DEF Call, queue, TypeInv, TypeOK, ReadBound
<1>6. CASE SampleLength
  <2>1. TypeLocal' /\ pc' \in PC
    BY <1>0, <1>6 DEF SampleLength, TypeOK, TypeLocal, TypeQueue, PC
  <2> QED
    BY <1>0, <1>6, <2>1, TypeUnchanged DEF SampleLength, queue, TypeInv, TypeOK, ReadBound
<1>r. ASSUME Return PROVE TypeLocal' /\ pc' \in PC
  BY <1>r, <1>c DEF Return, TypeLocal, PC, Ops
<1>7. CASE ReadSizeReturn
  BY <1>0, <1>7, <1>r, TypeUnchanged DEF ReadSizeReturn, queue, TypeInv, TypeOK, ReadBound
<1>8. CASE Check
  <2>1. TypeQueue' /\ ReadBound'
    BY <1>0, <1>8, <1>c DEF Check, TypeOK, TypeQueue, ReadBound
  <2>2. pc' \in PC
    BY <1>8 DEF Check, PC
  <2> QED
    BY <1>0, <1>8, <2>1, <2>2, TypeUnchanged DEF Check, TypeInv, TypeOK
<1>9. CASE PeekReturn
  BY <1>0, <1>9, <1>r, TypeUnchanged DEF PeekReturn, queue, TypeInv, TypeOK, ReadBound
<1>10. CASE DequeueEmpty
  BY <1>0, <1>10, TypeUnchanged DEF DequeueEmpty, queue, TypeInv, TypeOK, ReadBound, PC
<1>t. ASSUME NEW n \in Nat, Take(n), read + n <= BufferSize PROVE TypeInv'
  <2>1. TypeQueue' /\ pc' \in PC /\ ReadBound'
    BY <1>0, <1>t DEF Take, TypeOK, TypeQueue, PC, ReadBound
  <2>2. TypeHist'
    BY <1>0, <1>t DEF Take, TypeOK, TypeHist
  <2> QED
    BY <1>0, <1>t, <2>1, <2>2, TypeUnchanged DEF Take, TypeInv, TypeOK
<1>11. CASE DequeueFetch
  <2>1. read + 1 <= BufferSize
    BY <1>0, <1>11 DEF DequeueFetch, ReadBound, TypeOK, TypeQueue, BufferSize
  <2> QED
    BY <1>11, <1>t, <2>1 DEF DequeueFetch
<1>12. CASE ReadFetch
  <2>1. PICK n \in 0 .. Available : Take(n)
    BY <1>12 DEF ReadFetch
  <2>2. Available \in Int
    BY <1>0 DEF Available, TypeOK, TypeQueue, TypeLocal
  <2>3. n \in Nat /\ read + n <= BufferSize
    BY <1>0, <2>1, <2>2 DEF Available, TypeOK, TypeQueue, TypeLocal, BufferSize
  <2> QED
    BY <1>t, <2>1, <2>3
<1>13. CASE Wrap
  <2>1. TypeQueue' /\ ReadBound'
    BY <1>0, <1>13, <1>c DEF Wrap, TypeOK, TypeQueue, TypeLocal, ReadBound, BufferSize
  <2>2. pc' \in PC
    BY <1>13 DEF Wrap, PC
  <2> QED
    BY <1>0, <1>13, <2>1, <2>2, TypeUnchanged DEF Wrap, TypeInv, TypeOK
<1>14. CASE ResumePended
  BY <1>0, <1>14, <1>r, TypeUnchanged DEF ResumePended, queue, TypeInv, TypeOK, ReadBound
<1>15. CASE ResumeStart
  BY <1>0, <1>15, TypeUnchanged DEF ResumeStart, queue, TypeInv, TypeOK, ReadBound, PC
<1>16. CASE ResumeReserve
  <2> DEFINE r == ReserveBlock(write, length)
  <2>1. /\ r.ok \in BOOLEAN
        /\ r.write \in 0 .. BufferSize - 1
        /\ r.length \in 0 .. BufferSize
        /\ r.ok => r.write \in 0 .. Limit
    BY <1>0, ReserveType DEF TypeOK, TypeQueue
  <2>2. /\ write' = r.write /\ length' = r.length
        /\ receivePended' = (receivePended \/ r.ok)
        /\ IF r.ok THEN block' = r.write /\ pc' = "arm" /\ UNCHANGED <<op, lwrite, llength>>
                   ELSE Return
        /\ UNCHANGED <<buffer, read, xfer, rxBuffer, hist>>
    BY <1>16 DEF ResumeReserve
  <2> HIDE DEF r
  <2>3. TypeQueue' /\ TypeEndpoint'
    BY <1>0, <2>1, <2>2 DEF TypeOK, TypeQueue, TypeEndpoint
  <2>4. TypeLocal' /\ pc' \in PC
    BY <1>0, <1>r, <2>1, <2>2 DEF TypeOK, TypeLocal, PC
  <2>5. ReadBound'
    BY <1>0, <1>16, <2>2 DEF ReadBound, ResumeReserve
  <2> QED
    BY <1>0, <2>2, <2>3, <2>4, <2>5, TypeUnchanged DEF TypeInv, TypeOK
<1>17. CASE ResumeArm
  <2>1. TypeEndpoint'
    BY <1>0, <1>17 DEF ResumeArm, TypeOK, TypeEndpoint, TypeLocal
  <2> QED
    BY <1>0, <1>17, <1>r, <2>1, TypeUnchanged DEF ResumeArm, queue, TypeInv, TypeOK, ReadBound
<1>18. CASE UNCHANGED vars
  BY <1>0, <1>18, TypeUnchanged DEF vars, queue, TypeInv, TypeOK, ReadBound
<1> QED
  BY <1>1, <1>2, <1>3, <1>4, <1>5, <1>6, <1>7, <1>8, <1>9, <1>10, <1>11, <1>12,
     <1>13, <1>14, <1>15, <1>16, <1>17, <1>18 DEF Next, MainStep, Resume, Irq

\* Type correctness: whatever the host sends and whenever it resets and
\* configures the device, also when that spoils the stream, the indices of the
\* queue and the block of the endpoint stay inside its buffer.
THEOREM TypeCorrect == Spec => []TypeOK
<1>1. TypeInv => TypeOK
  BY DEF TypeInv
<1> QED
  BY <1>1, TypeInit, TypeStep, PTL DEF Spec

-----------------------------------------------------------------------------
(* The stream.                                                             *)

\* Contents, for a buffer b, a write position w, a length l and s bytes sent.
Holds(b, w, l, s) ==
  /\ s = got + (IF w >= read THEN w - read ELSE l + w - read)
  /\ read <= w => \A i \in read .. w - 1 : b[i] = got + 1 + (i - read)
  /\ read > w =>
       /\ \A i \in read .. l - 1 : b[i] = got + 1 + (i - read)
       /\ \A i \in 0 .. w - 1 : b[i] = got + 1 + (l - read) + i

\* Shape and Room, for a write position w and a length l.
InLap(w, l) == Limit < l /\ w < l /\ read <= l
RoomAt(w) ==
  /\ w + MaxPacketSize <= BufferSize
  /\ read > w => w + MaxPacketSize < read
  /\ read = 0 => w < Limit

\* The two ways a stream lies in the buffer.
LEMMA HoldsFlat ==
  ASSUME NEW b, NEW w \in Nat, NEW l \in Nat, NEW s, read \in Nat,
         read <= w, s = got + (w - read),
         \A i \in read .. w - 1 : b[i] = got + 1 + (i - read)
  PROVE  Holds(b, w, l, s)
<1>1. w >= read /\ ~(read > w)
  OBVIOUS
<1> QED
  BY <1>1, Zenon DEF Holds

LEMMA HoldsWrapped ==
  ASSUME NEW b, NEW w \in Nat, NEW l \in Nat, NEW s, read \in Nat,
         w < read, s = got + (l + w - read),
         \A i \in read .. l - 1 : b[i] = got + 1 + (i - read),
         \A i \in 0 .. w - 1 : b[i] = got + 1 + (l - read) + i
  PROVE  Holds(b, w, l, s)
<1>1. ~(w >= read) /\ ~(read <= w)
  OBVIOUS
<1> QED
  BY <1>1, Zenon DEF Holds

\* A packet in the block extends the stream, on this lap or up to its end.
LEMMA CommitHolds ==
  ASSUME TypeOK, NEW n \in 0 .. MaxPacketSize, sent + n <= MaxBytes,
         InLap(write, length), RoomAt(write), rxBuffer = write,
         Holds(buffer, write, length, sent),
         NEW b, b = [i \in DOMAIN buffer |->
                       IF i \in rxBuffer .. rxBuffer + n - 1
                       THEN sent + 1 + (i - rxBuffer) ELSE buffer[i]]
  PROVE  LET w == CommitWrite(n)
             l == CommitLength(n)
         IN /\ InLap(w, l)
            /\ Holds(b, w, l, sent + n)
            /\ \/ read <= write /\ w = write + n
               \/ read <= write /\ w = 0 /\ l = BufferSize /\ 0 < read
               \/ write < read /\ w = write + n /\ w < read /\ l = length
<1> USE MaxPacketSizeAssumption, BoundsAssumption
<1> DEFINE w == CommitWrite(n)
           l == CommitLength(n)
<1>1. /\ write \in Nat /\ read \in Nat /\ length \in Nat /\ sent \in Nat /\ got \in Nat
      /\ BufferSize = 3 * MaxPacketSize /\ Limit = 2 * MaxPacketSize
      /\ length <= BufferSize /\ n \in Nat /\ n <= MaxPacketSize
      /\ DOMAIN buffer = 0 .. BufferSize - 1
  BY DEF TypeOK, TypeQueue, TypeHist, BufferSize, Limit
<1>w. w \in Nat /\ l \in Nat
  BY <1>1, CommitType
<1> HIDE DEF w, l
<1>2. /\ \A i \in 0 .. BufferSize - 1 :
           b[i] = IF i \in write .. write + n - 1 THEN sent + 1 + (i - write) ELSE buffer[i]
  BY <1>1
<1>3. CASE read <= write /\ write + n < BufferSize
  <2>1. w = write + n /\ InLap(w, l)
    BY <1>1, <1>3 DEF w, l, CommitWrite, CommitLength, InLap, RoomAt
  <2>2. \A i \in read .. w - 1 : b[i] = got + 1 + (i - read)
    BY <1>1, <1>2, <1>3, <2>1 DEF Holds
  <2>3. sent + n = got + (w - read) /\ w >= read
    BY <1>1, <1>3, <2>1 DEF Holds
  <2>4. Holds(b, w, l, sent + n)
    BY <1>1, <1>w, <2>2, <2>3, HoldsFlat
  <2> QED
    BY <1>3, <2>1, <2>4 DEF w, l
<1>4. CASE read <= write /\ write + n >= BufferSize
  <2>1. write + n = BufferSize /\ 0 < read /\ w = 0 /\ l = BufferSize
    BY <1>1, <1>4 DEF w, l, RoomAt, CommitWrite, CommitLength
  <2>2. \A i \in read .. l - 1 : b[i] = got + 1 + (i - read)
    BY <1>1, <1>2, <1>4, <2>1 DEF Holds
  <2>3. sent + n = got + (l + w - read)
    BY <1>1, <1>4, <2>1 DEF Holds
  <2>4. Holds(b, w, l, sent + n)
    <3>1. \A i \in 0 .. w - 1 : b[i] = got + 1 + (l - read) + i
      BY <2>1
    <3> QED
      BY <1>1, <1>w, <2>1, <2>2, <2>3, <3>1, HoldsWrapped
  <2>5. InLap(w, l)
    BY <1>1, <2>1, <1>4 DEF InLap
  <2> QED
    BY <1>4, <2>1, <2>4, <2>5 DEF w, l
<1>5. CASE write < read
  <2>1. w = write + n /\ w < read /\ l = length /\ InLap(w, l)
    BY <1>1, <1>5 DEF w, l, CommitWrite, CommitLength, InLap, RoomAt
  <2>2. \A i \in read .. l - 1 : b[i] = got + 1 + (i - read)
    BY <1>1, <1>2, <1>5, <2>1 DEF Holds
  <2>3. \A i \in 0 .. w - 1 : b[i] = got + 1 + (l - read) + i
    BY <1>1, <1>2, <1>5, <2>1 DEF Holds, InLap
  <2>4. sent + n = got + (l + w - read)
    BY <1>1, <1>5, <2>1 DEF Holds
  <2>5. Holds(b, w, l, sent + n)
    BY <1>1, <1>w, <2>1, <2>2, <2>3, <2>4, HoldsWrapped
  <2> QED
    BY <1>5, <2>1, <2>5 DEF w, l
<1> QED
  BY <1>1, <1>3, <1>4, <1>5 DEF w, l

\* Reserving a block changes how the stream is delimited, not what it is; the
\* block has room for a packet; and only a queue with bytes in it has no room.
LEMMA ReserveHolds ==
  ASSUME NEW w \in 0 .. BufferSize - 1, NEW l \in 0 .. BufferSize, NEW b, NEW s \in Nat,
         read \in 0 .. BufferSize, got \in Nat,
         InLap(w, l), Holds(b, w, l, s)
  PROVE  LET r == ReserveBlock(w, l) IN
         /\ InLap(r.write, r.length)
         /\ Holds(b, r.write, r.length, s)
         /\ r.ok \in BOOLEAN
         /\ r.ok => RoomAt(r.write)
         /\ ~r.ok => s > got
         /\ \/ r.write = w /\ r.length = l
            \/ read <= w /\ Limit < w /\ r.write = 0 /\ r.length = w /\ 0 < read
<1> USE MaxPacketSizeAssumption
<1> DEFINE r == ReserveBlock(w, l)
<1>1. BufferSize = 3 * MaxPacketSize /\ Limit = 2 * MaxPacketSize
  BY DEF BufferSize, Limit
<1>2. CASE r = [ok |-> TRUE, write |-> w, length |-> l] /\ (FitsAtEnd(w) \/ FitsInGap(w))
  <2>1. RoomAt(w)
    BY <1>1, <1>2 DEF FitsAtEnd, FitsInGap, RoomAt
  <2> QED
    BY <1>2, <2>1
<1>3. CASE r = [ok |-> TRUE, write |-> 0, length |-> w] /\ ~FitsAtEnd(w) /\ FitsAtHead(w)
  <2>1. read <= w /\ Limit < w /\ 0 < read /\ MaxPacketSize < read
    BY <1>1, <1>3 DEF FitsAtEnd, FitsAtHead
  <2>2. InLap(0, w) /\ RoomAt(0)
    BY <1>1, <2>1 DEF InLap, RoomAt
  <2>3. Holds(b, 0, w, s)
    BY <2>1 DEF Holds
  <2> QED
    BY <1>3, <2>1, <2>2, <2>3
<1>4. CASE r = [ok |-> FALSE, write |-> w, length |-> l] /\ ~FitsAtEnd(w) /\ ~FitsAtHead(w) /\ ~FitsInGap(w)
  <2>1. s > got
    BY <1>1, <1>4 DEF FitsAtEnd, FitsAtHead, FitsInGap, Holds, InLap
  <2> QED
    BY <1>4, <2>1
<1> QED
  BY <1>2, <1>3, <1>4, ReserveCases

LEMMA ContentsHolds == Contents <=> Holds(buffer, write, length, sent)
BY Zenon DEF Contents, Holds, Unread

\* What a packet does: the stream grows, the writer stays on its side of the
\* reader or begins the next lap behind it, and the endpoint gets a block with
\* room or reception stops with bytes in the queue.
LEMMA ReceiveEffect ==
  ASSUME TypeOK, NEW n \in 0 .. MaxPacketSize, Receive(n),
         InLap(write, length), RoomAt(write), rxBuffer = write, Contents
  PROVE  /\ InLap(write', length')
         /\ Contents'
         /\ \/ receivePended' /\ xfer' = "block" /\ rxBuffer' = write' /\ RoomAt(write')
            \/ ~receivePended' /\ xfer' = "null" /\ sent' > got'
         /\ \/ read <= write /\ read <= write' /\ write <= write'
            \/ read <= write /\ write' < read /\ write < length'
            \/ write < read /\ write' < read /\ write <= write' /\ length' = length
<1> USE MaxPacketSizeAssumption
<1> DEFINE w == CommitWrite(n)
           l == CommitLength(n)
           r == ReserveBlock(w, l)
<1>1. /\ write \in Nat /\ read \in Nat /\ length \in Nat /\ sent \in Nat /\ got \in Nat
      /\ read \in 0 .. BufferSize /\ write < BufferSize /\ sent + n \in Nat
      /\ BufferSize = 3 * MaxPacketSize /\ Limit = 2 * MaxPacketSize
      /\ n \in Nat
  BY DEF TypeOK, TypeQueue, TypeHist, BufferSize, Limit
<1>2. w \in 0 .. BufferSize - 1 /\ l \in 0 .. BufferSize
  BY CommitType
<1>3. /\ InLap(w, l)
      /\ Holds(buffer', w, l, sent + n)
      /\ \/ read <= write /\ w = write + n
         \/ read <= write /\ w = 0 /\ l = BufferSize /\ 0 < read
         \/ write < read /\ w = write + n /\ w < read /\ l = length
  BY CommitHolds, ContentsHolds DEF Receive
<1>4. /\ write' = r.write /\ length' = r.length /\ receivePended' = r.ok
      /\ xfer' = IF r.ok THEN "block" ELSE "null"
      /\ rxBuffer' = IF r.ok THEN r.write ELSE rxBuffer
      /\ sent' = sent + n /\ read' = read /\ got' = got
  BY DEF Receive, CommitAndResume
<1> HIDE DEF w, l
<1>5. /\ InLap(r.write, r.length)
      /\ Holds(buffer', r.write, r.length, sent + n)
      /\ r.ok \in BOOLEAN
      /\ r.ok => RoomAt(r.write)
      /\ ~r.ok => sent + n > got
      /\ \/ r.write = w /\ r.length = l
         \/ read <= w /\ Limit < w /\ r.write = 0 /\ r.length = w /\ 0 < read
  BY <1>1, <1>2, <1>3, ReserveHolds
<1> HIDE DEF r
<1>6. InLap(write', length')
  BY <1>4, <1>5
<1>7. Contents'
  <2>1. Holds(buffer', write', length', sent')
    BY <1>4, <1>5
  <2> QED
    BY <1>4, <2>1, Zenon DEF Contents, Holds, Unread
<1>8. \/ receivePended' /\ xfer' = "block" /\ rxBuffer' = write' /\ RoomAt(write')
      \/ ~receivePended' /\ xfer' = "null" /\ sent' > got'
  BY <1>4, <1>5
<1>9. \/ read <= write /\ read <= write' /\ write <= write'
      \/ read <= write /\ write' < read /\ write < length'
      \/ write < read /\ write' < read /\ write <= write' /\ length' = length
  <2>1. CASE r.write = w /\ r.length = l
    BY <1>1, <1>3, <1>4, <2>1
  <2>2. CASE read <= w /\ Limit < w /\ r.write = 0 /\ r.length = w /\ 0 < read
    BY <1>1, <1>2, <1>3, <1>4, <2>2 DEF RoomAt
  <2> QED
    BY <1>5, <2>1, <2>2
<1> QED
  BY <1>6, <1>7, <1>8, <1>9

-----------------------------------------------------------------------------
LEMMA StreamInit == Init => StreamInv
<1> SUFFICES ASSUME Init PROVE StreamInv
  OBVIOUS
<1>1. Shape /\ Pended /\ CopyOfWrite /\ CopyOfLength /\ Stopped
  BY DEF Init, Shape, Pended, CopyOfWrite, CopyOfLength, Stopped
<1>2. Contents
  BY DEF Init, Contents, Unread
<1> QED
  BY <1>1, <1>2 DEF StreamInv

\* A step of the main thread that moves neither position of the queue.
LEMMA ContentsUnchanged ==
  ASSUME Contents, UNCHANGED <<queue, sent, got>>
  PROVE  Contents'
BY DEF Contents, Unread, queue

\* A stream once spoilt stays so.
LEMMA SaneBefore ==
  ASSUME Next, Sane'
  PROVE  Sane
<1> USE DEF Sane
<1>1. ASSUME NEW n \in 0 .. MaxPacketSize, Receive(n) PROVE Sane
  BY <1>1 DEF Receive
<1>2. ASSUME NEW n \in 0 .. MaxPacketSize, ReceiveNull(n) PROVE Sane
  BY <1>2 DEF ReceiveNull
<1>3. CASE UsbReset
  BY <1>3 DEF UsbReset, hist
<1>9. CASE SetConfiguration
  BY <1>9 DEF SetConfiguration
<1>4. ASSUME NEW o \in Ops, Call(o) PROVE Sane
  BY <1>4 DEF Call, hist
<1>5. CASE ReadFetch
  BY <1>5 DEF ReadFetch, Take
<1>6. CASE DequeueFetch
  BY <1>6 DEF DequeueFetch, Take
<1>7. CASE MainStep /\ UNCHANGED hist
  BY <1>7 DEF hist
<1>8. MainStep => ReadFetch \/ DequeueFetch \/ UNCHANGED hist
  BY DEF MainStep, SampleLength, ReadSizeReturn, Check, PeekReturn, DequeueEmpty, Wrap,
       Resume, ResumePended, ResumeStart, ResumeReserve, ResumeArm
<1> QED
  BY <1>1, <1>2, <1>3, <1>4, <1>5, <1>6, <1>7, <1>8, <1>9 DEF Next, Irq

LEMMA StreamStep == TypeInv /\ StreamInv /\ [Next]_vars => StreamInv'
<1> DEFINE Inv == Shape /\ Pended /\ CopyOfWrite /\ CopyOfLength /\ Stopped /\ Contents
<1>u. CASE UNCHANGED vars
  BY <1>u DEF vars, queue, endpoint, local, hist, StreamInv, Sane, Shape, Pended, Room,
       CopyOfWrite, CopyOfLength, Stopped, Contents, Unread
<1> SUFFICES ASSUME TypeInv, StreamInv, Next, Sane' PROVE Inv'
  BY <1>u DEF StreamInv
<1> USE MaxPacketSizeAssumption
<1>s. Sane /\ Sane' /\ Shape /\ Pended /\ CopyOfWrite /\ CopyOfLength /\ Stopped /\ Contents
  BY SaneBefore DEF StreamInv
<1>t. /\ write \in Nat /\ read \in Nat /\ length \in Nat /\ lwrite \in Nat /\ llength \in Nat
      /\ sent \in Nat /\ got \in Nat /\ configs \in Nat /\ read <= BufferSize
      /\ BufferSize = 3 * MaxPacketSize /\ Limit = 2 * MaxPacketSize
      /\ receivePended \in BOOLEAN
  BY DEF TypeInv, TypeOK, TypeQueue, TypeEndpoint, TypeLocal, TypeHist, BufferSize, Limit
<1>1. ASSUME NEW n \in 0 .. MaxPacketSize, Receive(n) PROVE Inv'
  <2>1. configs > 0 /\ InLap(write, length) /\ RoomAt(write) /\ rxBuffer = write
    BY <1>1, <1>s DEF Receive, Shape, Pended, Room, InLap, RoomAt
  <2>2. /\ InLap(write', length')
        /\ Contents'
        /\ \/ receivePended' /\ xfer' = "block" /\ rxBuffer' = write' /\ RoomAt(write')
           \/ ~receivePended' /\ xfer' = "null" /\ sent' > got'
        /\ \/ read <= write /\ read <= write' /\ write <= write'
           \/ read <= write /\ write' < read /\ write < length'
           \/ write < read /\ write' < read /\ write <= write' /\ length' = length
    BY <1>1, <1>s, <2>1, ReceiveEffect DEF TypeInv
  <2>3. UNCHANGED <<read, pc, lwrite, llength, configs>> /\ xfer = "block"
    BY <1>1 DEF Receive, local
  <2>4. pc \notin {"reserve", "arm"}
    BY <1>s, <2>3 DEF Pended
  <2>5. write' \in Nat /\ length' \in Nat
    BY <1>1, CommitAndResumeType DEF Receive, TypeInv
  <2>6. Shape' /\ Stopped'
    BY <2>1, <2>2, <2>3 DEF Shape, InLap, Stopped
  <2>7. Pended'
    BY <2>2, <2>3, <2>4 DEF Pended, Room, RoomAt
  <2>8. CopyOfWrite'
    BY <1>s, <1>t, <2>2, <2>3, <2>5 DEF CopyOfWrite
  <2>9. CopyOfLength'
    BY <1>s, <1>t, <2>2, <2>3, <2>5 DEF CopyOfLength, CopyOfWrite
  <2> QED
    BY <2>2, <2>6, <2>7, <2>8, <2>9
<1>2. ASSUME NEW n \in 0 .. MaxPacketSize, ReceiveNull(n) PROVE Inv'
  BY <1>2, <1>s DEF ReceiveNull, Sane
<1>3. CASE UsbReset
  <2>1. Contents'
    BY <1>3, <1>s, ContentsUnchanged DEF UsbReset, hist
  <2>2. Shape' /\ CopyOfWrite' /\ CopyOfLength' /\ Stopped'
    BY <1>3, <1>s DEF UsbReset, queue, local, hist, Shape, CopyOfWrite, CopyOfLength, Stopped
  <2>3. Pended'
    BY <1>3, <1>s DEF UsbReset, queue, local, hist, Pended, Room
  <2> QED
    BY <2>1, <2>2, <2>3
<1>4. CASE SetConfiguration
  <2>1. pc \in {"idle", "wrap", "resume"} /\ pc' = pc
    BY <1>4, <1>s DEF SetConfiguration, Sane, Undisturbed
  <2>2. /\ write' = 0 /\ read' = 0 /\ length' = BufferSize /\ configs' > 0 /\ got' = sent /\ sent' = sent
        /\ receivePended' /\ xfer' = "block" /\ rxBuffer' = 0
    BY <1>4, <1>t DEF SetConfiguration
  <2>3. Shape' /\ CopyOfWrite' /\ CopyOfLength' /\ Stopped'
    BY <1>t, <2>1, <2>2 DEF Shape, CopyOfWrite, CopyOfLength, Stopped
  <2>4. Pended'
    BY <1>t, <2>1, <2>2 DEF Pended, Room
  <2>5. Contents'
    BY <1>t, <2>2 DEF Contents, Unread
  <2> QED
    BY <2>3, <2>4, <2>5
<1>5. ASSUME NEW o \in Ops, Call(o) PROVE Inv'
  <2>1. Contents'
    BY <1>5, <1>s, ContentsUnchanged DEF Call, hist
  <2>2. Shape' /\ Pended' /\ Stopped'
    BY <1>5, <1>s DEF Call, queue, endpoint, hist, Shape, Pended, Room, Stopped
  <2>3. CopyOfWrite' /\ CopyOfLength'
    BY <1>5, <1>s, <1>t DEF Call, queue, hist, Shape, CopyOfWrite, CopyOfLength
  <2> QED
    BY <2>1, <2>2, <2>3
<1>6. CASE SampleLength
  <2>1. Contents'
    BY <1>6, <1>s, ContentsUnchanged DEF SampleLength, hist
  <2>2. Shape' /\ Pended' /\ Stopped'
    BY <1>6, <1>s DEF SampleLength, queue, endpoint, hist, Shape, Pended, Room, Stopped
  <2>3. CopyOfWrite' /\ CopyOfLength'
    BY <1>6, <1>s, <1>t DEF SampleLength, queue, hist, Shape, CopyOfWrite, CopyOfLength
  <2> QED
    BY <2>1, <2>2, <2>3
<1>r. ASSUME Return, UNCHANGED <<queue, endpoint, hist>>, pc \notin {"reserve", "arm"},
             receivePended \/ sent > got
      PROVE  Inv'
  <2>1. Contents'
    BY <1>r, <1>s, ContentsUnchanged DEF hist
  <2>2. Shape' /\ Pended' /\ Stopped'
    BY <1>r, <1>s DEF Return, queue, endpoint, hist, Shape, Pended, Room, Stopped
  <2>3. CopyOfWrite' /\ CopyOfLength'
    BY <1>r DEF Return, CopyOfWrite, CopyOfLength
  <2> QED
    BY <2>1, <2>2, <2>3
<1>7. CASE ReadSizeReturn \/ PeekReturn \/ ResumePended
  <2>1. pc \notin {"reserve", "arm"} /\ (receivePended \/ sent > got)
    BY <1>7, <1>s, <1>t DEF ReadSizeReturn, PeekReturn, ResumePended, Stopped
  <2> QED
    BY <1>7, <1>r, <2>1 DEF ReadSizeReturn, PeekReturn, ResumePended
<1>8. CASE Check
  <2>1. /\ pc = "check" /\ pc' = "fetch" /\ read' = (IF AtEnd THEN 0 ELSE read)
        /\ UNCHANGED <<buffer, write, length, endpoint, lwrite, llength, sent, got, configs>>
    BY <1>8 DEF Check, local, hist
  <2>2. CASE read' = read /\ (lwrite < read => read < llength)
    <3>1. Contents'
      BY <1>s, <2>1, <2>2, ContentsUnchanged DEF queue
    <3>2. Shape' /\ Pended' /\ Stopped'
      BY <1>s, <2>1, <2>2 DEF endpoint, Shape, Pended, Room, Stopped
    <3>3. CopyOfWrite' /\ CopyOfLength'
      BY <1>s, <1>t, <2>1, <2>2 DEF CopyOfWrite, CopyOfLength
    <3> QED
      BY <3>1, <3>2, <3>3
  <2>3. CASE read' = 0 /\ lwrite < read /\ read = llength
    <3>1. /\ write < read /\ read = length /\ lwrite <= write /\ write < length /\ configs > 0
      BY <1>s, <1>t, <2>1, <2>3 DEF CopyOfWrite, CopyOfLength, Shape
    <3>2. Contents'
      BY <1>s, <1>t, <2>1, <2>3, <3>1 DEF Contents, Unread
    <3>3. Shape' /\ Stopped'
      BY <1>s, <1>t, <2>1, <2>3, <3>1 DEF endpoint, Shape, Stopped
    <3>4. Pended'
      BY <1>s, <1>t, <2>1, <2>3, <3>1 DEF endpoint, Pended, Room
    <3>5. CopyOfWrite' /\ CopyOfLength'
      BY <1>s, <1>t, <2>1, <2>3, <3>1 DEF CopyOfWrite, CopyOfLength
    <3> QED
      BY <3>2, <3>3, <3>4, <3>5
  <2>4. \/ read' = read /\ (lwrite < read => read < llength)
        \/ read' = 0 /\ lwrite < read /\ read = llength
    BY <1>s, <1>t, <2>1 DEF AtEnd, CopyOfLength, CopyOfWrite, Shape
  <2> QED
    BY <2>2, <2>3, <2>4
<1>9. CASE DequeueEmpty
  <2>1. Contents'
    BY <1>9, <1>s, ContentsUnchanged DEF DequeueEmpty, hist
  <2>2. Shape' /\ Pended' /\ Stopped' /\ CopyOfWrite' /\ CopyOfLength'
    BY <1>9, <1>s DEF DequeueEmpty, queue, endpoint, local, hist, Shape, Pended, Room, Stopped,
         CopyOfWrite, CopyOfLength
  <2> QED
    BY <2>1, <2>2
<1>k. ASSUME NEW n \in Nat, Take(n), pc = "fetch", n <= Available PROVE Inv'
  <2>1. /\ got' = got + n /\ read' = read + n /\ pc' = "wrap"
        /\ UNCHANGED <<buffer, write, length, endpoint, lwrite, llength, sent, configs>>
    BY <1>k DEF Take, local
  <2>2. CASE read <= lwrite /\ read <= write
    <3>1. read + n <= lwrite /\ lwrite <= write
      BY <1>s, <1>t, <1>k, <2>2 DEF Available, CopyOfWrite
    <3>2. Contents'
      BY <1>s, <1>t, <1>k, <2>1, <2>2, <3>1 DEF Contents, Unread
    <3>3. Shape'
      BY <1>s, <1>t, <1>k, <2>1, <2>2, <3>1 DEF endpoint, Shape
    <3>4. Pended'
      BY <1>s, <1>t, <1>k, <2>1, <2>2, <3>1 DEF endpoint, Pended, Room
    <3>5. Stopped' /\ CopyOfWrite' /\ CopyOfLength'
      BY <1>s, <1>t, <1>k, <2>1, <2>2, <3>1 DEF Stopped, CopyOfWrite, CopyOfLength, Shape
    <3> QED
      BY <3>2, <3>3, <3>4, <3>5
  <2>3. CASE write < read
    <3>1. /\ configs > 0
          /\ \/ read + n <= lwrite /\ lwrite < length /\ lwrite < llength
             \/ read + n <= llength /\ llength = length
      BY <1>s, <1>t, <1>k, <2>3 DEF Available, CopyOfWrite, CopyOfLength, Shape
    <3>2. Contents'
      BY <1>s, <1>t, <1>k, <2>1, <2>3, <3>1 DEF Contents, Unread
    <3>3. Shape'
      BY <1>s, <1>t, <1>k, <2>1, <2>3, <3>1 DEF endpoint, Shape
    <3>4. Pended'
      BY <1>s, <1>t, <1>k, <2>1, <2>3, <3>1 DEF endpoint, Pended, Room
    <3>5. Stopped' /\ CopyOfWrite' /\ CopyOfLength'
      BY <1>s, <1>t, <1>k, <2>1, <2>3, <3>1 DEF Stopped, CopyOfWrite, CopyOfLength
    <3> QED
      BY <3>2, <3>3, <3>4, <3>5
  <2>4. (read <= lwrite /\ read <= write) \/ write < read
    BY <1>s, <1>t, <1>k DEF CopyOfWrite
  <2> QED
    BY <2>2, <2>3, <2>4
<1>10. CASE DequeueFetch
  <2>1. 1 <= Available
    BY <1>10, <1>s, <1>t DEF DequeueFetch, HasByte, Available, CopyOfWrite, CopyOfLength
  <2> QED
    BY <1>10, <1>k, <2>1 DEF DequeueFetch
<1>11. CASE ReadFetch
  <2>1. PICK n \in 0 .. Available : Take(n)
    BY <1>11 DEF ReadFetch
  <2>2. n \in Nat /\ n <= Available
    BY <1>t, <2>1 DEF Available
  <2> QED
    BY <1>11, <1>k, <2>1, <2>2 DEF ReadFetch
<1>12. CASE Wrap
  <2>1. /\ pc = "wrap" /\ pc' = "resume" /\ read' = (IF read >= llength THEN 0 ELSE read)
        /\ UNCHANGED <<buffer, write, length, endpoint, lwrite, llength, sent, got, configs>>
    BY <1>12 DEF Wrap, local, hist
  <2>2. CASE read' = read
    BY <1>s, <2>1, <2>2 DEF endpoint, Shape, Pended, Room, Stopped, CopyOfWrite, CopyOfLength,
         Contents, Unread
  <2>3. CASE read' = 0 /\ read = length /\ write < read
    <3>1. Contents'
      BY <1>s, <1>t, <2>1, <2>3 DEF Contents, Unread
    <3>2. Shape' /\ Stopped' /\ CopyOfWrite' /\ CopyOfLength'
      BY <1>s, <1>t, <2>1, <2>3 DEF endpoint, Shape, Stopped, CopyOfWrite, CopyOfLength
    <3>3. Pended'
      BY <1>s, <1>t, <2>1, <2>3 DEF endpoint, Pended, Room
    <3> QED
      BY <3>1, <3>2, <3>3
  <2>4. read' = read \/ (read' = 0 /\ read = length /\ write < read)
    BY <1>s, <1>t, <2>1 DEF CopyOfLength
  <2> QED
    BY <2>2, <2>3, <2>4
<1>13. CASE ResumeStart
  <2>1. Contents'
    BY <1>13, <1>s, ContentsUnchanged DEF ResumeStart, hist
  <2>2. Shape' /\ Pended' /\ Stopped' /\ CopyOfWrite' /\ CopyOfLength'
    BY <1>13, <1>s DEF ResumeStart, queue, endpoint, local, hist, Shape, Pended, Room, Stopped,
         CopyOfWrite, CopyOfLength
  <2> QED
    BY <2>1, <2>2
<1>14. CASE ResumeReserve
  <2> DEFINE r == ReserveBlock(write, length)
  <2>1. /\ pc = "reserve"
        /\ write' = r.write /\ length' = r.length
        /\ receivePended' = (receivePended \/ r.ok)
        /\ IF r.ok THEN block' = r.write /\ pc' = "arm" ELSE pc' = "idle"
        /\ UNCHANGED <<buffer, read, xfer, rxBuffer, sent, got, configs>>
    BY <1>14 DEF ResumeReserve, Return, hist
  <2>2. InLap(write, length) /\ configs > 0 /\ ~receivePended /\ xfer # "block"
    BY <1>s, <2>1 DEF Shape, InLap, Pended
  <2>3. /\ write \in 0 .. BufferSize - 1 /\ length \in 0 .. BufferSize /\ read \in 0 .. BufferSize
    BY DEF TypeInv, TypeOK, TypeQueue
  <2>4. /\ InLap(r.write, r.length)
        /\ Holds(buffer, r.write, r.length, sent)
        /\ r.ok \in BOOLEAN
        /\ r.ok => RoomAt(r.write)
        /\ ~r.ok => sent > got
    BY <1>s, <1>t, <2>2, <2>3, ReserveHolds, ContentsHolds
  <2> HIDE DEF r
  <2>5. Contents'
    <3>1. Holds(buffer', write', length', sent') /\ got' = got /\ read' = read
      BY <2>1, <2>4
    <3> QED
      BY <3>1, Zenon DEF Contents, Holds, Unread
  <2>6. InLap(write', length')
    BY <2>1, <2>4
  <2>7. Shape' /\ Stopped' /\ CopyOfWrite' /\ CopyOfLength'
    BY <2>1, <2>2, <2>4, <2>6 DEF InLap, Shape, Stopped, CopyOfWrite, CopyOfLength
  <2>8. Pended'
    BY <1>s, <2>1, <2>2, <2>4 DEF Pended, Room, RoomAt
  <2> QED
    BY <2>5, <2>7, <2>8
<1>15. CASE ResumeArm
  <2>1. Contents'
    BY <1>15, <1>s, ContentsUnchanged DEF ResumeArm, hist
  <2>2. Shape' /\ Stopped' /\ CopyOfWrite' /\ CopyOfLength'
    BY <1>15, <1>s DEF ResumeArm, Return, queue, hist, Shape, Pended, Stopped, CopyOfWrite, CopyOfLength
  <2>3. Pended'
    BY <1>15, <1>s DEF ResumeArm, Return, queue, Pended, Room
  <2> QED
    BY <2>1, <2>2, <2>3
<1> QED
  BY <1>1, <1>2, <1>3, <1>4, <1>5, <1>6, <1>7, <1>8, <1>9, <1>10, <1>11, <1>12, <1>13, <1>14,
     <1>15 DEF Next, MainStep, Resume, Irq

LEMMA StreamInvariant == Spec => [](TypeInv /\ StreamInv)
<1>1. Init => TypeInv /\ StreamInv
  BY TypeInit, StreamInit
<1>2. TypeInv /\ StreamInv /\ [Next]_vars => TypeInv' /\ StreamInv'
  BY TypeStep, StreamStep
<1> QED
  BY <1>1, <1>2, PTL DEF Spec

\* The block that USBD_CDC_Receive relies on is free, for every packet size.
THEOREM BlockAlwaysFree == Spec => []BlockFree
<1>1. TypeInv /\ StreamInv => BlockFree
  BY DEF StreamInv, Pended, Room, BlockFree
<1> QED
  BY <1>1, StreamInvariant, PTL

\* The receive queue neither loses, doubles nor reorders a byte, for every
\* packet size and every interleaving of the interrupt with the sketch.
THEOREM QueueCarriesStream == Spec => []QueueHoldsStream
<1>1. TypeInv /\ StreamInv => QueueHoldsStream
  BY Zenon DEF StreamInv, Contents, QueueHoldsStream
<1> QED
  BY <1>1, StreamInvariant, PTL

\* Whatever the interrupt does after an operation has looked at write and
\* length, the bytes the operation copies are the next ones of the stream, and
\* available() does not promise more than there is.
THEOREM CopiesAreReal == Spec => [](CopiesStream /\ AvailableIsReal)
<1>1. TypeInv /\ StreamInv => CopiesStream /\ AvailableIsReal
  <2> SUFFICES ASSUME TypeInv, StreamInv, Sane PROVE CopiesStream /\ AvailableIsReal
    BY DEF CopiesStream, AvailableIsReal
  <2>1. Shape /\ CopyOfWrite /\ CopyOfLength /\ Contents
    BY DEF StreamInv
  <2>2. /\ write \in Nat /\ read \in Nat /\ length \in Nat /\ lwrite \in Nat /\ llength \in Nat
        /\ sent \in Nat /\ got \in Nat
    BY DEF TypeInv, TypeOK, TypeQueue, TypeLocal, TypeHist
  <2>3. pc = "fetch" => Available <= sent - got
    BY <2>1, <2>2 DEF Available, Shape, CopyOfWrite, CopyOfLength, Contents, Unread
  <2>4. ASSUME pc = "fetch", NEW i \in 0 .. Available - 1
        PROVE  buffer[read + i] = got + 1 + i
    <3>1. Available \in Int /\ i \in Nat /\ i < Available
      BY <2>2 DEF Available
    <3>2. CASE read <= write
      <4>1. read + i \in read .. write - 1
        BY <2>1, <2>2, <2>4, <3>1, <3>2 DEF Available, CopyOfWrite
      <4>2. buffer[read + i] = got + 1 + ((read + i) - read)
        BY <2>1, <3>2, <4>1 DEF Contents
      <4> QED
        BY <2>2, <3>1, <4>2
    <3>3. CASE read > write
      <4>1. read + i \in read .. length - 1
        BY <2>1, <2>2, <2>4, <3>1, <3>3 DEF Available, CopyOfWrite, CopyOfLength
      <4>2. buffer[read + i] = got + 1 + ((read + i) - read)
        BY <2>1, <3>3, <4>1 DEF Contents
      <4> QED
        BY <2>2, <3>1, <4>2
    <3> QED
      BY <2>2, <3>2, <3>3
  <2>5. pc = "check" => ReadSize \in 0 .. sent - got
    BY <2>1, <2>2 DEF ReadSize, Shape, CopyOfWrite, CopyOfLength, Contents, Unread
  <2> QED
    BY <2>3, <2>4, <2>5 DEF CopiesStream, AvailableIsReal
<1> QED
  BY <1>1, StreamInvariant, PTL

\* available() does not promise more bytes than there are, however outdated its
\* copies of write and length.
THEOREM AvailableKeepsPromise == Spec => []AvailableIsReal
BY CopiesAreReal, PTL

\* Reception never stops with an empty queue, so that read() can resume it.
THEOREM NeverStoppedEmpty == Spec => []StoppedOnlyIfUnread
<1>1. TypeInv /\ StreamInv => StoppedOnlyIfUnread
  BY DEF StreamInv, Stopped, StoppedOnlyIfUnread
<1> QED
  BY <1>1, StreamInvariant, PTL

-----------------------------------------------------------------------------
(* The refinement.                                                         *)

\* What the pipe holds is what was sent and not taken, and it fits.
PipeInv ==
  Sane => \E m \in 0 .. BufferSize - 1 : m = sent - got /\ InPipe = Bytes(got, m)

LEMMA InPipeBytes == TypeInv /\ StreamInv => PipeInv
<1> SUFFICES ASSUME TypeInv, StreamInv, Sane
             PROVE  /\ InPipe = Bytes(got, sent - got)
                    /\ sent - got \in 0 .. BufferSize - 1
  BY DEF PipeInv
<1> USE MaxPacketSizeAssumption
<1>1. Shape /\ Contents
  BY DEF StreamInv
<1>2. /\ write \in Nat /\ read \in Nat /\ length \in Nat /\ sent \in Nat /\ got \in Nat
      /\ write < BufferSize /\ length <= BufferSize /\ BufferSize \in Nat
      /\ read <= BufferSize
  BY DEF TypeInv, TypeOK, TypeQueue, TypeHist, BufferSize
<1>3. Unread = sent - got /\ Unread \in 0 .. BufferSize - 1
  BY <1>1, <1>2 DEF Contents, Unread, Shape
<1>4. CASE read <= write
  <2>1. ASSUME NEW k \in 1 .. Unread PROVE buffer[read + k - 1] = got + k
    <3>1. read + k - 1 \in read .. write - 1
      BY <1>2, <1>4 DEF Unread
    <3>2. buffer[read + k - 1] = got + 1 + ((read + k - 1) - read)
      BY <1>1, <1>4, <3>1 DEF Contents
    <3> QED
      BY <1>2, <3>2
  <2>2. InPipe = [k \in 1 .. Unread |-> buffer[read + k - 1]]
    BY <1>4 DEF InPipe
  <2> QED
    BY <1>3, <2>1, <2>2 DEF Bytes
<1>5. CASE read > write
  <2>0. ~(read <= write)
    BY <1>2, <1>5
  <2> DEFINE at(k) == IF read + k <= length THEN buffer[read + k - 1]
                                            ELSE buffer[read + k - 1 - length]
  <2>1. ASSUME NEW k \in 1 .. Unread PROVE at(k) = got + k
    <3>1. CASE read + k <= length
      <4>1. read + k - 1 \in read .. length - 1
        BY <1>2, <3>1 DEF Unread
      <4>2. buffer[read + k - 1] = got + 1 + ((read + k - 1) - read)
        BY <1>1, <1>5, <4>1 DEF Contents
      <4> QED
        BY <1>2, <3>1, <4>2
    <3>2. CASE ~(read + k <= length)
      <4>1. read + k - 1 - length \in 0 .. write - 1
        BY <1>2, <1>5, <3>2 DEF Unread
      <4>2. buffer[read + k - 1 - length]
              = got + 1 + (length - read) + (read + k - 1 - length)
        BY <1>1, <1>5, <4>1 DEF Contents
      <4> QED
        BY <1>2, <3>2, <4>2
    <3> QED
      BY <3>1, <3>2
  <2>2. InPipe = [k \in 1 .. Unread |-> at(k)]
    BY <2>0 DEF InPipe
  <2> HIDE DEF at
  <2> QED
    BY <1>3, <2>1, <2>2 DEF Bytes
<1> QED
  BY <1>2, <1>3, <1>4, <1>5

\* What a step does to the numbers of bytes sent and taken.
LEMMA StreamEffect ==
  ASSUME TypeInv, Next
  PROVE  \/ UNCHANGED <<sent, got>>
         \/ \E n \in Nat : sent' = sent + n /\ got' = got
         \/ \E n \in Nat : got' = got + n /\ sent' = sent
         \/ got' = sent /\ sent' = sent
<1>1. ASSUME NEW n \in 0 .. MaxPacketSize, Receive(n)
      PROVE  n \in Nat /\ sent' = sent + n /\ got' = got
  BY <1>1, MaxPacketSizeAssumption DEF Receive
<1>2. ASSUME NEW n \in 0 .. MaxPacketSize, ReceiveNull(n)
      PROVE  n \in Nat /\ sent' = sent + n /\ got' = got
  BY <1>2, MaxPacketSizeAssumption DEF ReceiveNull
<1>3. CASE UsbReset
  BY <1>3 DEF UsbReset, hist
<1>4. CASE SetConfiguration
  BY <1>4 DEF SetConfiguration
<1>5. ASSUME NEW o \in Ops, Call(o) PROVE UNCHANGED <<sent, got>>
  BY <1>5 DEF Call, hist
<1>6. CASE ReadFetch
  <2>1. PICK n \in 0 .. Available : Take(n)
    BY <1>6 DEF ReadFetch
  <2>2. n \in Nat
    BY DEF TypeInv, TypeOK, TypeQueue, TypeLocal, Available
  <2> QED
    BY <2>1, <2>2 DEF Take
<1>7. CASE DequeueFetch
  BY <1>7 DEF DequeueFetch, Take
<1>8. MainStep => ReadFetch \/ DequeueFetch \/ UNCHANGED hist
  BY DEF MainStep, SampleLength, ReadSizeReturn, Check, PeekReturn, DequeueEmpty, Wrap,
       Resume, ResumePended, ResumeStart, ResumeReserve, ResumeArm
<1>9. CASE UNCHANGED hist
  BY <1>9 DEF hist
<1> QED
  BY <1>1, <1>2, <1>3, <1>4, <1>5, <1>6, <1>7, <1>8, <1>9 DEF Next, Irq

\* Every step of the queue is a step of the pipe, or none.
LEMMA PipeStep ==
  ASSUME TypeInv, PipeInv, TypeInv', PipeInv', [Next]_vars
  PROVE  [Pipe!Next]_(Pipe!vars)
<1>t. sent \in Nat /\ got \in Nat /\ sent' \in Nat /\ got' \in Nat
  BY DEF TypeInv, TypeOK, TypeHist
<1>1. CASE ~Sane'
  BY <1>1 DEF Pipe!Next, Pipe!Break
<1>2. CASE Sane' /\ Next
  <2>1. Sane /\ (~Sane) = FALSE /\ (~Sane)' = FALSE
    BY <1>2, SaneBefore
  <2>2. PICK m \in 0 .. BufferSize - 1 : m = sent - got /\ InPipe = Bytes(got, m)
    BY <2>1 DEF PipeInv
  <2>3. PICK r \in 0 .. BufferSize - 1 : r = sent' - got' /\ InPipe' = Bytes(got', r)
    BY <1>2 DEF PipeInv
  <2>b. BufferSize \in Nat
    BY MaxPacketSizeAssumption DEF BufferSize
  <2>n. m \in Nat /\ r \in Nat /\ sent = got + m
    BY <1>t, <2>2, <2>b
  <2>4. Len(InPipe) = m
    BY <1>t, <2>2, <2>n, BytesSeq
  <2>w. Pipe!Work => Pipe!Next
    BY <1>2, <2>1 DEF Pipe!Next
  <2>5. CASE UNCHANGED <<sent, got>>
    BY <2>1, <2>2, <2>3, <2>5 DEF Pipe!vars
  <2>6. ASSUME NEW n \in Nat, sent' = sent + n, got' = got, n # 0
        PROVE  Pipe!Work
    <3>1. n \in 1 .. BufferSize - 1 /\ m + n <= BufferSize - 1 /\ r = m + n
      BY <1>t, <2>2, <2>3, <2>6, <2>b
    <3>2. InPipe' = InPipe \o Bytes(sent, n)
      <4>1. Bytes(got, m) \o Bytes(got + m, n) = Bytes(got, m + n)
        BY <1>t, <2>n, BytesConcat
      <4> QED
        BY <2>2, <2>3, <2>6, <2>n, <3>1, <4>1
    <3>3. Pipe!Accept(n)
      BY <2>4, <2>6, <3>1, <3>2 DEF Pipe!Accept, Pipe!Run, Bytes
    <3> QED
      BY <3>1, <3>3 DEF Pipe!Work
  <2>7. ASSUME NEW n \in Nat, got' = got + n, sent' = sent, n # 0
        PROVE  Pipe!Work
    <3>1. n \in 1 .. BufferSize - 1 /\ n \in 0 .. m /\ r = m - n
      BY <1>t, <2>2, <2>3, <2>7, <2>b
    <3>2. /\ SubSeq(Bytes(got, m), 1, n) = Bytes(got, n)
          /\ SubSeq(Bytes(got, m), n + 1, m) = Bytes(got + n, m - n)
      BY <1>t, <2>n, <3>1, BytesSub
    <3>3. SubSeq(InPipe, 1, n) = Bytes(got, n) /\ InPipe' = SubSeq(InPipe, n + 1, m)
      BY <2>2, <2>3, <2>7, <3>1, <3>2
    <3>4. Pipe!Deliver(n)
      BY <2>4, <2>7, <3>1, <3>3 DEF Pipe!Deliver, Pipe!Run, Bytes
    <3> QED
      BY <3>1, <3>4 DEF Pipe!Work
  <2>8. CASE got' = sent /\ sent' = sent
    <3>1. InPipe' = <<>>
      BY <1>t, <2>3, <2>8, NoBytes
    <3> QED
      BY <2>w, <2>8, <3>1 DEF Pipe!Work, Pipe!Clear
  <2>9. ASSUME NEW n \in Nat, got' = got + n, sent' = sent
        PROVE  Pipe!Work \/ UNCHANGED <<sent, got>>
    BY <1>t, <2>7, <2>9
  <2>10. \/ UNCHANGED <<sent, got>>
         \/ \E n \in Nat : sent' = sent + n /\ got' = got
         \/ \E n \in Nat : got' = got + n /\ sent' = sent
         \/ got' = sent /\ sent' = sent
    BY <1>2, StreamEffect
  <2>11. ASSUME NEW n \in Nat, sent' = sent + n, got' = got
         PROVE  Pipe!Work \/ UNCHANGED <<sent, got>>
    BY <1>t, <2>6, <2>11
  <2> QED
    BY <2>w, <2>5, <2>8, <2>9, <2>10, <2>11
<1>3. CASE Sane' /\ UNCHANGED vars
  <2>1. UNCHANGED <<sent, got, InPipe, Sane>>
    BY <1>3 DEF vars, queue, hist, InPipe, Sane, Unread
  <2> QED
    BY <2>1 DEF Pipe!vars
<1> QED
  BY <1>1, <1>2, <1>3

\* The lock-free receive queue implements the pipe of ByteStream, for every
\* packet size: each step of the interrupt and of the read operations accepts
\* the next bytes of the host, delivers the oldest to the sketch, empties the
\* pipe (a configuration), or leaves it as it is, until an overrun or a
\* configuration in the middle of an operation breaks it.
THEOREM QueueImplementsPipe == Spec => ImplementsPipe
<1>1. Init => Pipe!Init
  <2> SUFFICES ASSUME Init PROVE Pipe!Init
    OBVIOUS
  <2>1. Sane /\ read = 0 /\ write = 0 /\ sent = 0 /\ got = 0
    BY DEF Init, Sane
  <2>2. Unread = 0
    BY <2>1 DEF Unread
  <2>3. InPipe = [k \in 1 .. 0 |-> buffer[read + k - 1]]
    BY <2>1, <2>2 DEF InPipe
  <2>4. InPipe = <<>>
    BY <2>3
  <2> QED
    BY <2>1, <2>4 DEF Pipe!Init
<1>2. TypeInv /\ PipeInv /\ (TypeInv /\ PipeInv)' /\ [Next]_vars
      => [Pipe!Next]_(Pipe!vars)
  BY PipeStep
<1> QED
  BY <1>1, <1>2, StreamInvariant, InPipeBytes, PTL DEF Spec, ImplementsPipe, Pipe!Spec
=============================================================================
