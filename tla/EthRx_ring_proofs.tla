-------------------------- MODULE EthRx_ring_proofs --------------------------
(***************************************************************************)
(* Proofs about the descriptor ring of EthRx, for every ring length, every *)
(* pool and every bound, as long as every link loss finds the ring         *)
(* drained: how the cursors divide the ring, which part of which frame     *)
(* each descriptor holds, that a packet is one frame and the next one, and *)
(* that neither a wake-up nor a buffer that ends an exhaustion is lost.    *)
(***************************************************************************)
EXTENDS EthRx_proofs, FiniteSetTheorems

\* Descriptors read and not given back, and the next one to read, also while the
\* loop of HAL_ETH_ReadData has not stored them yet.
Taken == IF pc = "read" THEN RxBuildDescCnt + desccnt ELSE RxBuildDescCnt
NextRead == IF pc = "read" THEN descidx ELSE RxDescIdx

\* A whole packet is in the chain, or the first part of one; the number of frames
\* the driver has read whole, and of the frame the DMA stores next.
Complete == pc \in {"read", "build"} /\ rxdataready
Mid == chain # {} /\ ~Complete
Seen == IF Complete \/ pc = "deliver" THEN lastFrame + 1 ELSE lastFrame
Coming == IF dmaOpen THEN frames ELSE frames + 1

\* The cursors divide the ring: t descriptors without a buffer, then those up to
\* the DMA's position k, which hold parts not yet read, then the DMA's.
Layout(t, k) ==
  /\ NextRead = IncrRxDescIndex(RxBuildDescIdx, t)
  /\ dmaIdx = IncrRxDescIndex(RxBuildDescIdx, k)
  /\ \A d \in Desc : buf[d] = NoBuf <=> Ahead(d) < t
  /\ \A d \in Desc : own[d] <=> Ahead(d) >= k

Frame(d) == data[buf[d]].frame
Unread(t, k, d) == t <= Ahead(d) /\ Ahead(d) < k

\* The buffer holds what the descriptor says.
Marked(d) ==
  /\ fd[d] \/ ld[d]
  /\ data[buf[d]].fd <=> fd[d]
  /\ data[buf[d]].ld <=> ld[d]

\* The part in d is followed by one of frame f, which starts it or not (s).
Follows(d, s, f) ==
  /\ s <=> ld[d]
  /\ f = IF ld[d] THEN Frame(d) + 1 ELSE Frame(d)

\* The unread parts are those of consecutive frames, in order: the first follows
\* what was read, each follows the one before it, and the one the DMA stores next
\* will follow the last, or what was read when there is none.
PartsMarked(t, k) == \A d \in Desc : Unread(t, k, d) => Marked(d)
FirstPart(t, k) ==
  \A d \in Desc : Unread(t, k, d) /\ Ahead(d) = t
                    => (fd[d] <=> ~Mid) /\ Frame(d) = Seen + 1
LastPart(t, k) ==
  \A d \in Desc : Unread(t, k, d) /\ Ahead(d) = k - 1
                    => Follows(d, ~dmaOpen, Coming)
PartsFollow(t, k) ==
  \A d, e \in Desc : Unread(t, k, d) /\ Unread(t, k, e) /\ Ahead(e) = Ahead(d) + 1
                       => Follows(d, fd[e], Frame(e))
NoPart(t, k) == t = k => (dmaOpen <=> Mid) /\ Coming = Seen + 1
Parts(t, k) ==
  /\ PartsMarked(t, k) /\ FirstPart(t, k) /\ LastPart(t, k)
  /\ PartsFollow(t, k) /\ NoPart(t, k)

Aligned(t) == \E k \in t .. RxDescCnt : Layout(t, k) /\ Parts(t, k)

\* HAL_ETH_Start_IT goes round a ring whose descriptors are all the DMA's.
Rebuild ==
  /\ pc = "start"
  /\ \A d \in Desc : own[d]
  /\ RxDescIdx = IncrRxDescIndex(RxBuildDescIdx, RxBuildDescCnt)
  /\ dmaIdx = RxDescIdx
  /\ frames = Seen

\* Before the first start no descriptor has a buffer, which is how the ring looks
\* when all are to be given back.
Fresh == gState = "READY" /\ Aligned(RxDescCnt)

\* The driver's states and the main loop's position.
PhaseInv ==
  /\ gState = "BUSY" => pc \in {"start", "started"}
  /\ pc = "start" => gState = "BUSY"
  /\ gState = "READY" \/ pc = "start" => dma # "on"
  /\ pc \in {"read", "build", "stop"} => gState \in {"STARTED", "ERROR"}
  /\ pc = "started" => gState # "READY"

\* A driver that is not started has nothing half received and nothing to give
\* back, and its ring is fresh or all the DMA's.
QuietInv ==
  /\ gState = "READY" \/ pc = "start" => chain = {} /\ ~dmaOpen
  /\ gState = "READY" => RxBuildDescCnt = 0 /\ (Fresh \/ \A d \in Desc : own[d])

\* The packet on its way to lwIP is the next frame, whole.
OneFrame(S) ==
  /\ S # {} /\ S \subseteq Buf
  /\ \A b \in S : data[b].frame = lastFrame + 1
  /\ \E b \in S : data[b].fd
  /\ \E b \in S : data[b].ld

FirstOf(b) == data[b].frame = lastFrame + 1 /\ data[b].fd

ChainInv ==
  /\ Mid => \E b \in Buf : chain = {b} /\ FirstOf(b)
  /\ Complete => OneFrame(chain)
  /\ pc = "deliver" => chain = {} /\ OneFrame(pkt)

AddrInv == \A d \in Desc : own[d] => addr[d] = buf[d]

Running == \E t \in 0 .. RxDescCnt : t = Taken /\ Aligned(t)

RingShape == Fresh \/ Rebuild \/ Running

RingInv == ~dirty => RingShape /\ AddrInv /\ QuietInv /\ ChainInv

\* ethernetif_input() leaves the ring only when it is empty, or a wake-up is due.
WakeInv ==
  /\ gState = "STARTED" /\ ~dirty /\ ~starved
  /\ pc \notin {"input", "read", "deliver"}
  /\ pc = "build" => ~rxdataready
  /\ ~own[RxDescIdx] /\ RxBuildDescCnt < RxDescCnt
  => EthRxEvent \/ RI

\* Reception is blocked only when all the free buffers are gone, and then the
\* ring is not read.
StarveInv ==
  /\ ExhaustionEnds
  /\ RxAllocStatus = "ERROR" => pool = {}
  /\ pc \in {"read", "build"} => RxAllocStatus = "OK"
-----------------------------------------------------------------------------
(* Positions in the ring.                                                  *)

\* Moving on by nothing or by the whole ring stays, and steps add up.
LEMMA IncrSteps ==
  ASSUME NEW i \in Desc
  PROVE  /\ IncrRxDescIndex(i, 0) = i
         /\ IncrRxDescIndex(i, RxDescCnt) = i
         /\ \A k \in 0 .. RxDescCnt - 1 :
              /\ IncrRxDescIndex(IncrRxDescIndex(i, k), 1) = IncrRxDescIndex(i, k + 1)
              /\ IncrRxDescIndex(IncrRxDescIndex(i, 1), k) = IncrRxDescIndex(i, k + 1)
BY RxDescCntAssumption DEF IncrRxDescIndex, Desc

\* Every descriptor has its own position behind RxBuildDescIdx.
LEMMA AheadPositions ==
  ASSUME RxBuildDescIdx \in Desc
  PROVE  /\ \A d \in Desc : Ahead(d) \in 0 .. RxDescCnt - 1
         /\ \A d, e \in Desc : Ahead(d) = Ahead(e) => d = e
         /\ Ahead(RxBuildDescIdx) = 0
         /\ \A k \in 0 .. RxDescCnt - 1 : Ahead(IncrRxDescIndex(RxBuildDescIdx, k)) = k
BY RxDescCntAssumption DEF IncrRxDescIndex, Ahead, Desc

\* When RxBuildDescIdx moves on by one every descriptor comes one nearer, and the
\* one given back becomes the last.
LEMMA AheadMoves ==
  ASSUME RxBuildDescIdx \in Desc,
         RxBuildDescIdx' = IncrRxDescIndex(RxBuildDescIdx, 1)
  PROVE  \A d \in Desc : Ahead(d)' = IF d = RxBuildDescIdx THEN RxDescCnt - 1
                                                           ELSE Ahead(d) - 1
BY RxDescCntAssumption DEF IncrRxDescIndex, Ahead, Desc
-----------------------------------------------------------------------------
(* What the driver's state says of the main loop.                          *)

LEMMA PhaseInit == Init => PhaseInv
BY DEF Init, PhaseInv

LEMMA PhaseStep == TypeInv /\ PhaseInv /\ [Next]_vars => PhaseInv'
<1> SUFFICES ASSUME TypeInv, PhaseInv, [Next]_vars PROVE PhaseInv'
  OBVIOUS
<1>0. TypeMain /\ TypeWire
  BY DEF TypeInv, TypeOK
<1> USE DEF PhaseInv, wire, Goto
<1>1. CASE \E last \in BOOLEAN : DmaReceive(last)
  BY <1>1 DEF DmaReceive
<1>2. CASE RxIrq \/ FatalBusErrorIrq \/ \E b \in Buf : AppFree(b)
  BY <1>2 DEF RxIrq, FatalBusErrorIrq, AppFree
<1>3. CASE NetProcess \/ RxEventClear \/ LowLevelInput
  BY <1>3 DEF NetProcess, RxEventClear, LowLevelInput
<1>4. CASE ReadDesc \/ ReadDone \/ BuildDesc \/ ReadReturn
  BY <1>4 DEF ReadDesc, ReadDone, BuildDesc, ReadReturn
<1>5. CASE DeliverFreed \/ DeliverHeld \/ SysCheckTimeouts \/ LinkUnchanged
  BY <1>5 DEF DeliverFreed, DeliverHeld, SysCheckTimeouts, LinkUnchanged
<1>6. CASE LinkDown \/ StopReturn
  BY <1>6 DEF LinkDown, StopReturn, NetifDown
<1>7. CASE LinkUp \/ StartEnable \/ StartReturn \/ SketchLoop
  BY <1>0, <1>7 DEF LinkUp, StartEnable, StartReturn, SketchLoop, NetifUp, TypeMain
<1>8. CASE UNCHANGED vars
  BY <1>8 DEF vars
<1> QED
  BY <1>1, <1>2, <1>3, <1>4, <1>5, <1>6, <1>7, <1>8
     DEF Next, Main, ReadBuildDesc, StartBuildDesc
-----------------------------------------------------------------------------
(* Steps that leave the ring as it is.                                     *)

\* Nothing the layout or the parts depend on changes.
RingKept ==
  /\ UNCHANGED <<own, buf, fd, ld, RxBuildDescIdx, dmaIdx, dmaOpen, frames>>
  /\ \A d \in Desc : buf[d] \in Buf => data'[buf[d]] = data[buf[d]]
  /\ NextRead' = NextRead
  /\ Mid' <=> Mid
  /\ Seen' = Seen

LEMMA AlignedKept ==
  ASSUME TypeOK, RingKept, NEW t \in 0 .. RxDescCnt, Aligned(t)
  PROVE  Aligned(t)'
<1>1. PICK k \in t .. RxDescCnt : Layout(t, k) /\ Parts(t, k)
  BY DEF Aligned
<1>2. \A d \in Desc : Ahead(d)' = Ahead(d)
  BY DEF RingKept, Ahead
<1>3. Layout(t, k)'
  BY <1>1, <1>2 DEF RingKept, Layout
<1>4. ASSUME NEW d \in Desc, Unread(t, k, d)'
      PROVE  Unread(t, k, d) /\ data'[buf'[d]] = data[buf[d]]
  <2>1. Ahead(d) \in 0 .. RxDescCnt - 1
    BY AheadPositions DEF TypeOK, TypeCursor
  <2> QED
    BY <1>1, <1>2, <1>4, <2>1, RxDescCntAssumption
       DEF Unread, RingKept, Layout, TypeOK, TypeRing
<1>5. ASSUME NEW d \in Desc, Unread(t, k, d)'
      PROVE  /\ Unread(t, k, d) /\ Frame(d)' = Frame(d)
             /\ Marked(d) => Marked(d)'
  BY <1>4, <1>5 DEF Frame, Marked, RingKept
<1>6. Coming' = Coming
  BY DEF Coming, RingKept
<1>7. PartsMarked(t, k)'
  BY <1>1, <1>5 DEF Parts, PartsMarked
<1>8. FirstPart(t, k)'
  BY <1>1, <1>2, <1>5 DEF Parts, FirstPart, RingKept
<1>9. LastPart(t, k)'
  BY <1>1, <1>2, <1>5, <1>6 DEF Parts, LastPart, Follows, RingKept
<1>10. PartsFollow(t, k)'
  BY <1>1, <1>2, <1>5 DEF Parts, PartsFollow, Follows, RingKept
<1>11. NoPart(t, k)'
  BY <1>1, <1>6 DEF Parts, NoPart, RingKept
<1> QED
  BY <1>3, <1>7, <1>8, <1>9, <1>10, <1>11 DEF Aligned, Parts

\* The main loop moves on and touches neither the ring nor a packet.
LEMMA RingSame ==
  ASSUME TypeOK, RingInv,
         UNCHANGED <<own, addr, buf, fd, ld, cursor, chain, pkt, data, dmaIdx,
                     dmaOpen, frames, lastFrame, dirty>>,
         gState' = "READY" <=> gState = "READY",
         pc' = "start" <=> pc = "start",
         pc' = "deliver" <=> pc = "deliver",
         Complete' <=> Complete, Taken' = Taken, NextRead' = NextRead
  PROVE  RingInv'
<1> SUFFICES ASSUME ~dirty' PROVE (RingShape /\ AddrInv /\ QuietInv /\ ChainInv)'
  BY DEF RingInv
<1>1. RingShape /\ AddrInv /\ QuietInv /\ ChainInv
  BY DEF RingInv
<1>2. (Mid' <=> Mid) /\ Seen' = Seen
  BY DEF Mid, Seen
<1>3. RingKept
  BY <1>2 DEF RingKept, cursor
<1>4. ASSUME NEW t \in 0 .. RxDescCnt, Aligned(t) PROVE Aligned(t)'
  BY <1>3, <1>4, AlignedKept
<1>5. Fresh => Fresh'
  BY <1>4, RxDescCntAssumption DEF Fresh
<1>6. Rebuild => Rebuild'
  BY <1>2 DEF Rebuild, cursor
<1>7. Running => Running'
  BY <1>4 DEF Running
<1>8. QuietInv'
  BY <1>1, <1>5 DEF QuietInv, cursor
<1>9. ChainInv'
  BY <1>1, <1>2 DEF ChainInv, OneFrame, FirstOf
<1> QED
  BY <1>1, <1>5, <1>6, <1>7, <1>8, <1>9 DEF RingShape, AddrInv
-----------------------------------------------------------------------------
(* Steps that change the ring.                                             *)

\* A ring that is running: neither before the first start nor being rebuilt.
LEMMA RunningShape ==
  ASSUME RingShape, gState # "READY", pc # "start"
  PROVE  Running
BY DEF RingShape, Fresh, Rebuild

\* The DMA stores the next part of a frame in its descriptor, the first after
\* the unread ones.
LEMMA RingDma ==
  ASSUME TypeOK, BufInv, PhaseInv, RingInv,
         NEW last \in BOOLEAN, DmaReceive(last)
  PROVE  RingInv'
<1> SUFFICES ASSUME ~dirty' PROVE (RingShape /\ AddrInv /\ QuietInv /\ ChainInv)'
  BY DEF RingInv
<1>0. RingShape /\ AddrInv /\ QuietInv /\ ChainInv
  BY DEF RingInv, DmaReceive, hist
<1>1. /\ gState # "READY" /\ pc # "start"
      /\ UNCHANGED <<gState, pc, buf, cursor, local, chain, pkt, lastFrame>>
  BY <1>0 DEF DmaReceive, PhaseInv, QuietInv, hist
<1>2. PICK t \in 0 .. RxDescCnt : t = Taken /\ Aligned(t)
  BY <1>0, <1>1, RunningShape DEF Running
<1>3. PICK k \in t .. RxDescCnt : Layout(t, k) /\ Parts(t, k)
  BY <1>2 DEF Aligned
<1>d. PICK d \in Desc : d = dmaIdx
  BY DEF TypeOK, TypeWire
<1>4. /\ own[d] /\ RxBuildDescIdx \in Desc
      /\ addr[d] = buf[d] /\ buf[d] \in Buf
  BY <1>0, <1>d DEF DmaReceive, TypeOK, TypeWire, TypeCursor, BufInv, DmaOwnsBuffer, AddrInv
<1>5. \A e \in Desc : Ahead(e) \in 0 .. RxDescCnt - 1 /\ Ahead(e)' = Ahead(e)
  BY <1>1, <1>4, AheadPositions DEF Ahead, cursor
<1>6. k < RxDescCnt /\ Ahead(d) = k
  <2>1. k # RxDescCnt
    BY <1>3, <1>4, <1>5, <1>d, IncrSteps, RxDescCntAssumption DEF Layout
  <2> QED
    BY <1>3, <1>4, <1>d, <2>1, AheadPositions, RxDescCntAssumption DEF Layout
<1>7. \A e \in Desc : e # d => Ahead(e) # k
  BY <1>4, <1>6, AheadPositions
<1>8. /\ data'[buf'[d]].frame = Coming
      /\ data'[buf'[d]].fd <=> ~dmaOpen
      /\ data'[buf'[d]].ld <=> last
      /\ fd'[d] <=> ~dmaOpen
      /\ ld'[d] <=> last
      /\ ~own'[d]
      /\ dmaOpen' <=> ~last
      /\ frames' = Coming
      /\ dmaIdx' = IncrRxDescIndex(d, 1)
      /\ dmaOpen => last
  BY <1>1, <1>4, <1>d DEF DmaReceive, Coming, TypeOK, TypeRing
<1>9. \A e \in Desc : e # d =>
        /\ own'[e] = own[e] /\ fd'[e] = fd[e] /\ ld'[e] = ld[e]
        /\ addr'[e] = addr[e]
  BY <1>4, <1>d DEF DmaReceive, TypeOK, TypeRing
<1>10. \A b \in Buf : b # buf[d] => data'[b] = data[b]
  BY <1>4, <1>d DEF DmaReceive
<1>11. \A e \in Desc : e # d /\ buf[e] # NoBuf => data'[buf'[e]] = data[buf[e]]
  BY <1>1, <1>4, <1>10 DEF BufInv, BufferConservation, TypeOK, TypeRing
<1>12. /\ NextRead' = NextRead /\ Taken' = Taken /\ Seen' = Seen
       /\ Mid' = Mid /\ Complete' = Complete
  BY <1>1 DEF NextRead, descidx, Taken, Seen, Mid, Complete, cursor, local
<1>13. Layout(t, k + 1)'
  <2>1. dmaIdx' = IncrRxDescIndex(RxBuildDescIdx', k + 1)
    BY <1>1, <1>3, <1>4, <1>6, <1>8, <1>d, IncrSteps, RxDescCntAssumption DEF Layout, cursor
  <2>2. \A e \in Desc : own'[e] <=> Ahead(e)' >= k + 1
    BY <1>3, <1>5, <1>6, <1>7, <1>8, <1>9 DEF Layout
  <2> QED
    BY <1>1, <1>3, <1>5, <1>12, <2>1, <2>2 DEF Layout, cursor
<1>14. \A e \in Desc : Unread(t, k + 1, e)' => e = d \/ (e # d /\ Unread(t, k, e))
  BY <1>5, <1>7 DEF Unread
<1>15. \A e \in Desc : Unread(t, k, e) => buf[e] # NoBuf
  BY <1>3, <1>5 DEF Unread, Layout
<1>16. ASSUME NEW e \in Desc, e # d, Unread(t, k, e)
       PROVE  Frame(e)' = Frame(e) /\ (Marked(e) => Marked(e)')
  BY <1>9, <1>11, <1>15, <1>16 DEF Frame, Marked
<1>17. Frame(d)' = Coming /\ Marked(d)'
  BY <1>8 DEF Frame, Marked
<1>18. PartsMarked(t, k + 1)'
  BY <1>3, <1>14, <1>16, <1>17 DEF Parts, PartsMarked
<1>19. FirstPart(t, k + 1)'
  BY <1>3, <1>5, <1>6, <1>8, <1>9, <1>12, <1>14, <1>16, <1>17
     DEF Parts, FirstPart, NoPart
<1>20. LastPart(t, k + 1)'
  <2>1. ASSUME NEW e \in Desc, Ahead(e)' = k + 1 - 1 PROVE e = d
    BY <1>5, <1>7, <2>1
  <2>2. Coming \in Int /\ Coming' = IF last THEN Coming + 1 ELSE Coming
    BY <1>8 DEF Coming, TypeOK, TypeWire
  <2> QED
    BY <1>8, <1>17, <2>1, <2>2 DEF LastPart, Follows
<1>21. PartsFollow(t, k + 1)'
  <2> SUFFICES ASSUME NEW x \in Desc, NEW y \in Desc, Unread(t, k + 1, x)',
                      Unread(t, k + 1, y)', Ahead(y)' = Ahead(x)' + 1
               PROVE  Follows(x, fd[y], Frame(y))'
    BY DEF PartsFollow
  <2>1. x # d /\ Unread(t, k, x) /\ Ahead(y) = Ahead(x) + 1
    BY <1>5, <1>6, <1>14 DEF Unread
  <2>2. CASE y = d
    BY <1>3, <1>5, <1>6, <1>8, <1>9, <1>16, <1>17, <2>1, <2>2
       DEF Parts, LastPart, Follows
  <2>3. CASE y # d
    BY <1>3, <1>9, <1>14, <1>16, <2>1, <2>3 DEF Parts, PartsFollow, Follows
  <2> QED
    BY <2>2, <2>3
<1>22. NoPart(t, k + 1)'
  BY DEF NoPart
<1>23. Running'
  <2>1. k + 1 \in t .. RxDescCnt
    BY <1>6, RxDescCntAssumption
  <2>2. Aligned(t)'
    BY <1>13, <1>18, <1>19, <1>20, <1>21, <1>22, <2>1 DEF Aligned, Parts
  <2> QED
    BY <1>2, <1>12, <2>2 DEF Running
<1>24. AddrInv'
  BY <1>0, <1>1, <1>8, <1>9 DEF AddrInv
<1>25. QuietInv'
  BY <1>1 DEF QuietInv
<1>26. ChainInv'
  <2>1. \A b \in (chain \cup pkt) \cap Buf : data'[b] = data[b]
    BY <1>4, <1>10, NoBufAssumption DEF BufInv, BufferConservation, Attached
  <2>2. OneFrame(chain) => OneFrame(chain)'
    BY <1>1, <2>1 DEF OneFrame
  <2>3. OneFrame(pkt) => OneFrame(pkt)'
    BY <1>1, <2>1 DEF OneFrame
  <2> QED
    BY <1>0, <1>1, <1>12, <2>1, <2>2, <2>3 DEF ChainInv, FirstOf
<1> QED
  BY <1>23, <1>24, <1>25, <1>26 DEF RingShape

\* HAL_ETH_ReadData takes the first unread part: it starts a frame unless one is
\* being assembled, which it then continues and ends.
LEMMA RingRead ==
  ASSUME TypeInv, BufInv, PhaseInv, RingInv, ReadDesc
  PROVE  RingInv'
<1> SUFFICES ASSUME ~dirty' PROVE (RingShape /\ AddrInv /\ QuietInv /\ ChainInv)'
  BY DEF RingInv
<1>0. RingShape /\ AddrInv /\ QuietInv /\ ChainInv
  BY DEF RingInv, ReadDesc, hist
<1>1. /\ TypeOK
      /\ gState # "READY" /\ pc = "read" /\ ~rxdataready
      /\ desccnt < RxDescCnt - RxBuildDescCnt /\ desccnt' = desccnt + 1
      /\ UNCHANGED <<gState, pc, own, addr, fd, ld, cursor, pkt, wire, lastFrame>>
  BY DEF ReadDesc, CanReadDesc, PhaseInv, hist, TypeInv
<1>2. PICK t \in 0 .. RxDescCnt : t = Taken /\ Aligned(t)
  BY <1>0, <1>1, RunningShape DEF Running
<1>3. PICK k \in t .. RxDescCnt : Layout(t, k) /\ Parts(t, k)
  BY <1>2 DEF Aligned
<1>4. t = RxBuildDescCnt + desccnt /\ t < RxDescCnt
  BY <1>1, <1>2, RxDescCntAssumption DEF Taken, TypeOK, TypeCursor, TypeLocal
<1>5. PICK d \in Desc : d = descidx
  BY <1>1, IncrInDesc DEF descidx, TypeOK, TypeCursor, TypeLocal
<1>6. RxBuildDescIdx \in Desc /\ ~own[d] /\ d = IncrRxDescIndex(RxBuildDescIdx, t)
  BY <1>1, <1>3, <1>5 DEF ReadDesc, CanReadDesc, Layout, NextRead, TypeOK, TypeCursor
<1>7. \A e \in Desc : Ahead(e) \in 0 .. RxDescCnt - 1 /\ Ahead(e)' = Ahead(e)
  BY <1>1, <1>6, AheadPositions DEF Ahead, cursor
<1>8. Ahead(d) = t /\ t < k
  <2>1. Ahead(d) = t
    BY <1>4, <1>6, AheadPositions, RxDescCntAssumption
  <2> QED
    BY <1>3, <1>6, <2>1 DEF Layout
<1>9. \A e \in Desc : e # d => Ahead(e) # t
  BY <1>6, <1>8, AheadPositions
<1>10. Unread(t, k, d) /\ buf[d] \in Buf
  <2>1. Unread(t, k, d)
    BY <1>8 DEF Unread
  <2>2. buf[d] # NoBuf
    BY <1>3, <1>8 DEF Layout
  <2> QED
    BY <1>1, <2>1, <2>2 DEF TypeOK, TypeRing
<1>11. /\ fd[d] <=> chain = {}
       /\ Frame(d) = lastFrame + 1
       /\ Marked(d)
  BY <1>1, <1>3, <1>8, <1>10
     DEF Parts, FirstPart, PartsMarked, Mid, Complete, Seen
<1>12. /\ rxdataready' = ld[d]
       /\ chain' = chain \cup {buf[d]}
       /\ buf' = [buf EXCEPT ![d] = NoBuf]
  BY <1>5, <1>11 DEF ReadDesc
<1>13. /\ Complete' <=> ld[d]
       /\ Mid' <=> ~ld[d]
       /\ Seen' = IF ld[d] THEN lastFrame + 1 ELSE lastFrame
  <2>1. Complete' <=> ld[d]
    BY <1>1, <1>12 DEF Complete
  <2>2. chain' # {}
    BY <1>12
  <2> QED
    BY <1>1, <2>1, <2>2 DEF Mid, Seen
<1>14. /\ buf'[d] = NoBuf
       /\ \A e \in Desc : e # d => buf'[e] = buf[e] /\ Frame(e)' = Frame(e)
       /\ \A e \in Desc : e # d /\ Marked(e) => Marked(e)'
  BY <1>1, <1>12 DEF TypeOK, TypeRing, Frame, Marked, wire
<1>15. NextRead' = IncrRxDescIndex(RxBuildDescIdx, t + 1) /\ Taken' = t + 1
  <2>1. NextRead' = IncrRxDescIndex(RxDescIdx, desccnt + 1)
    BY <1>1 DEF NextRead, descidx, cursor
  <2>2. NextRead' = IncrRxDescIndex(d, 1)
    BY <1>1, <1>4, <1>5, <2>1, IncrSteps, RxDescCntAssumption
       DEF descidx, TypeOK, TypeCursor, TypeLocal
  <2>3. Taken' = t + 1
    BY <1>1, <1>4, RxDescCntAssumption DEF Taken, cursor, TypeOK, TypeCursor, TypeLocal
  <2> QED
    BY <1>4, <1>6, <2>2, <2>3, IncrSteps, RxDescCntAssumption
<1>16. Layout(t + 1, k)'
  <2>1. \A e \in Desc : buf'[e] = NoBuf <=> Ahead(e)' < t + 1
    BY <1>3, <1>7, <1>8, <1>9, <1>14 DEF Layout
  <2> QED
    BY <1>1, <1>3, <1>7, <1>15, <2>1 DEF Layout, cursor, wire
<1>17. \A e \in Desc : Unread(t + 1, k, e)' => e # d /\ Unread(t, k, e)
  BY <1>7, <1>8 DEF Unread
<1>18. Coming' = Coming /\ lastFrame \in Int /\ frames \in Int
  BY <1>1 DEF Coming, wire, TypeOK, TypeHist, TypeWire
<1>19. PartsMarked(t + 1, k)'
  BY <1>3, <1>14, <1>17 DEF Parts, PartsMarked
<1>20. FirstPart(t + 1, k)'
  <2> SUFFICES ASSUME NEW e \in Desc, Unread(t + 1, k, e)', Ahead(e)' = t + 1
               PROVE  (fd'[e] <=> ~Mid') /\ Frame(e)' = Seen' + 1
    BY DEF FirstPart
  <2>1. e # d /\ Unread(t, k, e) /\ Ahead(e) = Ahead(d) + 1
    BY <1>7, <1>8, <1>17
  <2>2. Follows(d, fd[e], Frame(e))
    BY <1>3, <1>10, <2>1 DEF Parts, PartsFollow
  <2>3. fd'[e] = fd[e] /\ Frame(e)' = Frame(e)
    BY <1>1, <1>14, <2>1
  <2> QED
    BY <1>11, <1>13, <1>18, <2>2, <2>3 DEF Follows
<1>21. LastPart(t + 1, k)'
  BY <1>1, <1>3, <1>7, <1>14, <1>17, <1>18 DEF Parts, LastPart, Follows, wire
<1>22. PartsFollow(t + 1, k)'
  BY <1>1, <1>3, <1>7, <1>14, <1>17 DEF Parts, PartsFollow, Follows
<1>23. NoPart(t + 1, k)'
  <2> SUFFICES ASSUME t + 1 = k PROVE (dmaOpen' <=> Mid') /\ Coming' = Seen' + 1
    BY DEF NoPart
  <2>1. Follows(d, ~dmaOpen, Coming)
    BY <1>3, <1>8, <1>10 DEF Parts, LastPart
  <2> QED
    BY <1>1, <1>11, <1>13, <1>18, <2>1 DEF Follows, wire
<1>24. Running'
  <2>1. k \in t + 1 .. RxDescCnt /\ t + 1 \in 0 .. RxDescCnt
    BY <1>4, <1>8, RxDescCntAssumption
  <2>2. Aligned(t + 1)'
    BY <1>16, <1>19, <1>20, <1>21, <1>22, <1>23, <2>1 DEF Aligned, Parts
  <2> QED
    BY <1>15, <2>1, <2>2 DEF Running
<1>25. AddrInv'
  BY <1>0, <1>1, <1>6, <1>14 DEF AddrInv
<1>26. QuietInv'
  BY <1>1 DEF QuietInv
<1>27. ChainInv'
  <2>1. /\ data' = data /\ lastFrame' = lastFrame /\ pc' = "read"
        /\ data[buf[d]].frame = lastFrame + 1
        /\ data[buf[d]].fd <=> fd[d]
        /\ data[buf[d]].ld <=> ld[d]
        /\ fd[d] \/ ld[d]
    BY <1>1, <1>11 DEF wire, Frame, Marked
  <2>2. CASE chain = {}
    <3>1. chain' = {buf[d]} /\ fd[d]
      BY <1>11, <1>12, <2>2
    <3>2. ld[d] => OneFrame(chain)'
      BY <1>10, <2>1, <3>1 DEF OneFrame
    <3> QED
      BY <1>10, <1>13, <2>1, <3>1, <3>2 DEF ChainInv, FirstOf
  <2>3. CASE chain # {}
    <3>1. PICK b \in Buf : chain = {b} /\ FirstOf(b)
      BY <1>0, <1>1, <2>3 DEF ChainInv, Mid, Complete
    <3>2. chain' = {b, buf[d]} /\ ld[d]
      BY <1>12, <1>11, <2>1, <2>3, <3>1
    <3>3. OneFrame(chain)'
      BY <1>10, <2>1, <3>1, <3>2 DEF OneFrame, FirstOf
    <3> QED
      BY <1>13, <2>1, <3>2, <3>3 DEF ChainInv
  <2> QED
    BY <2>2, <2>3
<1> QED
  BY <1>24, <1>25, <1>26, <1>27 DEF RingShape

\* ETH_UpdateDescriptor gives back the first descriptor that was read, which
\* becomes the last of the DMA's; or it goes round a ring that has them all.
LEMMA RingBuild ==
  ASSUME TypeInv, BufInv, PhaseInv, RingInv, BuildDesc, pc \in {"build", "start"}
  PROVE  RingInv'
<1> SUFFICES ASSUME ~dirty' PROVE (RingShape /\ AddrInv /\ QuietInv /\ ChainInv)'
  BY DEF RingInv
<1>0. RingShape /\ AddrInv /\ QuietInv /\ ChainInv
  BY DEF RingInv, BuildDesc, hist
<1>1. /\ TypeOK /\ gState # "READY" /\ RxBuildDescCnt \in 1 .. RxDescCnt
      /\ RxBuildDescIdx' = IncrRxDescIndex(RxBuildDescIdx, 1)
      /\ RxBuildDescCnt' = RxBuildDescCnt - 1
      /\ UNCHANGED <<gState, pc, fd, ld, RxDescIdx, local, chain, pkt, wire, lastFrame>>
  BY DEF BuildDesc, PhaseInv, hist, TypeInv, TypeOK, TypeCursor
<1>2. PICK d \in Desc : d = RxBuildDescIdx
  BY <1>1 DEF TypeOK, TypeCursor
<1>3. /\ own'[d]
      /\ \A e \in Desc : e # d => own'[e] = own[e]
  BY <1>1, <1>2 DEF BuildDesc, TypeOK, TypeRing
<1>4. (Mid' <=> Mid) /\ Seen' = Seen /\ Coming' = Coming /\ (Complete' <=> Complete)
  BY <1>1 DEF Mid, Seen, Coming, Complete, local, wire
<1>5. QuietInv'
  BY <1>0, <1>1 DEF QuietInv, wire
<1>6. ChainInv'
  <2>1. OneFrame(chain) => OneFrame(chain)'
    BY <1>1 DEF OneFrame, wire
  <2>2. OneFrame(pkt) => OneFrame(pkt)'
    BY <1>1 DEF OneFrame, wire
  <2> QED
    BY <1>0, <1>1, <1>4, <2>1, <2>2 DEF ChainInv, FirstOf, wire
<1>7. CASE Rebuild
  <2>1. buf[d] # NoBuf
    BY <1>7, NoBufAssumption DEF Rebuild, BufInv, DmaOwnsBuffer
  <2>2. buf' = buf /\ addr' = addr
    BY <1>2, <2>1, AttachBufferCases DEF BuildDesc
  <2>3. \A e \in Desc : own[e] /\ own'[e]
    BY <1>3, <1>7 DEF Rebuild
  <2>4. RxDescIdx' = IncrRxDescIndex(RxBuildDescIdx', RxBuildDescCnt')
    BY <1>1, <1>2, <1>7, IncrSteps, RxDescCntAssumption DEF Rebuild
  <2>5. Rebuild'
    BY <1>1, <1>4, <1>7, <2>3, <2>4 DEF Rebuild, wire
  <2>6. AddrInv'
    BY <1>0, <2>2, <2>3 DEF AddrInv
  <2> QED
    BY <1>5, <1>6, <2>5, <2>6 DEF RingShape
<1>8. CASE ~Rebuild
  <2>1. PICK t \in 0 .. RxDescCnt : t = Taken /\ Aligned(t)
    BY <1>0, <1>1, <1>8 DEF RingShape, Fresh, Running
  <2>2. PICK k \in t .. RxDescCnt : Layout(t, k) /\ Parts(t, k)
    BY <2>1 DEF Aligned
  <2>3. t = RxBuildDescCnt /\ t > 0 /\ NextRead = RxDescIdx /\ NextRead' = RxDescIdx
    BY <1>1, <2>1 DEF Taken, NextRead
  <2>4. /\ \A e \in Desc : Ahead(e) \in 0 .. RxDescCnt - 1
        /\ Ahead(d) = 0
        /\ \A e \in Desc : e # d => Ahead(e) # 0
    BY <1>2, AheadPositions
  <2>5. \A e \in Desc : Ahead(e)' = IF e = d THEN RxDescCnt - 1 ELSE Ahead(e) - 1
    BY <1>1, <1>2, AheadMoves
  <2>6. buf[d] = NoBuf
    BY <2>2, <2>3, <2>4 DEF Layout
  <2>7. PICK b \in pool : /\ buf' = [buf EXCEPT ![d] = b]
                         /\ addr' = [addr EXCEPT ![d] = b]
    BY <1>2, <2>6, AttachBufferCases DEF BuildDesc
  <2>8. b # NoBuf
    BY <1>1, NoBufAssumption DEF TypeOK, TypeAlloc
  <2>9. /\ buf'[d] = b /\ addr'[d] = b
        /\ \A e \in Desc : e # d => buf'[e] = buf[e] /\ addr'[e] = addr[e]
    BY <1>1, <2>7 DEF TypeOK, TypeRing
  <2>10. Layout(t - 1, k - 1)'
    <3>1. /\ RxDescIdx = IncrRxDescIndex(RxBuildDescIdx', t - 1)
          /\ dmaIdx = IncrRxDescIndex(RxBuildDescIdx', k - 1)
      <4>1. ASSUME NEW j \in 1 .. RxDescCnt
            PROVE  IncrRxDescIndex(RxBuildDescIdx', j - 1) = IncrRxDescIndex(d, j)
        <5>1. j - 1 \in 0 .. RxDescCnt - 1 /\ (j - 1) + 1 = j
          BY RxDescCntAssumption
        <5> QED
          BY <1>1, <1>2, <5>1, IncrSteps
      <4>2. t \in 1 .. RxDescCnt /\ k \in 1 .. RxDescCnt
        BY <2>3, RxDescCntAssumption
      <4> QED
        BY <1>2, <2>2, <2>3, <4>1, <4>2 DEF Layout
    <3>2. \A e \in Desc : buf'[e] = NoBuf <=> Ahead(e)' < t - 1
      BY <2>2, <2>3, <2>4, <2>5, <2>8, <2>9, RxDescCntAssumption DEF Layout
    <3>3. \A e \in Desc : own'[e] <=> Ahead(e)' >= k - 1
      BY <1>3, <2>2, <2>3, <2>4, <2>5, RxDescCntAssumption DEF Layout
    <3> QED
      BY <1>1, <2>3, <3>1, <3>2, <3>3 DEF Layout, wire
  <2>11. \A e \in Desc : Unread(t - 1, k - 1, e)' =>
           e # d /\ Unread(t, k, e) /\ Ahead(e)' = Ahead(e) - 1
    BY <2>2, <2>3, <2>4, <2>5, RxDescCntAssumption DEF Unread
  <2>12. \A e \in Desc : e # d => Frame(e)' = Frame(e) /\ (Marked(e) => Marked(e)')
    BY <1>1, <2>9 DEF Frame, Marked, wire
  <2>13. PartsMarked(t - 1, k - 1)'
    BY <2>2, <2>11, <2>12 DEF Parts, PartsMarked
  <2>14. FirstPart(t - 1, k - 1)'
    BY <1>1, <1>4, <2>2, <2>4, <2>11, <2>12 DEF Parts, FirstPart
  <2>15. LastPart(t - 1, k - 1)'
    BY <1>1, <1>4, <2>2, <2>4, <2>11, <2>12 DEF Parts, LastPart, Follows, wire
  <2>16. PartsFollow(t - 1, k - 1)'
    BY <1>1, <2>2, <2>4, <2>11, <2>12 DEF Parts, PartsFollow, Follows
  <2>17. NoPart(t - 1, k - 1)'
    BY <1>1, <1>4, <2>2 DEF Parts, NoPart, wire
  <2>18. k - 1 \in t - 1 .. RxDescCnt /\ t - 1 \in 0 .. RxDescCnt
    BY <2>3, RxDescCntAssumption
  <2>19. Aligned(t - 1)'
    BY <2>10, <2>13, <2>14, <2>15, <2>16, <2>17, <2>18 DEF Aligned, Parts
  <2>20. Taken' = t - 1
    BY <1>1, <2>3 DEF Taken
  <2>21. AddrInv'
    BY <1>0, <1>3, <2>9 DEF AddrInv
  <2> QED
    BY <1>5, <1>6, <2>18, <2>19, <2>20, <2>21 DEF RingShape, Running
<1> QED
  BY <1>7, <1>8
-----------------------------------------------------------------------------
(* Steps that move a packet.                                               *)

\* HAL_ETH_ReadData hands a whole packet to ethernetif_input().
LEMMA RingReturn ==
  ASSUME TypeOK, BufInv, PhaseInv, RingInv, ReadReturn, rxdataready
  PROVE  RingInv'
<1> SUFFICES ASSUME ~dirty' PROVE (RingShape /\ AddrInv /\ QuietInv /\ ChainInv)'
  BY DEF RingInv
<1>0. RingShape /\ AddrInv /\ QuietInv /\ ChainInv
  BY DEF RingInv, ReadReturn, hist
<1>1. /\ pc = "build" /\ pc' = "deliver" /\ pkt' = chain /\ chain' = {}
      /\ gState # "READY"
      /\ UNCHANGED <<gState, ring, cursor, wire, lastFrame>>
  BY DEF ReadReturn, Goto, PhaseInv, hist
<1>2. Complete /\ ~Complete' /\ ~Mid /\ ~Mid' /\ Seen' = Seen
  BY <1>1 DEF Complete, Mid, Seen
<1>3. NextRead' = NextRead /\ Taken' = Taken
  BY <1>1 DEF NextRead, Taken, cursor
<1>4. RingKept
  BY <1>1, <1>2, <1>3 DEF RingKept, ring, cursor, wire
<1>5. Running'
  <2>1. PICK t \in 0 .. RxDescCnt : t = Taken /\ Aligned(t)
    BY <1>0, <1>1, RunningShape DEF Running
  <2>2. Aligned(t)'
    BY <1>4, <2>1, AlignedKept
  <2> QED
    BY <1>3, <2>1, <2>2 DEF Running
<1>6. OneFrame(pkt)'
  BY <1>0, <1>1, <1>2 DEF ChainInv, OneFrame, wire
<1> QED
  BY <1>0, <1>1, <1>2, <1>5, <1>6
     DEF RingShape, AddrInv, QuietInv, ChainInv, ring

\* The packet ethernetif_input() delivers is the next frame.
LEMMA NextFrame ==
  ASSUME OneFrame(pkt)
  PROVE  FrameOf(pkt) = lastFrame + 1
<1> DEFINE F == {data[b].frame : b \in pkt \cap Buf}
<1>1. F = {lastFrame + 1}
  BY DEF OneFrame
<1>2. F # {} /\ (CHOOSE f \in F : TRUE) = lastFrame + 1
  BY <1>1
<1> QED
  BY <1>2 DEF FrameOf

\* netif->input() takes the packet.
LEMMA RingDeliver ==
  ASSUME TypeOK, BufInv, PhaseInv, RingInv, DeliverFreed \/ DeliverHeld
  PROVE  RingInv'
<1> SUFFICES ASSUME ~dirty' PROVE (RingShape /\ AddrInv /\ QuietInv /\ ChainInv)'
  BY DEF RingInv
<1>0. RingShape /\ AddrInv /\ QuietInv /\ ChainInv
  BY DEF RingInv, DeliverFreed, DeliverHeld
<1>1. /\ pc = "deliver" /\ pc' = "input"
      /\ lastFrame' = FrameOf(pkt)
      /\ UNCHANGED <<gState, ring, cursor, chain, dmaIdx, dmaOpen, frames>>
      /\ \A b \in Buf : b \notin pkt => data'[b] = data[b]
  BY DEF DeliverFreed, DeliverHeld, PbufFree, Goto, wire
<1>2. chain = {} /\ lastFrame' = lastFrame + 1
  BY <1>0, <1>1, NextFrame DEF ChainInv
<1>3. ~Complete /\ ~Complete' /\ ~Mid /\ ~Mid' /\ Seen' = Seen
  BY <1>1, <1>2 DEF Complete, Mid, Seen
<1>4. NextRead' = NextRead /\ Taken' = Taken
  BY <1>1 DEF NextRead, Taken, cursor
<1>5. \A d \in Desc : buf[d] \in Buf => buf[d] \notin pkt
  BY NoBufAssumption DEF BufInv, BufferConservation, Attached
<1>6. RingKept
  BY <1>1, <1>3, <1>4, <1>5 DEF RingKept, ring, cursor
<1>7. ASSUME NEW t \in 0 .. RxDescCnt, Aligned(t) PROVE Aligned(t)'
  BY <1>6, <1>7, AlignedKept
<1>8. Fresh => Fresh'
  BY <1>1, <1>7, RxDescCntAssumption DEF Fresh
<1>9. Running => Running'
  BY <1>4, <1>7 DEF Running
<1>10. RingShape'
  BY <1>0, <1>1, <1>8, <1>9 DEF RingShape, Rebuild
<1>11. QuietInv'
  BY <1>0, <1>1, <1>8 DEF QuietInv, ring, cursor
<1> QED
  BY <1>0, <1>1, <1>3, <1>10, <1>11 DEF AddrInv, ChainInv, ring

\* lwIP or the sketch frees a buffer, which is in no descriptor and no packet.
LEMMA RingFree ==
  ASSUME TypeOK, BufInv, RingInv, NEW b \in Buf, AppFree(b)
  PROVE  RingInv'
<1> SUFFICES ASSUME ~dirty' PROVE (RingShape /\ AddrInv /\ QuietInv /\ ChainInv)'
  BY DEF RingInv
<1>0. RingShape /\ AddrInv /\ QuietInv /\ ChainInv
  BY DEF RingInv, AppFree, hist
<1>1. /\ UNCHANGED <<gState, ring, cursor, local, chain, pkt, dmaIdx, dmaOpen,
                     frames, lastFrame, pc>>
      /\ \A c \in Buf : c # b => data'[c] = data[c]
  BY DEF AppFree, PbufFree, hist
<1>2. b \notin chain \cup pkt /\ \A d \in Desc : buf[d] # b
  BY NoBufAssumption DEF AppFree, BufInv, BufferConservation, Attached
<1>3. /\ Complete' <=> Complete
      /\ Mid' <=> Mid
      /\ Seen' = Seen /\ NextRead' = NextRead /\ Taken' = Taken
  BY <1>1 DEF Complete, Mid, Seen, NextRead, descidx, Taken, cursor, local
<1>4. RingKept
  BY <1>1, <1>2, <1>3 DEF RingKept, ring, cursor
<1>5. ASSUME NEW t \in 0 .. RxDescCnt, Aligned(t) PROVE Aligned(t)'
  BY <1>4, <1>5, AlignedKept
<1>6. Fresh => Fresh'
  BY <1>1, <1>5, RxDescCntAssumption DEF Fresh
<1>7. Running => Running'
  BY <1>3, <1>5 DEF Running
<1>8. Rebuild => Rebuild'
  BY <1>1, <1>3 DEF Rebuild, ring, cursor
<1>9. QuietInv'
  BY <1>0, <1>1, <1>6 DEF QuietInv, ring, cursor
<1>10. ChainInv'
  <2>1. OneFrame(chain) => OneFrame(chain)'
    BY <1>1, <1>2 DEF OneFrame
  <2>2. OneFrame(pkt) => OneFrame(pkt)'
    BY <1>1, <1>2 DEF OneFrame
  <2>3. \A c \in Buf : chain = {c} /\ FirstOf(c) => FirstOf(c)'
    BY <1>1, <1>2 DEF FirstOf
  <2> QED
    BY <1>0, <1>1, <1>3, <2>1, <2>2, <2>3 DEF ChainInv
<1> QED
  BY <1>0, <1>1, <1>6, <1>7, <1>8, <1>9, <1>10 DEF RingShape, AddrInv, ring
-----------------------------------------------------------------------------
(* Steps that stop and start the driver.                                   *)

\* HAL_ETH_Stop, when it finds the ring drained.
LEMMA RingStop ==
  ASSUME TypeOK, PhaseInv, RingInv, StopReturn
  PROVE  RingInv'
<1> SUFFICES ASSUME ~dirty' PROVE (RingShape /\ AddrInv /\ QuietInv /\ ChainInv)'
  BY DEF RingInv
<1>0. RingShape /\ AddrInv /\ QuietInv /\ ChainInv
  BY DEF RingInv, StopReturn
<1>1. /\ pc = "stop" /\ pc' = "sketch" /\ gState # "READY"
      /\ UNCHANGED <<ring, cursor, chain, dmaIdx, dmaOpen, data, frames, lastFrame>>
      /\ chain = {} /\ ~dmaOpen /\ RxBuildDescCnt = 0
      /\ \A d \in Desc : own[d]
  BY DEF StopReturn, NetifDown, Goto, PhaseInv, Drained
<1>2. /\ ~Complete /\ ~Complete' /\ ~Mid /\ ~Mid' /\ Seen' = Seen
      /\ NextRead' = NextRead /\ Taken' = Taken
  BY <1>1 DEF Complete, Mid, Seen, NextRead, Taken, cursor
<1>3. RingKept
  BY <1>1, <1>2 DEF RingKept, ring, cursor
<1>4. Running'
  <2>1. PICK t \in 0 .. RxDescCnt : t = Taken /\ Aligned(t)
    BY <1>0, <1>1, RunningShape DEF Running
  <2>2. Aligned(t)'
    BY <1>3, <2>1, AlignedKept
  <2> QED
    BY <1>2, <2>1, <2>2 DEF Running
<1>5. QuietInv'
  BY <1>1 DEF QuietInv, ring, cursor
<1> QED
  BY <1>0, <1>1, <1>2, <1>4, <1>5 DEF RingShape, AddrInv, ChainInv, ring

\* HAL_ETH_Start_IT sets out to build the ring: a fresh one is one from which
\* everything was read, otherwise it is all the DMA's.
LEMMA RingStart ==
  ASSUME TypeOK, PhaseInv, RingInv, LinkUp, gState = "READY"
  PROVE  RingInv'
<1> SUFFICES ASSUME ~dirty' PROVE (RingShape /\ AddrInv /\ QuietInv /\ ChainInv)'
  BY DEF RingInv
<1>0. RingShape /\ AddrInv /\ QuietInv /\ ChainInv
  BY DEF RingInv, LinkUp, hist
<1>1. /\ pc = "link" /\ pc' = "start" /\ gState' = "BUSY"
      /\ RxBuildDescCnt' = RxDescCnt /\ RxBuildDescCnt = 0
      /\ chain = {} /\ ~dmaOpen
      /\ UNCHANGED <<ring, RxDescIdx, RxBuildDescIdx, chain, pkt, wire, lastFrame>>
  BY <1>0 DEF LinkUp, Goto, QuietInv, hist
<1>2. /\ ~Complete /\ ~Complete' /\ ~Mid /\ ~Mid' /\ Seen' = Seen
      /\ NextRead' = NextRead
  BY <1>1 DEF Complete, Mid, Seen, NextRead
<1>3. RingKept
  BY <1>1, <1>2 DEF RingKept, ring, wire
<1>4. AddrInv' /\ QuietInv' /\ ChainInv'
  BY <1>0, <1>1, <1>2 DEF AddrInv, QuietInv, ChainInv, ring, wire
<1>5. CASE Fresh
  <2>1. RxDescCnt \in 0 .. RxDescCnt
    BY RxDescCntAssumption
  <2>2. Aligned(RxDescCnt)'
    BY <1>3, <1>5, <2>1, AlignedKept DEF Fresh
  <2>3. Taken' = RxDescCnt
    BY <1>1 DEF Taken
  <2> QED
    BY <1>4, <2>1, <2>2, <2>3 DEF RingShape, Running
<1>6. CASE ~Fresh
  <2>1. \A d \in Desc : own[d]
    BY <1>0, <1>6 DEF QuietInv
  <2>2. PICK t \in 0 .. RxDescCnt : t = Taken /\ Aligned(t)
    BY <1>0, <1>1, <1>6 DEF RingShape, Rebuild, Running
  <2>3. PICK k \in t .. RxDescCnt : Layout(t, k) /\ Parts(t, k)
    BY <2>2 DEF Aligned
  <2>4. t = 0 /\ NextRead = RxDescIdx
    BY <1>1, <2>2 DEF Taken, NextRead
  <2>5. k = 0
    <3>1. RxBuildDescIdx \in Desc /\ Ahead(RxBuildDescIdx) = 0
      BY AheadPositions DEF TypeOK, TypeCursor
    <3> QED
      BY <2>1, <2>3, <2>4, <3>1, RxDescCntAssumption DEF Layout
  <2>6. RxDescIdx = RxBuildDescIdx /\ dmaIdx = RxBuildDescIdx
    BY <2>3, <2>4, <2>5, IncrSteps DEF Layout, TypeOK, TypeCursor
  <2>7. frames = Seen
    BY <1>1, <2>3, <2>4, <2>5 DEF Parts, NoPart, Coming, Seen, TypeOK, TypeWire, TypeHist
  <2>8. RxDescIdx' = IncrRxDescIndex(RxBuildDescIdx', RxBuildDescCnt')
    BY <1>1, <2>6, IncrSteps DEF TypeOK, TypeCursor
  <2>9. Rebuild'
    BY <1>1, <1>2, <2>1, <2>6, <2>7, <2>8 DEF Rebuild, ring, wire
  <2> QED
    BY <1>4, <2>9 DEF RingShape
<1> QED
  BY <1>5, <1>6

\* HAL_ETH_Start_IT has built the ring, or as much of it as the pool allows.
LEMMA RingEnable ==
  ASSUME TypeOK, BufInv, PhaseInv, RingInv, StartEnable
  PROVE  RingInv'
<1> SUFFICES ASSUME ~dirty' PROVE (RingShape /\ AddrInv /\ QuietInv /\ ChainInv)'
  BY DEF RingInv
<1>0. RingShape /\ AddrInv /\ QuietInv /\ ChainInv
  BY DEF RingInv, StartEnable, hist
<1>1. /\ pc = "start" /\ pc' = "started" /\ gState = "BUSY"
      /\ RxBuildDescCnt = 0 \/ BuildFails
      /\ chain = {} /\ ~dmaOpen
      /\ UNCHANGED <<gState, ring, cursor, chain, pkt, dmaIdx, dmaOpen, data,
                     frames, lastFrame>>
  BY <1>0 DEF StartEnable, BuildDone, Goto, PhaseInv, QuietInv, hist
<1>2. /\ ~Complete /\ ~Complete' /\ ~Mid /\ ~Mid' /\ Seen' = Seen
      /\ NextRead' = NextRead /\ Taken' = Taken
      /\ Taken = RxBuildDescCnt /\ NextRead = RxDescIdx
  BY <1>1 DEF Complete, Mid, Seen, NextRead, Taken, cursor
<1>3. RingKept
  BY <1>1, <1>2 DEF RingKept, ring, cursor
<1>4. AddrInv' /\ QuietInv' /\ ChainInv'
  BY <1>0, <1>1, <1>2 DEF AddrInv, QuietInv, ChainInv, ring
<1>5. Running
  <2>1. CASE Rebuild
    <3>1. \A d \in Desc : own[d] /\ buf[d] # NoBuf
      BY <2>1, NoBufAssumption DEF Rebuild, BufInv, DmaOwnsBuffer
    <3>2. RxBuildDescCnt = 0
      BY <1>1, <3>1 DEF BuildFails, TypeOK, TypeCursor
    <3>3. \A d \in Desc : Ahead(d) \in 0 .. RxDescCnt - 1
      BY AheadPositions DEF TypeOK, TypeCursor
    <3>4. Layout(0, 0)
      BY <1>2, <2>1, <3>1, <3>2, <3>3 DEF Layout, Rebuild
    <3>5. \A d \in Desc : ~Unread(0, 0, d)
      BY <3>3 DEF Unread
    <3>6. NoPart(0, 0)
      BY <1>1, <1>2, <2>1 DEF NoPart, Coming, Rebuild
    <3>7. Parts(0, 0)
      BY <3>5, <3>6 DEF Parts, PartsMarked, FirstPart, LastPart, PartsFollow
    <3>8. 0 \in 0 .. RxDescCnt
      BY RxDescCntAssumption
    <3> QED
      BY <1>2, <3>2, <3>4, <3>7, <3>8 DEF Running, Aligned
  <2>2. CASE ~Rebuild
    BY <1>0, <1>1, <2>2 DEF RingShape, Fresh
  <2> QED
    BY <2>1, <2>2
<1>6. Running'
  <2>1. PICK t \in 0 .. RxDescCnt : t = Taken /\ Aligned(t)
    BY <1>5 DEF Running
  <2>2. Aligned(t)'
    BY <1>3, <2>1, AlignedKept
  <2> QED
    BY <1>2, <2>1, <2>2 DEF Running
<1> QED
  BY <1>4, <1>6 DEF RingShape
-----------------------------------------------------------------------------
(* The ring invariant is inductive.                                        *)

LEMMA RingInit == Init => RingInv
<1> SUFFICES ASSUME Init PROVE RingInv
  OBVIOUS
<1>1. TypeOK /\ 0 \in Desc /\ RxDescCnt \in 0 .. RxDescCnt
  BY TypeInit, RxDescCntAssumption DEF TypeInv, Desc
<1>2. ~Mid /\ ~Complete /\ Seen = 0 /\ NextRead = 0 /\ Coming = 1
  BY DEF Init, Mid, Complete, Seen, NextRead, Coming
<1>3. \A d \in Desc : Ahead(d) \in 0 .. RxDescCnt - 1
  BY <1>1, AheadPositions DEF TypeOK, TypeCursor
<1>4. Layout(RxDescCnt, RxDescCnt)
  <2>1. IncrRxDescIndex(0, RxDescCnt) = 0
    BY <1>1, IncrSteps
  <2>2. \A d \in Desc : buf[d] = NoBuf /\ ~own[d]
    BY DEF Init
  <2> QED
    BY <1>2, <1>3, <2>1, <2>2, RxDescCntAssumption DEF Layout, Init
<1>5. \A d \in Desc : ~Unread(RxDescCnt, RxDescCnt, d)
  BY <1>3, RxDescCntAssumption DEF Unread
<1>6. NoPart(RxDescCnt, RxDescCnt)
  BY <1>2 DEF NoPart, Init
<1>7. Parts(RxDescCnt, RxDescCnt)
  BY <1>5, <1>6 DEF Parts, PartsMarked, FirstPart, LastPart, PartsFollow
<1>8. Fresh
  BY <1>4, <1>7, RxDescCntAssumption DEF Fresh, Aligned, Init
<1> QED
  BY <1>2, <1>8 DEF Init, RingInv, RingShape, AddrInv, QuietInv, ChainInv

LEMMA RingStep == TypeInv /\ BufInv /\ PhaseInv /\ RingInv /\ [Next]_vars => RingInv'
<1> SUFFICES ASSUME TypeInv, BufInv, PhaseInv, RingInv, [Next]_vars PROVE RingInv'
  OBVIOUS
<1>0. TypeOK
  BY DEF TypeInv
<1> USE DEF ring, cursor, local, wire, hist, Goto
<1> USE DEF Complete, Taken, NextRead, descidx
<1>1. ASSUME NEW last \in BOOLEAN, DmaReceive(last) PROVE RingInv'
  BY <1>0, <1>1, RingDma
<1>2. CASE RxIrq
  BY <1>0, <1>2, RingSame DEF RxIrq
<1>3. CASE FatalBusErrorIrq
  BY <1>0, <1>3, RingSame DEF FatalBusErrorIrq, PhaseInv
<1>4. CASE NetProcess \/ RxEventClear
  BY <1>0, <1>4, RingSame DEF NetProcess, RxEventClear
<1>5. CASE LowLevelInput
  <2>1. /\ RxBuildDescCnt + 0 = RxBuildDescCnt
        /\ IncrRxDescIndex(RxDescIdx, 0) = RxDescIdx
    BY <1>0, IncrSteps DEF TypeOK, TypeCursor
  <2> QED
    BY <1>0, <1>5, <2>1, RingSame DEF LowLevelInput
<1>6. CASE ReadDesc
  BY <1>6, RingRead
<1>7. CASE ReadDone
  <2>1. /\ pc = "read" /\ pc' = "build" /\ rxdataready' = rxdataready
        /\ RxBuildDescCnt' = RxBuildDescCnt + desccnt
        /\ RxDescIdx' = descidx
        /\ UNCHANGED <<gState, ring, RxBuildDescIdx, local, chain, pkt, wire, hist>>
    BY <1>7 DEF ReadDone
  <2>2. Taken' = Taken /\ NextRead' = NextRead /\ (Complete' <=> Complete)
    BY <2>1
  <2>3. (Mid' <=> Mid) /\ Seen' = Seen
    BY <2>1, <2>2 DEF Mid, Seen
  <2>4. RingKept
    BY <2>1, <2>2, <2>3 DEF RingKept
  <2> SUFFICES ASSUME ~dirty' PROVE (RingShape /\ AddrInv /\ QuietInv /\ ChainInv)'
    BY DEF RingInv
  <2>5. RingShape /\ AddrInv /\ QuietInv /\ ChainInv
    BY <2>1 DEF RingInv
  <2>6. gState # "READY"
    BY <2>1 DEF PhaseInv
  <2>7. PICK t \in 0 .. RxDescCnt : t = Taken /\ Aligned(t)
    BY <2>1, <2>5, <2>6, RunningShape DEF Running
  <2>8. Aligned(t)'
    BY <1>0, <2>4, <2>7, AlignedKept
  <2>9. Running'
    BY <2>2, <2>7, <2>8, Zenon DEF Running
  <2>10. ChainInv'
    BY <2>1, <2>2, <2>3, <2>5 DEF ChainInv, OneFrame, FirstOf
  <2> QED
    BY <2>1, <2>5, <2>6, <2>9, <2>10 DEF RingShape, AddrInv, QuietInv
<1>8. CASE ReadBuildDesc \/ StartBuildDesc
  BY <1>8, RingBuild DEF ReadBuildDesc, StartBuildDesc
<1>9. CASE ReadReturn
  <2>1. CASE rxdataready
    BY <1>0, <1>9, <2>1, RingReturn
  <2>2. CASE ~rxdataready
    BY <1>0, <1>9, <2>2, RingSame DEF ReadReturn
  <2> QED
    BY <2>1, <2>2
<1>10. CASE DeliverFreed \/ DeliverHeld
  BY <1>0, <1>10, RingDeliver
<1>11. ASSUME NEW b \in Buf, AppFree(b) PROVE RingInv'
  BY <1>0, <1>11, RingFree
<1>12. CASE SysCheckTimeouts \/ LinkUnchanged \/ SketchLoop
  BY <1>0, <1>12, RingSame DEF SysCheckTimeouts, LinkUnchanged, SketchLoop
<1>13. CASE LinkDown
  BY <1>0, <1>13, RingSame DEF LinkDown, NetifDown
<1>14. CASE StopReturn
  BY <1>0, <1>14, RingStop
<1>15. CASE LinkUp
  <2>1. CASE gState = "READY"
    BY <1>0, <1>15, <2>1, RingStart
  <2>2. CASE gState # "READY"
    BY <1>0, <1>15, <2>2, RingSame DEF LinkUp, NetifUp
  <2> QED
    BY <2>1, <2>2
<1>16. CASE StartEnable
  BY <1>0, <1>16, RingEnable
<1>17. CASE StartReturn
  <2>1. gState # "READY"
    BY <1>17 DEF StartReturn, PhaseInv
  <2> QED
    BY <1>0, <1>17, <2>1, RingSame DEF StartReturn, NetifUp
<1>18. CASE UNCHANGED vars
  BY <1>0, <1>18, RingSame DEF vars
<1> QED
  BY <1>1, <1>2, <1>3, <1>4, <1>5, <1>6, <1>7, <1>8, <1>9, <1>10, <1>11, <1>12,
     <1>13, <1>14, <1>15, <1>16, <1>17, <1>18
     DEF Next, Main

\* The invariant the theorems below rest on.
EthInv == TypeInv /\ BufInv /\ PhaseInv /\ RingInv

LEMMA EthInit == Init => EthInv
BY TypeInit, BufInit, PhaseInit, RingInit DEF EthInv

LEMMA EthStep == EthInv /\ [Next]_vars => EthInv'
BY TypeStep, BufStep, PhaseStep, RingStep DEF EthInv

-----------------------------------------------------------------------------
(* The theorems.                                                           *)

\* The driver's two cursors and the DMA's position divide the ring in three, as
\* long as every link loss found it drained: HAL_ETH_ReadData never runs past the
\* DMA, nor the DMA past ETH_UpdateDescriptor, for every ring length.
THEOREM RingStaysAligned == Spec => []RingAligned
<1>1. EthInv => RingAligned
  <2> SUFFICES ASSUME EthInv, ~dirty, gState = "STARTED" PROVE RingAligned
    BY DEF RingAligned
  <2>1. RingShape /\ pc # "start"
    BY DEF EthInv, RingInv, PhaseInv
  <2>2. PICK t \in 0 .. RxDescCnt : t = Taken /\ Aligned(t)
    BY <2>1, RunningShape DEF Running
  <2>3. PICK k \in t .. RxDescCnt : Layout(t, k)
    BY <2>2 DEF Aligned
  <2> QED
    BY <2>2, <2>3 DEF RingAligned, Layout, Taken, NextRead
<1> QED
  BY EthInit, EthStep, <1>1, PTL DEF Spec

\* The DMA writes only to the buffer its descriptor has attached, and
\* HAL_ETH_RxLinkCallback is never given a null buffer, as long as every link loss
\* found the ring drained.
THEOREM DmaWritesAttached == Spec => []DmaAddressValid
<1>1. EthInv => DmaAddressValid
  <2> SUFFICES ASSUME EthInv, ~dirty PROVE DmaAddressValid
    BY DEF DmaAddressValid
  <2>1. AddrInv /\ ChainInv /\ BufInv
    BY DEF EthInv, RingInv
  <2>2. NoBuf \notin chain
    BY <2>1, NoBufAssumption DEF ChainInv, Mid, OneFrame
  <2>3. NoBuf \notin pkt
    BY <2>1, NoBufAssumption DEF ChainInv, BufInv, OneFrame
  <2> QED
    BY <2>1, <2>2, <2>3 DEF DmaAddressValid, AddrInv
<1> QED
  BY EthInit, EthStep, <1>1, PTL DEF Spec

\* What ethernetif_input() hands to netif->input() is one whole frame and nothing
\* of another, as long as every link loss found the ring drained.
THEOREM PacketsAreFrames == Spec => []PacketIsOneFrame
<1>1. EthInv => PacketIsOneFrame
  <2> SUFFICES ASSUME EthInv, pc = "deliver", ~dirty PROVE PacketIsOneFrame
    BY DEF PacketIsOneFrame
  <2>1. OneFrame(pkt) /\ lastFrame \in Nat
    BY DEF EthInv, RingInv, ChainInv, TypeInv, TypeOK, TypeHist
  <2> QED
    BY <2>1 DEF PacketIsOneFrame, OneFrame
<1> QED
  BY EthInit, EthStep, <1>1, PTL DEF Spec

\* Frames reach lwIP in the order of the wire and none is skipped, as long as
\* every link loss found the ring drained.
THEOREM FramesInOrder == Spec => DeliverInOrder
<1> DEFINE A == ~dirty /\ pc = "deliver" /\ pc' = "input" => lastFrame' = lastFrame + 1
<1>1. EthInv /\ [Next]_vars => [A]_vars
  <2> SUFFICES ASSUME EthInv, Next, ~dirty, pc = "deliver", pc' = "input"
               PROVE  lastFrame' = lastFrame + 1
    OBVIOUS
  <2>1. FrameOf(pkt) = lastFrame + 1
    BY NextFrame DEF EthInv, RingInv, ChainInv
  <2>2. lastFrame' = FrameOf(pkt)
    BY DEF Next, Main, DmaReceive, RxIrq, FatalBusErrorIrq, NetProcess,
           RxEventClear, LowLevelInput, ReadDesc, ReadDone, ReadBuildDesc,
           ReadReturn, DeliverFreed, DeliverHeld, AppFree, SysCheckTimeouts,
           LinkUnchanged, LinkDown, StopReturn, LinkUp, StartBuildDesc,
           StartEnable, StartReturn, SketchLoop
  <2> QED
    BY <2>1, <2>2
<1> QED
  BY EthInit, EthStep, <1>1, PTL DEF Spec, DeliverInOrder

\* ETH_UpdateDescriptor gives the DMA only descriptors whose part the driver has
\* read, as long as every link loss found the ring drained.
THEOREM GivesBackOnlyRead == Spec => GivesBackReadOnlyDrained
<1> DEFINE A == ~dirty => \A d \in Desc : ~own[d] /\ own'[d] => buf[d] = NoBuf
<1>1. EthInv /\ [Next]_vars => [A]_vars
  <2> SUFFICES ASSUME EthInv, Next, ~dirty, NEW d \in Desc, ~own[d], own'[d]
               PROVE  buf[d] = NoBuf
    OBVIOUS
  <2>1. TypeOK /\ RingShape /\ PhaseInv
    BY DEF EthInv, TypeInv, RingInv
  <2>2. ASSUME NEW last \in BOOLEAN, DmaReceive(last) PROVE FALSE
    BY <2>1, <2>2 DEF DmaReceive, TypeOK, TypeRing, TypeWire
  <2>3. CASE ReadBuildDesc \/ StartBuildDesc
    <3>1. BuildDesc /\ pc \in {"build", "start"} /\ gState # "READY"
      BY <2>1, <2>3 DEF ReadBuildDesc, StartBuildDesc, PhaseInv
    <3>2. d = RxBuildDescIdx /\ RxBuildDescCnt > 0
      BY <2>1, <3>1 DEF BuildDesc, TypeOK, TypeRing
    <3>3. PICK t \in 0 .. RxDescCnt : t = Taken /\ Aligned(t)
      BY <2>1, <3>1 DEF RingShape, Fresh, Rebuild, Running
    <3>4. Ahead(d) = 0 /\ t > 0
      BY <3>1, <3>2, <3>3, AheadPositions DEF Taken
    <3> QED
      BY <3>3, <3>4 DEF Aligned, Layout
  <2>4. CASE ~\E last \in BOOLEAN : DmaReceive(last)
    <3>1. own' # own
      OBVIOUS
    <3>2. ReadBuildDesc \/ StartBuildDesc
      BY <2>4, <3>1
         DEF Next, Main, RxIrq, FatalBusErrorIrq, NetProcess, RxEventClear,
             LowLevelInput, ReadDesc, ReadDone, ReadReturn, DeliverFreed,
             DeliverHeld, AppFree, SysCheckTimeouts, LinkUnchanged, LinkDown,
             StopReturn, LinkUp, StartEnable, StartReturn, SketchLoop, ring
    <3> QED
      BY <2>3, <3>2
  <2> QED
    BY <2>2, <2>4
<1> QED
  BY EthInit, EthStep, <1>1, PTL DEF Spec, GivesBackReadOnlyDrained
-----------------------------------------------------------------------------
(* Wake-ups.                                                               *)

LEMMA WakeInit == Init => WakeInv
BY DEF Init, WakeInv

LEMMA WakeStep == EthInv /\ WakeInv /\ [Next]_vars => WakeInv'
<1> SUFFICES ASSUME EthInv, WakeInv, [Next]_vars PROVE WakeInv'
  OBVIOUS
<1>0. TypeOK /\ PhaseInv /\ RingInv
  BY DEF EthInv, TypeInv
<1> USE DEF WakeInv, ring, cursor, local, wire, hist, Goto
<1>1. CASE (\E last \in BOOLEAN : DmaReceive(last)) \/ RxIrq \/ FatalBusErrorIrq
  BY <1>1 DEF DmaReceive, RxIrq, FatalBusErrorIrq
<1>2. CASE NetProcess \/ RxEventClear \/ SysCheckTimeouts \/ LinkUnchanged \/ SketchLoop
  BY <1>2 DEF NetProcess, RxEventClear, SysCheckTimeouts, LinkUnchanged, SketchLoop
<1>3. CASE LowLevelInput
  BY <1>0, <1>3 DEF LowLevelInput, TypeOK, TypeAlloc
<1>4. CASE ReadDesc
  BY <1>4 DEF ReadDesc
<1>5. CASE ReadDone
  <2>1. own[descidx] \/ rxdataready \/ RxBuildDescCnt + desccnt >= RxDescCnt
    BY <1>0, <1>5, RxDescCntAssumption
       DEF ReadDone, CanReadDesc, TypeOK, TypeCursor, TypeLocal
  <2>2. RxBuildDescCnt' = RxBuildDescCnt + desccnt /\ RxBuildDescCnt' \in Int
    BY <1>0, <1>5 DEF ReadDone, TypeOK, TypeCursor, TypeLocal
  <2> QED
    BY <1>5, <2>1, <2>2, RxDescCntAssumption DEF ReadDone
<1>6. CASE ReadBuildDesc
  <2> SUFFICES ASSUME gState = "STARTED", ~dirty, ~starved, ~rxdataready,
                      ~own'[RxDescIdx]
               PROVE  EthRxEvent \/ RI
    BY <1>6 DEF ReadBuildDesc, BuildDesc
  <2>1. /\ pc = "build" /\ own' = [own EXCEPT ![RxBuildDescIdx] = TRUE]
        /\ RxDescIdx \in Desc /\ RxBuildDescIdx \in Desc
        /\ RxBuildDescCnt \in 0 .. RxDescCnt
    BY <1>0, <1>6 DEF ReadBuildDesc, BuildDesc, TypeOK, TypeCursor
  <2>2. RxDescIdx # RxBuildDescIdx /\ ~own[RxDescIdx]
    BY <1>0, <2>1 DEF TypeOK, TypeRing
  <2>3. RxBuildDescCnt # RxDescCnt
    <3>1. RingShape
      BY <1>0 DEF RingInv
    <3>2. PICK t \in 0 .. RxDescCnt : t = Taken /\ Aligned(t)
      BY <2>1, <3>1, RunningShape DEF Running
    <3>3. RxDescIdx = IncrRxDescIndex(RxBuildDescIdx, t) /\ t = RxBuildDescCnt
      BY <2>1, <3>2 DEF Aligned, Layout, NextRead, Taken
    <3> QED
      BY <2>1, <2>2, <3>3, IncrSteps
  <2> QED
    BY <2>1, <2>2, <2>3, RxDescCntAssumption
<1>7. CASE ReadReturn
  BY <1>7 DEF ReadReturn
<1>8. CASE DeliverFreed \/ DeliverHeld \/ \E b \in Buf : AppFree(b)
  BY <1>8 DEF DeliverFreed, DeliverHeld, AppFree
<1>9. CASE LinkDown \/ StopReturn
  BY <1>9 DEF LinkDown, StopReturn, NetifDown
<1>10. CASE LinkUp \/ StartReturn
  BY <1>10 DEF LinkUp, StartReturn, NetifUp
<1>11. CASE StartBuildDesc \/ StartEnable
  BY <1>0, <1>11 DEF StartBuildDesc, BuildDesc, StartEnable, PhaseInv
<1>12. CASE UNCHANGED vars
  BY <1>12 DEF vars
<1> QED
  BY <1>1, <1>2, <1>3, <1>4, <1>5, <1>6, <1>7, <1>8, <1>9, <1>10, <1>11, <1>12
     DEF Next, Main

\* openplc_net_process() clears the event before it reads the ring, so a frame
\* that comes while it reads leaves the event or the interrupt pending: no frame
\* waits in the ring without a wake-up, wherever the interrupt comes.
THEOREM WakeupsNotLost == Spec => []NoLostWakeup
<1>1. WakeInv => NoLostWakeup
  BY DEF WakeInv, NoLostWakeup
<1> QED
  BY EthInit, EthStep, WakeInit, WakeStep, <1>1, PTL DEF Spec

-----------------------------------------------------------------------------
(* Exhaustion of RX_POOL.                                                  *)

\* More buffers than descriptors: ETH_RX_BUFFER_CNT is 12, ETH_RX_DESC_CNT 4.
MoreBuffers == IsFiniteSet(Buf) /\ Cardinality(Buf) > RxDescCnt

\* When the free buffers are gone and a descriptor waits for one, the ring and at
\* most one part in the chain cannot hold them all.
LEMMA BuffersElsewhere ==
  ASSUME MoreBuffers, TypeOK, BufferConservation, pool = {},
         NEW d \in Desc, buf[d] = NoBuf,
         NEW c, chain \subseteq {c}
  PROVE  pkt \cup held # {}
<1> SUFFICES ASSUME pkt \cup held = {} PROVE FALSE
  OBVIOUS
<1> DEFINE g == [e \in Desc |-> IF e = d THEN c ELSE buf[e]]
           T == {g[e] : e \in Desc}
<1>1. Buf \subseteq T
  <2> SUFFICES ASSUME NEW b \in Buf PROVE b \in T
    OBVIOUS
  <2>1. b \in Attached \cup chain
    BY DEF BufferConservation
  <2>2. CASE b \in chain
    <3>1. g[d] = b
      BY <2>2
    <3> QED
      BY <3>1
  <2>3. CASE b \in Attached
    <3>1. PICK e \in Desc : buf[e] = b
      BY <2>3 DEF Attached
    <3>2. g[e] = b
      BY <3>1, NoBufAssumption
    <3> QED
      BY <3>2
  <2> QED
    BY <2>1, <2>2, <2>3
<1>2. IsFiniteSet(Desc) /\ Cardinality(Desc) = RxDescCnt
  BY FS_Interval, RxDescCntAssumption DEF Desc
<1>3. g \in Surjection(Desc, T)
  BY DEF Surjection
<1>4. IsFiniteSet(T) /\ Cardinality(T) <= RxDescCnt
  BY <1>2, <1>3, FS_Surjection
<1>5. Cardinality(Buf) <= Cardinality(T)
  BY <1>1, <1>4, FS_Subset
<1>6. Cardinality(Buf) \in Nat /\ Cardinality(T) \in Nat
  BY <1>4, FS_CardinalityType DEF MoreBuffers
<1> QED
  BY <1>4, <1>5, <1>6, RxDescCntAssumption DEF MoreBuffers

LEMMA StarveInit == Init => StarveInv
BY DEF Init, StarveInv, ExhaustionEnds

LEMMA StarveStep ==
  ASSUME MoreBuffers
  PROVE  EthInv /\ StarveInv /\ [Next]_vars => StarveInv'
<1> SUFFICES ASSUME EthInv, StarveInv, [Next]_vars PROVE StarveInv'
  OBVIOUS
<1>0. /\ TypeOK /\ PhaseInv /\ RingInv /\ BufferConservation
      /\ pc # "deliver" => pkt = {}
      /\ RxAllocStatus \in {"OK", "ERROR"}
  BY DEF EthInv, TypeInv, BufInv, TypeOK, TypeAlloc
<1> USE DEF StarveInv, ExhaustionEnds, alloc, hist, Goto
<1>1. CASE (\E last \in BOOLEAN : DmaReceive(last)) \/ RxIrq \/ FatalBusErrorIrq
  BY <1>1 DEF DmaReceive, RxIrq, FatalBusErrorIrq
<1>2. CASE \/ NetProcess \/ RxEventClear \/ LowLevelInput \/ ReadDesc \/ ReadDone
           \/ SysCheckTimeouts
  BY <1>2 DEF NetProcess, RxEventClear, LowLevelInput, ReadDesc, ReadDone,
              SysCheckTimeouts
<1>3. CASE ReadBuildDesc \/ StartBuildDesc
  <2>1. /\ UNCHANGED <<RxAllocStatus, held, pkt, pc, dirty>>
        /\ pool = {} => pool' = {}
    BY <1>3, AttachBufferCases DEF ReadBuildDesc, StartBuildDesc, BuildDesc
  <2> QED
    BY <2>1
<1>4. CASE ReadReturn
  <2>1. /\ RxAllocStatus = "OK" /\ pkt = {}
        /\ pc' \in {"deliver", "timeouts"}
        /\ UNCHANGED <<pool, held, dirty>>
        /\ RxAllocStatus' = IF BuildFails THEN "ERROR" ELSE RxAllocStatus
    BY <1>0, <1>4 DEF ReadReturn, BuildDone
  <2>2. CASE ~BuildFails
    BY <2>1, <2>2
  <2>3. CASE BuildFails
    <3>1. pool = {} /\ buf[RxBuildDescIdx] = NoBuf /\ RxBuildDescIdx \in Desc
      BY <1>0, <2>3 DEF BuildFails, TypeOK, TypeCursor
    <3>2. ASSUME ~dirty PROVE pkt' \cup held' # {}
      <4>1. CASE rxdataready
        <5>1. pkt' = chain /\ chain # {}
          BY <1>0, <1>4, <3>2, <4>1 DEF ReadReturn, RingInv, ChainInv, Complete, OneFrame
        <5> QED
          BY <5>1
      <4>2. CASE ~rxdataready
        <5>1. \E c : chain \subseteq {c}
          <6>1. CASE chain = {}
            BY <6>1
          <6>2. CASE chain # {}
            BY <1>0, <3>2, <4>2, <6>2 DEF RingInv, ChainInv, Mid, Complete
          <6> QED
            BY <6>1, <6>2
        <5>2. pkt \cup held # {}
          BY <1>0, <3>1, <5>1, BuffersElsewhere
        <5> QED
          BY <1>4, <2>1, <4>2, <5>2 DEF ReadReturn
      <4> QED
        BY <4>1, <4>2
    <3> QED
      BY <2>1, <3>1, <3>2
  <2> QED
    BY <2>2, <2>3
<1>5. CASE DeliverFreed \/ \E b \in Buf : AppFree(b)
  BY <1>5 DEF DeliverFreed, AppFree, PbufFree
<1>6. CASE DeliverHeld
  <2>1. ~dirty => pkt # {} /\ pkt \subseteq Buf
    BY <1>0, <1>6 DEF DeliverHeld, RingInv, ChainInv, OneFrame
  <2> QED
    BY <1>6, <2>1 DEF DeliverHeld
<1>7. CASE LinkUnchanged \/ LinkDown \/ StopReturn \/ SketchLoop
  BY <1>7 DEF LinkUnchanged, LinkDown, StopReturn, NetifDown, SketchLoop
<1>8. CASE LinkUp \/ StartReturn
  BY <1>8 DEF LinkUp, StartReturn, NetifUp
<1>9. CASE StartEnable
  <2>1. /\ pc' = "started" /\ pc = "start"
        /\ UNCHANGED <<pool, held, pkt, dirty>>
        /\ RxAllocStatus' = IF BuildFails THEN "ERROR" ELSE RxAllocStatus
    BY <1>9 DEF StartEnable, BuildDone
  <2>2. CASE ~BuildFails
    BY <2>1, <2>2
  <2>3. CASE BuildFails
    <3>1. pool = {} /\ buf[RxBuildDescIdx] = NoBuf /\ RxBuildDescIdx \in Desc
      BY <1>0, <2>3 DEF BuildFails, TypeOK, TypeCursor
    <3>2. ASSUME ~dirty PROVE pkt \cup held # {}
      <4>1. chain \subseteq {NoBuf}
        BY <1>0, <2>1, <3>2 DEF RingInv, QuietInv
      <4> QED
        BY <1>0, <3>1, <4>1, BuffersElsewhere
    <3> QED
      BY <2>1, <3>1, <3>2
  <2> QED
    BY <2>2, <2>3
<1>10. CASE UNCHANGED vars
  BY <1>10 DEF vars
<1> QED
  BY <1>1, <1>2, <1>3, <1>4, <1>5, <1>6, <1>7, <1>8, <1>9, <1>10
     DEF Next, Main

\* When RX_ALLOC_ERROR has blocked reception there is a buffer that lwIP will
\* free, which ends it: with more buffers than descriptors the ring and the packet
\* being assembled cannot hold them all, as long as every link loss found the ring
\* drained.
THEOREM ExhaustionCanEnd ==
  ASSUME MoreBuffers
  PROVE  Spec => []ExhaustionEnds
<1>1. StarveInv => ExhaustionEnds
  BY DEF StarveInv
<1>2. EthInv /\ StarveInv /\ [Next]_vars => StarveInv'
  BY StarveStep
<1> QED
  BY EthInit, EthStep, StarveInit, <1>1, <1>2, PTL DEF Spec
=============================================================================
