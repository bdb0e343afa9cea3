---------------------------- MODULE EthRx_proofs ----------------------------
(***************************************************************************)
(* Proofs about EthRx, for every ring length, every pool and every bound   *)
(* on frames and link losses: type correctness, and that no buffer of      *)
(* RX_POOL leaks, is used twice, or is missing where the DMA writes.       *)
(***************************************************************************)
EXTENDS EthRx, TLAPS

\* Inside the loop of HAL_ETH_ReadData the descriptors read so far and those
\* still to be given back fit in the ring.
ReadBound == pc = "read" => RxBuildDescCnt + desccnt <= RxDescCnt

TypeInv == TypeOK /\ ReadBound

-----------------------------------------------------------------------------
\* INCR_RX_DESC_INDEX stays in the ring.
LEMMA IncrInDesc ==
  ASSUME NEW i \in Desc, NEW k \in 0 .. RxDescCnt
  PROVE  IncrRxDescIndex(i, k) \in Desc
BY RxDescCntAssumption DEF IncrRxDescIndex, Desc

\* The number of the frame in a packet is the number of a frame.
LEMMA FrameOfInRange ==
  ASSUME TypeOK, NEW S
  PROVE  FrameOf(S) \in 0 .. MaxFrames
<1> DEFINE F == {data[b].frame : b \in S \cap Buf}
<1>1. F \subseteq 0 .. MaxFrames
  BY DEF TypeOK, TypeWire, Part
<1>2. CASE F = {}
  BY <1>2, BoundsAssumption DEF FrameOf
<1>3. CASE F # {}
  <2>1. (CHOOSE f \in F : TRUE) \in F
    BY <1>3
  <2> QED
    BY <1>1, <1>3, <2>1 DEF FrameOf
<1> QED
  BY <1>2, <1>3

\* A group of variables that does not change keeps its types.
LEMMA TypeUnchanged ==
  ASSUME TypeOK
  PROVE  /\ UNCHANGED ring => TypeRing'
         /\ UNCHANGED cursor => TypeCursor'
         /\ UNCHANGED local => TypeLocal'
         /\ UNCHANGED wire => TypeWire'
         /\ UNCHANGED alloc => TypeAlloc'
         /\ UNCHANGED hist => TypeHist'
BY DEF TypeOK, TypeRing, TypeCursor, TypeLocal, TypeWire, TypeAlloc, TypeHist,
       ring, cursor, local, wire, alloc, hist

\* PbufFree puts its argument back in the pool.
LEMMA PbufFreeType ==
  ASSUME TypeOK, NEW S, S \subseteq Buf, PbufFree(S)
  PROVE  /\ data' \in [Buf -> Part]
         /\ pool' \subseteq Buf
         /\ RxAllocStatus' \in {"OK", "ERROR"}
<1>1. Blank \in Part
  BY BoundsAssumption DEF Blank, Part
<1>2. data' \in [Buf -> Part]
  BY <1>1 DEF PbufFree, TypeOK, TypeWire
<1> QED
  BY <1>2 DEF PbufFree, TypeOK, TypeAlloc

\* What an iteration of ETH_UpdateDescriptor does to the ring and the pool: it
\* attaches a buffer of the pool to a descriptor without one, or nothing.
LEMMA AttachBufferCases ==
  ASSUME NEW d, AttachBuffer(d)
  PROVE  \/ /\ buf[d] = NoBuf
            /\ \E b \in pool : /\ buf' = [buf EXCEPT ![d] = b]
                               /\ addr' = [addr EXCEPT ![d] = b]
                               /\ pool' = pool \ {b}
         \/ buf[d] # NoBuf /\ buf' = buf /\ addr' = addr /\ pool' = pool
BY DEF AttachBuffer

\* Type correctness is inductive with ReadBound.
LEMMA TypeInit == Init => TypeInv
<1> SUFFICES ASSUME Init PROVE TypeInv
  OBVIOUS
<1>1. /\ 0 \in Desc /\ 0 \in 0 .. RxDescCnt
      /\ 0 \in 0 .. MaxFrames /\ 0 \in 0 .. MaxStops
  BY RxDescCntAssumption, BoundsAssumption DEF Desc
<1>2. Blank \in Part
  BY <1>1 DEF Blank, Part
<1>3. TypeRing
  BY DEF Init, TypeRing
<1>4. TypeCursor /\ TypeLocal /\ TypeHist
  BY <1>1 DEF Init, TypeCursor, TypeLocal, TypeHist
<1>5. TypeWire /\ TypeAlloc
  BY <1>1, <1>2 DEF Init, TypeWire, TypeAlloc
<1>6. TypeMain /\ ReadBound
  BY DEF Init, TypeMain, PC, ReadBound
<1> QED
  BY <1>3, <1>4, <1>5, <1>6 DEF TypeInv, TypeOK

LEMMA TypeStep == TypeInv /\ [Next]_vars => TypeInv'
<1> SUFFICES ASSUME TypeInv, [Next]_vars PROVE TypeInv'
  OBVIOUS
<1>0. TypeOK /\ ReadBound
  BY DEF TypeInv
<1> USE RxDescCntAssumption, BoundsAssumption
<1>1. ASSUME NEW last \in BOOLEAN, DmaReceive(last) PROVE TypeInv'
  <2>1. IncrRxDescIndex(dmaIdx, 1) \in Desc
    BY <1>0, IncrInDesc DEF TypeOK, TypeWire
  <2>2. data' \in [Buf -> Part]
    BY <1>0, <1>1 DEF DmaReceive, Part, TypeOK, TypeWire
  <2>3. TypeRing'
    BY <1>0, <1>1 DEF DmaReceive, TypeRing, TypeOK
  <2>4. TypeWire'
    BY <1>0, <1>1, <2>1, <2>2 DEF DmaReceive, TypeWire, TypeOK
  <2>5. TypeMain'
    BY <1>0, <1>1 DEF DmaReceive, TypeMain, TypeOK
  <2>6. ReadBound'
    BY <1>0, <1>1 DEF DmaReceive, cursor, local, ReadBound
  <2> QED
    BY <1>0, <1>1, <2>3, <2>4, <2>5, <2>6, TypeUnchanged DEF DmaReceive, TypeInv, TypeOK
<1>2. CASE RxIrq
  <2>1. TypeWire'
    BY <1>0, <1>2 DEF RxIrq, TypeWire, TypeOK
  <2>2. TypeMain'
    BY <1>0, <1>2 DEF RxIrq, TypeMain, TypeOK
  <2>3. ReadBound'
    BY <1>0, <1>2 DEF RxIrq, cursor, local, ReadBound
  <2> QED
    BY <1>0, <1>2, <2>1, <2>2, <2>3, TypeUnchanged DEF RxIrq, TypeInv, TypeOK
<1>3. CASE FatalBusErrorIrq
  <2>1. TypeWire'
    BY <1>0, <1>3 DEF FatalBusErrorIrq, TypeWire, TypeOK
  <2>2. TypeMain'
    BY <1>0, <1>3 DEF FatalBusErrorIrq, TypeMain, TypeOK
  <2>3. ReadBound'
    BY <1>0, <1>3 DEF FatalBusErrorIrq, cursor, local, ReadBound
  <2> QED
    BY <1>0, <1>3, <2>1, <2>2, <2>3, TypeUnchanged DEF FatalBusErrorIrq, TypeInv, TypeOK
<1>4. CASE NetProcess
  <2>1. TypeMain'
    BY <1>0, <1>4 DEF NetProcess, Goto, PC, TypeMain, TypeOK
  <2>2. ReadBound'
    BY <1>0, <1>4 DEF NetProcess, Goto, ReadBound
  <2> QED
    BY <1>0, <1>4, <2>1, <2>2, TypeUnchanged DEF NetProcess, TypeInv, TypeOK
<1>5. CASE RxEventClear
  <2>1. TypeMain'
    BY <1>0, <1>5 DEF RxEventClear, Goto, PC, TypeMain, TypeOK
  <2>2. ReadBound'
    BY <1>0, <1>5 DEF RxEventClear, Goto, ReadBound
  <2> QED
    BY <1>0, <1>5, <2>1, <2>2, TypeUnchanged DEF RxEventClear, TypeInv, TypeOK
<1>6. CASE LowLevelInput
  <2>1. TypeMain'
    BY <1>0, <1>6 DEF LowLevelInput, Goto, PC, TypeMain, TypeOK
  <2>2. TypeLocal'
    <3>1. 0 \in 0 .. RxDescCnt
      OBVIOUS
    <3> QED
      BY <1>6, <3>1, Zenon DEF LowLevelInput, TypeLocal
  <2>3. TypeHist'
    BY <1>0, <1>6 DEF LowLevelInput, TypeHist, TypeOK
  <2>4. ReadBound'
    BY <1>0, <1>6 DEF LowLevelInput, cursor, TypeOK, TypeCursor, ReadBound
  <2> QED
    BY <1>0, <1>6, <2>1, <2>2, <2>3, <2>4, TypeUnchanged DEF LowLevelInput, TypeInv, TypeOK
<1>7. CASE ReadDesc
  <2>1. descidx \in Desc
    BY <1>0, IncrInDesc DEF descidx, TypeOK, TypeCursor, TypeLocal
  <2>2. desccnt + 1 \in 0 .. RxDescCnt /\ RxBuildDescCnt + desccnt + 1 <= RxDescCnt
    BY <1>0, <1>7 DEF ReadDesc, CanReadDesc, TypeOK, TypeLocal, TypeCursor
  <2>3. TypeRing'
    BY <1>0, <1>7, <2>1 DEF ReadDesc, TypeRing, TypeOK
  <2>4. TypeMain'
    BY <1>0, <1>7, <2>1 DEF ReadDesc, TypeRing, TypeMain, TypeOK
  <2>5. TypeLocal'
    BY <1>0, <1>7, <2>1, <2>2 DEF ReadDesc, TypeRing, TypeLocal, TypeOK
  <2>6. ReadBound'
    BY <1>0, <1>7, <2>2 DEF ReadDesc, cursor, TypeOK, TypeCursor, TypeLocal, ReadBound
  <2> QED
    BY <1>0, <1>7, <2>3, <2>4, <2>5, <2>6, TypeUnchanged DEF ReadDesc, TypeInv, TypeOK
<1>8. CASE ReadDone
  <2>1. descidx \in Desc
    BY <1>0, IncrInDesc DEF descidx, TypeOK, TypeCursor, TypeLocal
  <2>2. TypeCursor'
    BY <1>0, <1>8, <2>1 DEF ReadDone, ReadBound, TypeLocal, TypeCursor, TypeOK
  <2>3. TypeMain'
    BY <1>0, <1>8 DEF ReadDone, Goto, PC, TypeMain, TypeOK
  <2>4. ReadBound'
    BY <1>0, <1>8 DEF ReadDone, Goto, ReadBound
  <2> QED
    BY <1>0, <1>8, <2>2, <2>3, <2>4, TypeUnchanged DEF ReadDone, TypeInv, TypeOK
<1>9. ASSUME BuildDesc PROVE TypeInv'
  <2>1. IncrRxDescIndex(RxBuildDescIdx, 1) \in Desc
    BY <1>0, IncrInDesc DEF TypeOK, TypeCursor
  <2>2. \/ /\ buf[RxBuildDescIdx] = NoBuf
           /\ \E b \in pool : /\ buf' = [buf EXCEPT ![RxBuildDescIdx] = b]
                              /\ addr' = [addr EXCEPT ![RxBuildDescIdx] = b]
                              /\ pool' = pool \ {b}
        \/ buf' = buf /\ addr' = addr /\ pool' = pool
    BY <1>9, AttachBufferCases DEF BuildDesc
  <2>3. TypeRing'
    BY <1>0, <1>9, <2>2 DEF BuildDesc, TypeCursor, TypeAlloc, TypeRing, TypeOK
  <2>4. TypeCursor'
    BY <1>0, <1>9, <2>1 DEF BuildDesc, TypeCursor, TypeOK
  <2>5. TypeAlloc'
    BY <1>0, <1>9, <2>2 DEF BuildDesc, TypeAlloc, TypeOK
  <2>6. TypeMain'
    BY <1>0, <1>9 DEF BuildDesc, TypeMain, TypeOK
  <2>7. ReadBound'
    BY <1>0, <1>9 DEF BuildDesc, local, TypeOK, TypeCursor, TypeLocal, ReadBound
  <2> QED
    BY <1>0, <1>9, <2>3, <2>4, <2>5, <2>6, <2>7, TypeUnchanged DEF BuildDesc, TypeInv, TypeOK
<1>10. CASE ReadReturn
  <2>1. TypeMain'
    BY <1>0, <1>10 DEF ReadReturn, Goto, PC, TypeMain, TypeOK
  <2>2. TypeAlloc'
    BY <1>0, <1>10 DEF ReadReturn, BuildDone, TypeAlloc, TypeOK
  <2>3. ReadBound'
    BY <1>0, <1>10 DEF ReadReturn, Goto, ReadBound
  <2> QED
    BY <1>0, <1>10, <2>1, <2>2, <2>3, TypeUnchanged DEF ReadReturn, TypeInv, TypeOK
<1>11. CASE DeliverFreed
  <2>1. data' \in [Buf -> Part] /\ pool' \subseteq Buf /\ RxAllocStatus' \in {"OK", "ERROR"}
    BY <1>0, <1>11, PbufFreeType DEF DeliverFreed
  <2>2. TypeMain'
    BY <1>0, <1>11 DEF DeliverFreed, Goto, PC, TypeMain, TypeOK
  <2>3. TypeAlloc'
    BY <1>0, <1>11, <2>1 DEF DeliverFreed, TypeAlloc, TypeOK
  <2>4. TypeWire'
    BY <1>0, <1>11, <2>1 DEF DeliverFreed, TypeWire, TypeOK
  <2>5. TypeHist'
    BY <1>0, <1>11, FrameOfInRange DEF DeliverFreed, TypeHist, TypeOK
  <2>6. ReadBound'
    BY <1>0, <1>11 DEF DeliverFreed, Goto, ReadBound
  <2> QED
    BY <1>0, <1>11, <2>2, <2>3, <2>4, <2>5, <2>6, TypeUnchanged DEF DeliverFreed, TypeInv, TypeOK
<1>12. CASE DeliverHeld
  <2>1. TypeMain'
    BY <1>0, <1>12 DEF DeliverHeld, Goto, PC, TypeMain, TypeOK
  <2>2. TypeAlloc'
    BY <1>0, <1>12 DEF DeliverHeld, TypeAlloc, TypeOK
  <2>3. TypeHist'
    BY <1>0, <1>12, FrameOfInRange DEF DeliverHeld, TypeHist, TypeOK
  <2>4. ReadBound'
    BY <1>0, <1>12 DEF DeliverHeld, Goto, ReadBound
  <2> QED
    BY <1>0, <1>12, <2>1, <2>2, <2>3, <2>4, TypeUnchanged DEF DeliverHeld, TypeInv, TypeOK
<1>13. ASSUME NEW b \in Buf, AppFree(b) PROVE TypeInv'
  <2>1. data' \in [Buf -> Part] /\ pool' \subseteq Buf /\ RxAllocStatus' \in {"OK", "ERROR"}
    BY <1>0, <1>13, PbufFreeType DEF AppFree
  <2>2. TypeMain'
    BY <1>0, <1>13 DEF AppFree, TypeMain, TypeOK
  <2>3. TypeAlloc'
    BY <1>0, <1>13, <2>1 DEF AppFree, TypeAlloc, TypeOK
  <2>4. TypeWire'
    BY <1>0, <1>13, <2>1 DEF AppFree, TypeWire, TypeOK
  <2>5. ReadBound'
    BY <1>0, <1>13 DEF AppFree, cursor, local, ReadBound
  <2> QED
    BY <1>0, <1>13, <2>2, <2>3, <2>4, <2>5, TypeUnchanged DEF AppFree, TypeInv, TypeOK
<1>14. CASE SysCheckTimeouts
  <2>1. TypeMain'
    BY <1>0, <1>14 DEF SysCheckTimeouts, Goto, PC, TypeMain, TypeOK
  <2>2. ReadBound'
    BY <1>0, <1>14 DEF SysCheckTimeouts, Goto, ReadBound
  <2> QED
    BY <1>0, <1>14, <2>1, <2>2, TypeUnchanged DEF SysCheckTimeouts, TypeInv, TypeOK
<1>15. CASE LinkUnchanged
  <2>1. TypeMain'
    BY <1>0, <1>15 DEF LinkUnchanged, Goto, PC, TypeMain, TypeOK
  <2>2. ReadBound'
    BY <1>0, <1>15 DEF LinkUnchanged, Goto, ReadBound
  <2> QED
    BY <1>0, <1>15, <2>1, <2>2, TypeUnchanged DEF LinkUnchanged, TypeInv, TypeOK
<1>16. CASE LinkDown
  <2>1. TypeMain'
    BY <1>0, <1>16 DEF LinkDown, NetifDown, Goto, PC, TypeMain, TypeOK
  <2>2. TypeHist'
    BY <1>0, <1>16 DEF LinkDown, TypeHist, TypeOK
  <2>3. ReadBound'
    BY <1>0, <1>16 DEF LinkDown, NetifDown, Goto, ReadBound
  <2> QED
    BY <1>0, <1>16, <2>1, <2>2, <2>3, TypeUnchanged DEF LinkDown, TypeInv, TypeOK
<1>17. CASE StopReturn
  <2>1. TypeMain'
    BY <1>0, <1>17 DEF StopReturn, NetifDown, Goto, PC, TypeMain, TypeOK
  <2>2. TypeHist'
    BY <1>0, <1>17 DEF StopReturn, Drained, TypeHist, TypeOK
  <2>3. TypeWire'
    BY <1>0, <1>17 DEF StopReturn, TypeWire, TypeOK
  <2>4. ReadBound'
    BY <1>0, <1>17 DEF StopReturn, NetifDown, Goto, ReadBound
  <2> QED
    BY <1>0, <1>17, <2>1, <2>2, <2>3, <2>4, TypeUnchanged DEF StopReturn, TypeInv, TypeOK
<1>18. CASE LinkUp
  <2>1. TypeMain'
    BY <1>0, <1>18 DEF LinkUp, NetifUp, Goto, PC, TypeMain, TypeOK
  <2>2. TypeCursor'
    BY <1>0, <1>18 DEF LinkUp, TypeCursor, TypeOK
  <2>3. ReadBound'
    BY <1>0, <1>18 DEF LinkUp, NetifUp, Goto, ReadBound
  <2> QED
    BY <1>0, <1>18, <2>1, <2>2, <2>3, TypeUnchanged DEF LinkUp, TypeInv, TypeOK
<1>19. CASE StartEnable
  <2>1. TypeMain'
    BY <1>0, <1>19 DEF StartEnable, Goto, PC, TypeMain, TypeOK
  <2>2. TypeWire'
    BY <1>0, <1>19 DEF StartEnable, TypeWire, TypeOK
  <2>3. TypeAlloc'
    BY <1>0, <1>19 DEF StartEnable, BuildDone, TypeAlloc, TypeOK
  <2>4. ReadBound'
    BY <1>0, <1>19 DEF StartEnable, Goto, ReadBound
  <2> QED
    BY <1>0, <1>19, <2>1, <2>2, <2>3, <2>4, TypeUnchanged DEF StartEnable, TypeInv, TypeOK
<1>20. CASE StartReturn
  <2>1. TypeMain'
    BY <1>0, <1>20 DEF StartReturn, NetifUp, Goto, PC, TypeMain, TypeOK
  <2>2. ReadBound'
    BY <1>0, <1>20 DEF StartReturn, NetifUp, Goto, ReadBound
  <2> QED
    BY <1>0, <1>20, <2>1, <2>2, TypeUnchanged DEF StartReturn, TypeInv, TypeOK
<1>21. CASE SketchLoop
  <2>1. TypeMain'
    BY <1>0, <1>21 DEF SketchLoop, Goto, PC, TypeMain, TypeOK
  <2>2. ReadBound'
    BY <1>0, <1>21 DEF SketchLoop, Goto, ReadBound
  <2> QED
    BY <1>0, <1>21, <2>1, <2>2, TypeUnchanged DEF SketchLoop, TypeInv, TypeOK
<1>22. CASE UNCHANGED vars
  <2>1. TypeMain'
    BY <1>0, <1>22 DEF vars, TypeMain, TypeOK
  <2>2. ReadBound'
    BY <1>0, <1>22 DEF vars, cursor, local, ReadBound
  <2> QED
    BY <1>0, <1>22, <2>1, <2>2, TypeUnchanged DEF vars, TypeInv, TypeOK
<1> QED
  BY <1>1, <1>2, <1>3, <1>4, <1>5, <1>6, <1>7, <1>8, <1>9, <1>10, <1>11, <1>12, <1>13, <1>14, <1>15, <1>16, <1>17, <1>18, <1>19, <1>20, <1>21, <1>22
     DEF Next, Main, ReadBuildDesc, StartBuildDesc

\* Every variable of the receive path keeps its type: in particular the three
\* ring cursors and the counters of HAL_ETH_ReadData and ETH_UpdateDescriptor
\* stay in range.
THEOREM TypeCorrect == Spec => []TypeOK
<1>1. TypeInv => TypeOK
  BY DEF TypeInv
<1> QED
  BY TypeInit, TypeStep, <1>1, PTL DEF Spec
-----------------------------------------------------------------------------
\* BufferConservation is inductive with what it needs of the main loop: the
\* packet variable of ethernetif_input() is empty except during delivery.
BufInv ==
  /\ BufferConservation
  /\ DmaOwnsBuffer
  /\ pc # "deliver" => pkt = {}

LEMMA BufInit == Init => BufInv
BY NoBufAssumption
   DEF Init, BufInv, BufferConservation, DmaOwnsBuffer, Attached

\* A step that moves no buffer and changes no OWN bit.
LEMMA BufUnchanged ==
  ASSUME BufInv, UNCHANGED <<own, buf, chain, pkt, pool, held>>,
         pc # "deliver" \/ pc' = pc
  PROVE  BufInv'
BY DEF BufInv, BufferConservation, DmaOwnsBuffer, Attached

LEMMA BufStep == TypeInv /\ BufInv /\ [Next]_vars => BufInv'
<1> SUFFICES ASSUME TypeInv, BufInv, [Next]_vars PROVE BufInv'
  OBVIOUS
<1>0. /\ TypeOK /\ BufferConservation /\ DmaOwnsBuffer
      /\ pc # "deliver" => pkt = {}
  BY DEF TypeInv, BufInv
<1> USE NoBufAssumption
<1> USE DEF ring, cursor, local, wire, alloc, hist
<1>1. ASSUME NEW last \in BOOLEAN, DmaReceive(last) PROVE BufInv'
  <2>1. UNCHANGED <<buf, chain, pkt, pool, held, pc>>
    BY <1>1 DEF DmaReceive
  <2>2. BufferConservation'
    BY <1>0, <2>1 DEF BufferConservation, Attached
  <2>3. DmaOwnsBuffer'
    BY <1>0, <1>1, <2>1 DEF DmaReceive, DmaOwnsBuffer, TypeOK, TypeRing
  <2> QED
    BY <1>0, <2>1, <2>2, <2>3 DEF BufInv
<1>2. CASE ReadDesc
  <2>1. descidx \in Desc /\ ~own[descidx]
    BY <1>0, <1>2, IncrInDesc
       DEF ReadDesc, CanReadDesc, descidx, TypeOK, TypeCursor, TypeLocal
  <2>2. CASE fd[descidx] \/ chain # {}
    <3>1. /\ chain' = chain \cup {buf[descidx]}
          /\ buf' = [buf EXCEPT ![descidx] = NoBuf]
          /\ UNCHANGED <<own, pkt, pool, held, pc>>
      BY <1>2, <2>2 DEF ReadDesc
    <3>2. /\ buf'[descidx] = NoBuf
          /\ \A d \in Desc \ {descidx} : buf'[d] = buf[d]
      BY <1>0, <2>1, <3>1 DEF TypeOK, TypeRing
    <3>3. Attached' = Attached \ {buf[descidx]}
      BY <1>0, <2>1, <3>2 DEF Attached, BufferConservation
    <3>4. BufferConservation'
      BY <1>0, <2>1, <3>1, <3>2, <3>3
         DEF BufferConservation, Attached, TypeOK, TypeRing, TypeAlloc
    <3>5. DmaOwnsBuffer'
      BY <1>0, <2>1, <3>1, <3>2 DEF DmaOwnsBuffer
    <3> QED
      BY <1>0, <3>1, <3>4, <3>5 DEF BufInv
  <2>3. CASE ~(fd[descidx] \/ chain # {})
    BY <1>0, <1>2, <2>3, BufUnchanged DEF ReadDesc
  <2> QED
    BY <2>2, <2>3
<1>3. ASSUME BuildDesc PROVE BufInv'
  <2> DEFINE d == RxBuildDescIdx
  <2>1. /\ d \in Desc
        /\ own' = [own EXCEPT ![d] = TRUE]
        /\ UNCHANGED <<chain, pkt, held, pc>>
    BY <1>0, <1>3 DEF BuildDesc, TypeOK, TypeCursor
  <2>2. CASE buf[d] # NoBuf
    <3>1. UNCHANGED <<buf, pool>>
      BY <1>3, <2>2, AttachBufferCases DEF BuildDesc
    <3>2. BufferConservation'
      BY <1>0, <2>1, <3>1 DEF BufferConservation, Attached
    <3>3. DmaOwnsBuffer'
      BY <1>0, <2>1, <2>2, <3>1 DEF DmaOwnsBuffer, TypeOK, TypeRing
    <3> QED
      BY <1>0, <2>1, <3>2, <3>3 DEF BufInv
  <2>3. CASE buf[d] = NoBuf
    <3>1. PICK b \in pool : /\ buf' = [buf EXCEPT ![d] = b]
                           /\ pool' = pool \ {b}
      BY <1>3, <2>3, AttachBufferCases DEF BuildDesc
    <3>2. b \in Buf /\ b # NoBuf
      BY <1>0 DEF TypeOK, TypeAlloc
    <3>3. /\ buf'[d] = b
          /\ \A e \in Desc \ {d} : buf'[e] = buf[e]
      BY <1>0, <2>1, <3>1 DEF TypeOK, TypeRing
    <3>4. Attached' = Attached \cup {b}
      BY <2>1, <2>3, <3>2, <3>3 DEF Attached
    <3>5. BufferConservation'
      BY <1>0, <2>1, <3>1, <3>2, <3>3, <3>4 DEF BufferConservation, Attached
    <3>6. DmaOwnsBuffer'
      BY <1>0, <2>1, <3>2, <3>3 DEF DmaOwnsBuffer, TypeOK, TypeRing
    <3> QED
      BY <1>0, <2>1, <3>5, <3>6 DEF BufInv
  <2> QED
    BY <2>2, <2>3
<1>4. CASE ReadReturn
  <2>1. pkt = {} /\ UNCHANGED <<own, buf, pool, held>>
    BY <1>0, <1>4 DEF ReadReturn
  <2>2. CASE rxdataready
    <3>1. pkt' = chain /\ chain' = {} /\ pc' = "deliver" /\ Attached' = Attached
      BY <1>4, <2>1, <2>2 DEF ReadReturn, Goto, Attached
    <3>2. BufferConservation'
      BY <1>0, <2>1, <3>1 DEF BufferConservation, TypeOK, TypeAlloc
    <3>3. DmaOwnsBuffer'
      BY <1>0, <2>1 DEF DmaOwnsBuffer
    <3> QED
      BY <3>1, <3>2, <3>3 DEF BufInv
  <2>3. CASE ~rxdataready
    BY <1>4, <2>1, <2>3, BufUnchanged DEF ReadReturn
  <2> QED
    BY <2>2, <2>3
<1>5. CASE DeliverFreed
  BY <1>0, <1>5
     DEF DeliverFreed, PbufFree, Goto, BufInv, BufferConservation,
         DmaOwnsBuffer, Attached
<1>6. CASE DeliverHeld
  BY <1>0, <1>6
     DEF DeliverHeld, Goto, BufInv, BufferConservation, DmaOwnsBuffer, Attached
<1>7. ASSUME NEW b \in Buf, AppFree(b) PROVE BufInv'
  BY <1>0, <1>7
     DEF AppFree, PbufFree, BufInv, BufferConservation, DmaOwnsBuffer, Attached
<1>8. CASE \/ RxIrq \/ FatalBusErrorIrq \/ NetProcess \/ RxEventClear
           \/ LowLevelInput \/ ReadDone \/ SysCheckTimeouts
  BY <1>8, BufUnchanged
     DEF RxIrq, FatalBusErrorIrq, NetProcess, RxEventClear, LowLevelInput,
         ReadDone, SysCheckTimeouts
<1>9. CASE \/ LinkUnchanged \/ LinkDown \/ StopReturn \/ LinkUp
           \/ StartEnable \/ StartReturn \/ SketchLoop
  BY <1>9, BufUnchanged
     DEF LinkUnchanged, LinkDown, StopReturn, LinkUp, StartEnable, StartReturn,
         SketchLoop
<1>10. CASE UNCHANGED vars
  BY <1>10, BufUnchanged DEF vars
<1> QED
  BY <1>1, <1>2, <1>3, <1>4, <1>5, <1>6, <1>7, <1>8, <1>9, <1>10
     DEF Next, Main, ReadBuildDesc, StartBuildDesc

\* No buffer of RX_POOL leaks or is in two places, for every ring length and
\* pool, through pool exhaustion, link losses and bus errors: HAL_ETH_ReadData,
\* ETH_UpdateDescriptor, pbuf_free_custom and restarts only move buffers.
THEOREM BuffersConserved == Spec => []BufferConservation
<1>1. TypeInv /\ BufInv => BufferConservation
  BY DEF BufInv
<1> QED
  BY TypeInit, TypeStep, BufInit, BufStep, <1>1, PTL DEF Spec

\* ETH_UpdateDescriptor never gives the DMA a descriptor with a null
\* BackupAddr0, even when an allocation fails half way round the ring.
THEOREM DmaHasBuffer == Spec => []DmaOwnsBuffer
<1>1. TypeInv /\ BufInv => DmaOwnsBuffer
  BY DEF BufInv
<1> QED
  BY TypeInit, TypeStep, BufInit, BufStep, <1>1, PTL DEF Spec
=============================================================================
