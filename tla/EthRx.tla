------------------------------- MODULE EthRx -------------------------------
(***************************************************************************)
(* The zero-copy Ethernet receive path of OpenPLC_Net: the Rx descriptor   *)
(* ring shared by the ETH DMA and the HAL driver, the RX_POOL of custom    *)
(* pbufs, the ETH interrupt, and the polling loop openplc_net_process()    *)
(* that drains the ring into lwIP and restarts the MAC when the link       *)
(* changes.                                                                *)
(*                                                                         *)
(* Three actors interleave: the main loop (its position is pc; an          *)
(* operation that touches memory shared with the DMA or the interrupt is   *)
(* split where the other actors can get in), the ETH interrupt, and the    *)
(* DMA together with the PHY.                                              *)
(***************************************************************************)
EXTENDS Naturals, FiniteSets

CONSTANTS
  RxDescCnt,  \* ETH_RX_DESC_CNT, length of the descriptor ring
  Buf,        \* the ETH_RX_BUFFER_CNT pbuf_custom buffers of RX_POOL
  NoBuf,      \* BackupAddr0 = 0 : no buffer attached
  MaxFrames,  \* bound: frames the wire delivers
  MaxStops    \* bound: times the link goes down

ASSUME RxDescCntAssumption == RxDescCnt \in Nat \ {0}
ASSUME NoBufAssumption == NoBuf \notin Buf
ASSUME BoundsAssumption == MaxFrames \in Nat /\ MaxStops \in Nat

Desc == 0 .. RxDescCnt - 1

\* What the DMA stored in a buffer: the first and (or) the last part of a
\* frame. FD and LD of the written-back DESC3 say the same of a descriptor.
Part == [frame : 0 .. MaxFrames, fd : BOOLEAN, ld : BOOLEAN]
Blank == [frame |-> 0, fd |-> FALSE, ld |-> FALSE]

PC == {"net", "clear", "input", "read", "build", "deliver", "timeouts",
       "link", "stop", "start", "started", "sketch"}

VARIABLES
  gState,          \* heth.gState
  own,             \* OWN bit of DESC3, per descriptor
  addr,            \* DESC0, per descriptor: buffer 1 address in the read
                   \* format, VLAN tags (no address) once written back
  buf,             \* BackupAddr0, per descriptor
  fd, ld,          \* FD and LD of the written-back DESC3, per descriptor
  RxDescIdx,       \* next descriptor the driver reads
  RxBuildDescIdx,  \* next descriptor the driver gives back
  RxBuildDescCnt,  \* descriptors read and not yet given back
  desccnt,         \* local of HAL_ETH_ReadData
  rxdataready,     \* local of HAL_ETH_ReadData
  chain,           \* pRxStart .. pRxEnd : packet being assembled
  pkt,             \* p of ethernetif_input
  dma,             \* DMACRCR.SR, or "dead" after a fatal bus error
  dmaIdx,          \* the DMA's current descriptor
  dmaOpen,         \* the DMA is in the middle of a frame
  data,            \* what the DMA wrote, per buffer
  RI,              \* receive interrupt pending
  EthRxEvent,
  RxAllocStatus,
  pool,            \* free buffers of RX_POOL
  held,            \* buffers lwIP keeps after netif->input()
  linkUp,          \* NETIF_FLAG_LINK_UP
  pc,              \* position of the main loop
  frames,          \* history: frames received from the wire
  stops,           \* history: link-down events
  lastFrame,       \* history: last frame handed to netif->input()
  dirty,           \* history: a stop left the ring or the chain undrained
  starved          \* history: the last low_level_input() skipped the ring

ring  == <<own, addr, buf, fd, ld>>
cursor == <<RxDescIdx, RxBuildDescIdx, RxBuildDescCnt>>
local == <<desccnt, rxdataready>>
wire  == <<dma, dmaIdx, dmaOpen, data, RI, frames>>
alloc == <<RxAllocStatus, pool, held>>
hist  == <<stops, lastFrame, dirty, starved>>
vars  == <<gState, ring, cursor, local, chain, pkt, wire, EthRxEvent, alloc,
           linkUp, pc, hist>>

TypeRing ==
  /\ own \in [Desc -> BOOLEAN]
  /\ addr \in [Desc -> Buf \cup {NoBuf}]
  /\ buf \in [Desc -> Buf \cup {NoBuf}]
  /\ fd \in [Desc -> BOOLEAN]
  /\ ld \in [Desc -> BOOLEAN]
TypeCursor ==
  /\ RxDescIdx \in Desc
  /\ RxBuildDescIdx \in Desc
  /\ RxBuildDescCnt \in 0 .. RxDescCnt
TypeLocal ==
  /\ desccnt \in 0 .. RxDescCnt
  /\ rxdataready \in BOOLEAN
TypeWire ==
  /\ dma \in {"off", "on", "dead"}
  /\ dmaIdx \in Desc
  /\ dmaOpen \in BOOLEAN
  /\ data \in [Buf -> Part]
  /\ RI \in BOOLEAN
  /\ frames \in 0 .. MaxFrames
TypeAlloc ==
  /\ RxAllocStatus \in {"OK", "ERROR"}
  /\ pool \subseteq Buf
  /\ held \subseteq Buf
TypeHist ==
  /\ stops \in 0 .. MaxStops
  /\ lastFrame \in 0 .. MaxFrames
  /\ dirty \in BOOLEAN
  /\ starved \in BOOLEAN
TypeMain ==
  /\ gState \in {"READY", "BUSY", "STARTED", "ERROR"}
  /\ chain \subseteq Buf \cup {NoBuf}
  /\ pkt \subseteq Buf \cup {NoBuf}
  /\ EthRxEvent \in BOOLEAN
  /\ linkUp \in BOOLEAN
  /\ pc \in PC

\* Every variable has its type: the indices of HAL_ETH_ReadData and
\* ETH_UpdateDescriptor stay inside the ring, the counters within its length.
TypeOK ==
  /\ TypeRing /\ TypeCursor /\ TypeLocal /\ TypeWire
  /\ TypeAlloc /\ TypeHist /\ TypeMain

\* Mutant: wraps one step late.
IncrRxDescIndexLate(inx, offset) ==
  IF inx + offset > RxDescCnt THEN inx + offset - RxDescCnt ELSE inx + offset

\* INCR_RX_DESC_INDEX(inx, offset), offset <= RxDescCnt
IncrRxDescIndex(inx, offset) ==
  IF inx + offset >= RxDescCnt THEN inx + offset - RxDescCnt ELSE inx + offset

\* Init is the state low_level_init() is in when it first polls the link:
\* the descriptors are cleared, no buffer is attached, the pool is full.
Init ==
  /\ gState = "READY"
  /\ own = [d \in Desc |-> FALSE]
  /\ addr = [d \in Desc |-> NoBuf]
  /\ buf = [d \in Desc |-> NoBuf]
  /\ fd = [d \in Desc |-> FALSE]
  /\ ld = [d \in Desc |-> FALSE]
  /\ RxDescIdx = 0 /\ RxBuildDescIdx = 0 /\ RxBuildDescCnt = 0
  /\ desccnt = 0 /\ rxdataready = FALSE
  /\ chain = {} /\ pkt = {}
  /\ dma = "off" /\ dmaIdx = 0 /\ dmaOpen = FALSE
  /\ data = [b \in Buf |-> Blank]
  /\ RI = FALSE
  /\ EthRxEvent = FALSE
  /\ RxAllocStatus = "OK"
  /\ pool = Buf /\ held = {}
  /\ linkUp = FALSE
  /\ pc = "link"
  /\ frames = 0 /\ stops = 0 /\ lastFrame = 0
  /\ dirty = FALSE /\ starved = FALSE

-----------------------------------------------------------------------------
(* The wire, the DMA and the interrupt                                     *)

\* The DMA fills its current descriptor with the next part of a frame and
\* writes it back. A frame has at most two parts: the MAC cuts it at 2 KB and
\* a buffer has 1536 bytes. A DMA that is switched off completes the frame it
\* is in. Every descriptor is built with IOC set, so every part raises RI.
\* With no address in DESC0 the data lands outside every buffer.
DmaReceive(last) ==
  LET f == IF dmaOpen THEN frames ELSE frames + 1
      d == dmaIdx
  IN
  /\ dma = "on" \/ (dma = "off" /\ dmaOpen)
  /\ dmaOpen => last
  /\ own[d]
  /\ f <= MaxFrames
  /\ frames' = f
  /\ data' = [b \in Buf |-> IF b = addr[d]
                              THEN [frame |-> f, fd |-> ~dmaOpen, ld |-> last]
                              ELSE data[b]]
  /\ addr' = [addr EXCEPT ![d] = NoBuf]
  /\ fd' = [fd EXCEPT ![d] = ~dmaOpen]
  /\ ld' = [ld EXCEPT ![d] = last]
  /\ own' = [own EXCEPT ![d] = FALSE]
  /\ dmaIdx' = IncrRxDescIndex(d, 1)
  /\ dmaOpen' = ~last
  /\ RI' = TRUE
  /\ UNCHANGED <<gState, buf, cursor, local, chain, pkt, dma, EthRxEvent,
                 alloc, linkUp, pc, hist>>

\* Mutant: an interrupt during ethernetif_input() is taken to be served by it.
RxIrqUnlessReading ==
  /\ RI
  /\ RI' = FALSE
  /\ EthRxEvent' = (EthRxEvent \/ pc \notin {"input", "read", "build", "deliver"})
  /\ UNCHANGED <<gState, ring, cursor, local, chain, pkt, dma, dmaIdx, dmaOpen,
                 data, frames, alloc, linkUp, pc, hist>>

\* HAL_ETH_IRQHandler, receive-complete branch, with HAL_ETH_RxCpltCallback.
RxIrq ==
  /\ RI
  /\ RI' = FALSE
  /\ EthRxEvent' = TRUE
  /\ UNCHANGED <<gState, ring, cursor, local, chain, pkt, dma, dmaIdx, dmaOpen,
                 data, frames, alloc, linkUp, pc, hist>>

\* HAL_ETH_IRQHandler, fatal bus error: a pending receive interrupt is served
\* first, then interrupts are disabled and the handle goes to ERROR. The DMA
\* needs a reset, which nobody gives it.
FatalBusErrorIrq ==
  /\ dma = "on"
  /\ dma' = "dead"
  /\ gState' = "ERROR"
  /\ RI' = FALSE
  /\ EthRxEvent' = (EthRxEvent \/ RI)
  /\ UNCHANGED <<ring, cursor, local, chain, pkt, dmaIdx, dmaOpen, data, frames,
                 alloc, linkUp, pc, hist>>

-----------------------------------------------------------------------------
(* openplc_net_process() and ethernetif_input()                            *)

Goto(l) == pc' = l

NetProcess ==
  /\ pc = "net"
  /\ Goto(IF EthRxEvent THEN "clear" ELSE "timeouts")
  /\ UNCHANGED <<gState, ring, cursor, local, chain, pkt, wire, EthRxEvent,
                 alloc, linkUp, hist>>

RxEventClear ==
  /\ pc = "clear"
  /\ EthRxEvent' = FALSE
  /\ Goto("input")
  /\ UNCHANGED <<gState, ring, cursor, local, chain, pkt, wire, alloc,
                 linkUp, hist>>

\* low_level_input() up to the ring: the pool must not be exhausted and the
\* driver must be started, otherwise there is no packet.
LowLevelInput ==
  /\ pc = "input"
  /\ starved' = (RxAllocStatus = "ERROR")
  /\ Goto(IF RxAllocStatus = "OK" /\ gState = "STARTED" THEN "read"
                                                       ELSE "timeouts")
  /\ desccnt' = 0
  /\ rxdataready' = FALSE
  /\ UNCHANGED <<gState, ring, cursor, chain, pkt, wire, EthRxEvent, alloc,
                 linkUp, stops, lastFrame, dirty>>

\* Descriptor the loop of HAL_ETH_ReadData looks at.
descidx == IncrRxDescIndex(RxDescIdx, desccnt)

\* Mutants: the loop of HAL_ETH_ReadData without each of its conditions.
CanReadDescNoOwn == desccnt < RxDescCnt - RxBuildDescCnt /\ ~rxdataready
CanReadDescNoMax == ~own[descidx] /\ ~rxdataready
CanReadDescNoEnd == ~own[descidx] /\ desccnt < RxDescCnt - RxBuildDescCnt

\* Condition of that loop.
CanReadDesc ==
  /\ ~own[descidx]
  /\ desccnt < RxDescCnt - RxBuildDescCnt
  /\ ~rxdataready

\* One iteration of the loop of HAL_ETH_ReadData, with HAL_ETH_RxLinkCallback.
\* A part that neither starts a frame nor continues one is passed over, its
\* buffer left attached.
ReadDesc ==
  /\ pc = "read"
  /\ CanReadDesc
  /\ desccnt' = desccnt + 1
  /\ IF fd[descidx] \/ chain # {}
       THEN /\ rxdataready' = ld[descidx]
            /\ chain' = chain \cup {buf[descidx]}
            /\ buf' = [buf EXCEPT ![descidx] = NoBuf]
       ELSE UNCHANGED <<rxdataready, chain, buf>>
  /\ UNCHANGED <<gState, own, addr, fd, ld, cursor, pkt, wire, EthRxEvent,
                 alloc, linkUp, pc, hist>>

\* Mutant: counts one descriptor too many.
ReadDoneOneMore ==
  /\ pc = "read"
  /\ ~CanReadDesc
  /\ RxBuildDescCnt' = IF RxBuildDescCnt + desccnt < RxDescCnt
                        THEN RxBuildDescCnt + desccnt + 1 ELSE RxDescCnt
  /\ RxDescIdx' = descidx
  /\ Goto("build")
  /\ UNCHANGED <<gState, ring, RxBuildDescIdx, local, chain, pkt, wire,
                 EthRxEvent, alloc, linkUp, hist>>

\* End of that loop: the descriptors just read are to be given back. (The code
\* stores RxDescIdx after ETH_UpdateDescriptor, which does not look at it.)
ReadDone ==
  /\ pc = "read"
  /\ ~CanReadDesc
  /\ RxBuildDescCnt' = RxBuildDescCnt + desccnt
  /\ RxDescIdx' = descidx
  /\ Goto("build")
  /\ UNCHANGED <<gState, ring, RxBuildDescIdx, local, chain, pkt, wire,
                 EthRxEvent, alloc, linkUp, hist>>

\* Mutants: the DMA gets the descriptor although no buffer could be allocated;
\* DESC0 is not written.
AttachBufferUnchecked(d) ==
  \/ /\ buf[d] = NoBuf
     /\ \E b \in pool : /\ buf' = [buf EXCEPT ![d] = b]
                        /\ addr' = [addr EXCEPT ![d] = b]
                        /\ pool' = pool \ {b}
  \/ (buf[d] # NoBuf \/ pool = {}) /\ UNCHANGED <<buf, addr, pool>>
AttachBufferNoDesc0(d) ==
  \/ /\ buf[d] = NoBuf
     /\ \E b \in pool : /\ buf' = [buf EXCEPT ![d] = b]
                        /\ pool' = pool \ {b}
     /\ UNCHANGED addr
  \/ buf[d] # NoBuf /\ UNCHANGED <<buf, addr, pool>>

\* A descriptor without a buffer gets one from RX_POOL
\* (HAL_ETH_RxAllocateCallback), in BackupAddr0 and in DESC0; a descriptor
\* with a buffer is left as it is.
AttachBuffer(d) ==
  \/ /\ buf[d] = NoBuf
     /\ \E b \in pool : /\ buf' = [buf EXCEPT ![d] = b]
                        /\ addr' = [addr EXCEPT ![d] = b]
                        /\ pool' = pool \ {b}
  \/ buf[d] # NoBuf /\ UNCHANGED <<buf, addr, pool>>

\* One iteration of ETH_UpdateDescriptor: the next descriptor gets a buffer and
\* goes to the DMA.
BuildDesc ==
  /\ RxBuildDescCnt > 0
  /\ AttachBuffer(RxBuildDescIdx)
  /\ own' = [own EXCEPT ![RxBuildDescIdx] = TRUE]
  /\ RxBuildDescIdx' = IncrRxDescIndex(RxBuildDescIdx, 1)
  /\ RxBuildDescCnt' = RxBuildDescCnt - 1
  /\ UNCHANGED <<gState, fd, ld, RxDescIdx, local, chain, pkt, wire, EthRxEvent,
                 RxAllocStatus, held, linkUp, pc, hist>>

\* HAL_ETH_RxAllocateCallback finds RX_POOL empty.
BuildFails == RxBuildDescCnt > 0 /\ buf[RxBuildDescIdx] = NoBuf /\ pool = {}

\* ETH_UpdateDescriptor returns; a failed allocation has set RxAllocStatus.
BuildDone ==
  /\ RxBuildDescCnt = 0 \/ BuildFails
  /\ RxAllocStatus' = IF BuildFails THEN "ERROR" ELSE RxAllocStatus

ReadBuildDesc == pc = "build" /\ BuildDesc

\* HAL_ETH_ReadData returns: a complete packet leaves the chain, otherwise
\* ethernetif_input() ends its loop.
ReadReturn ==
  /\ pc = "build"
  /\ BuildDone
  /\ IF rxdataready THEN /\ pkt' = chain
                         /\ chain' = {}
                         /\ Goto("deliver")
                    ELSE /\ UNCHANGED <<pkt, chain>>
                         /\ Goto("timeouts")
  /\ UNCHANGED <<gState, ring, cursor, local, wire, EthRxEvent, pool, held,
                 linkUp, hist>>

\* Mutants: the buffer returns to the pool only when the pool was exhausted;
\* the exhaustion is not forgotten.
PbufFreeIfExhausted(S) ==
  /\ pool' = IF RxAllocStatus = "ERROR" THEN pool \cup S ELSE pool
  /\ data' = [b \in Buf |-> IF b \in S THEN Blank ELSE data[b]]
  /\ RxAllocStatus' = "OK"
PbufFreeNoReset(S) ==
  /\ pool' = pool \cup S
  /\ data' = [b \in Buf |-> IF b \in S THEN Blank ELSE data[b]]
  /\ UNCHANGED RxAllocStatus

\* pbuf_free_custom() on every buffer of S.
PbufFree(S) ==
  /\ pool' = pool \cup S
  /\ data' = [b \in Buf |-> IF b \in S THEN Blank ELSE data[b]]
  /\ RxAllocStatus' = "OK"

\* Number of the frame that the buffers of a packet hold.
FrameOf(S) == LET F == {data[b].frame : b \in S \cap Buf}
              IN IF F = {} THEN 0 ELSE CHOOSE f \in F : TRUE

\* netif->input() drops the packet, or refuses it and ethernetif_input()
\* frees it.
DeliverFreed ==
  /\ pc = "deliver"
  /\ PbufFree(pkt \cap Buf)
  /\ pkt' = {}
  /\ lastFrame' = FrameOf(pkt)
  /\ Goto("input")
  /\ UNCHANGED <<gState, ring, cursor, local, chain, dma, dmaIdx, dmaOpen,
                 RI, frames, EthRxEvent, held, linkUp, stops, dirty, starved>>

\* netif->input() keeps the packet: reassembly, a TCP queue, the sketch.
DeliverHeld ==
  /\ pc = "deliver"
  /\ held' = held \cup (pkt \cap Buf)
  /\ pkt' = {}
  /\ lastFrame' = FrameOf(pkt)
  /\ Goto("input")
  /\ UNCHANGED <<gState, ring, cursor, local, chain, wire, EthRxEvent,
                 RxAllocStatus, pool, linkUp, stops, dirty, starved>>

\* lwIP or the sketch frees a buffer it kept: while another packet is input,
\* from a timer, or from loop().
AppFree(b) ==
  /\ pc \in {"deliver", "timeouts", "sketch"}
  /\ b \in held
  /\ held' = held \ {b}
  /\ PbufFree({b})
  /\ UNCHANGED <<gState, ring, cursor, local, chain, pkt, dma, dmaIdx, dmaOpen,
                 RI, frames, EthRxEvent, linkUp, pc, hist>>

\* Mutant: ethernetif_rx_event_clear() called after ethernetif_input().
SysCheckTimeoutsClear ==
  /\ pc = "timeouts"
  /\ EthRxEvent' = FALSE
  /\ Goto("link")
  /\ UNCHANGED <<gState, ring, cursor, local, chain, pkt, wire, alloc, linkUp,
                 hist>>

\* Timers of lwIP; the buffers they free are AppFree steps.
SysCheckTimeouts ==
  /\ pc = "timeouts"
  /\ Goto("link")
  /\ UNCHANGED <<gState, ring, cursor, local, chain, pkt, wire, EthRxEvent,
                 alloc, linkUp, hist>>

-----------------------------------------------------------------------------
(* ethernet_link_check_state()                                             *)

\* The 100 ms timer has not expired, or the poll changes nothing: the state
\* is the one already known, or auto-negotiation is not done.
LinkUnchanged ==
  /\ pc = "link"
  /\ Goto("sketch")
  /\ UNCHANGED <<gState, ring, cursor, local, chain, pkt, wire, EthRxEvent,
                 alloc, linkUp, hist>>

\* Nothing is left in the ring: every descriptor is the DMA's and no packet is
\* half received or half read.
Drained ==
  /\ chain = {} /\ ~dmaOpen
  /\ RxBuildDescCnt = 0
  /\ \A d \in Desc : own[d]

\* netif_set_down, netif_set_link_down and return to the sketch.
NetifDown ==
  /\ linkUp' = FALSE
  /\ Goto("sketch")

\* PHY reports link down or cannot be read. HAL_ETH_Stop tests gState here and
\* overwrites it later (StopReturn); unless STARTED it does nothing.
LinkDown ==
  /\ pc = "link"
  /\ linkUp
  /\ stops < MaxStops
  /\ stops' = stops + 1
  /\ IF gState = "STARTED" THEN Goto("stop") /\ UNCHANGED linkUp
                           ELSE NetifDown
  /\ UNCHANGED <<gState, ring, cursor, local, chain, pkt, wire, EthRxEvent,
                 alloc, lastFrame, dirty, starved>>

\* Rest of HAL_ETH_Stop: the DMA is switched off, its position kept. Neither
\* the ring nor pRxStart nor the driver's cursors are touched.
StopReturn ==
  /\ pc = "stop"
  /\ gState' = "READY"
  /\ dma' = IF dma = "on" THEN "off" ELSE dma
  /\ dirty' = (dirty \/ ~Drained)
  /\ NetifDown
  /\ UNCHANGED <<ring, cursor, local, chain, pkt, dmaIdx, dmaOpen, data, RI,
                 frames, EthRxEvent, alloc, stops, lastFrame, starved>>

\* After HAL_ETH_Start_IT, whose result nobody looks at: reception is polled
\* once, netif_set_up, netif_set_link_up.
NetifUp ==
  /\ EthRxEvent' = TRUE
  /\ linkUp' = TRUE
  /\ Goto("sketch")

\* PHY reports a negotiated link: HAL_ETH_Start_IT, when the driver is READY,
\* sets out to build all the descriptors.
LinkUp ==
  /\ pc = "link"
  /\ ~linkUp
  /\ IF gState = "READY"
       THEN /\ gState' = "BUSY"
            /\ RxBuildDescCnt' = RxDescCnt
            /\ Goto("start")
            /\ UNCHANGED <<linkUp, EthRxEvent>>
       ELSE /\ NetifUp
            /\ UNCHANGED <<gState, RxBuildDescCnt>>
  /\ UNCHANGED <<ring, RxDescIdx, RxBuildDescIdx, local, chain, pkt, wire,
                 alloc, hist>>

StartBuildDesc == pc = "start" /\ BuildDesc

\* HAL_ETH_Start_IT enables the DMA, which goes on where it was stopped, and
\* the interrupts, before gState says so.
StartEnable ==
  /\ pc = "start"
  /\ BuildDone
  /\ dma' = IF dma = "off" THEN "on" ELSE dma
  /\ Goto("started")
  /\ UNCHANGED <<gState, ring, cursor, local, chain, pkt, dmaIdx, dmaOpen, data,
                 RI, frames, EthRxEvent, pool, held, linkUp, hist>>

StartReturn ==
  /\ pc = "started"
  /\ gState' = "STARTED"
  /\ NetifUp
  /\ UNCHANGED <<ring, cursor, local, chain, pkt, wire, alloc, hist>>

\* loop() of the sketch returns to main().
SketchLoop ==
  /\ pc = "sketch"
  /\ Goto("net")
  /\ UNCHANGED <<gState, ring, cursor, local, chain, pkt, wire, EthRxEvent,
                 alloc, linkUp, hist>>

-----------------------------------------------------------------------------
Main ==
  \/ NetProcess \/ RxEventClear \/ LowLevelInput
  \/ ReadDesc \/ ReadDone \/ ReadBuildDesc \/ ReadReturn
  \/ DeliverFreed \/ DeliverHeld
  \/ SysCheckTimeouts
  \/ LinkUnchanged \/ LinkDown \/ StopReturn
  \/ LinkUp \/ StartBuildDesc \/ StartEnable \/ StartReturn
  \/ SketchLoop

Next ==
  \/ Main
  \/ \E b \in Buf : AppFree(b)
  \/ \E last \in BOOLEAN : DmaReceive(last)
  \/ RxIrq
  \/ FatalBusErrorIrq

Spec == Init /\ [][Next]_vars

\* The CPU keeps running, a pending interrupt is taken, and lwIP does not
\* keep a buffer for ever (its queues have timers).
Fairness ==
  /\ WF_vars(Main)
  /\ WF_vars(RxIrq)
  /\ \A b \in Buf : SF_vars(AppFree(b))

FairSpec == Spec /\ Fairness
-----------------------------------------------------------------------------
(* Safety                                                                  *)

Attached == {buf[d] : d \in Desc} \ {NoBuf}

\* Every buffer of RX_POOL is in exactly one place: free, attached to one
\* descriptor, in the packet being assembled, in the packet being delivered,
\* or kept by lwIP. None leaks and none is handed out twice, whatever the
\* link, the pool and the DMA do.
BufferConservation ==
  /\ \A d, e \in Desc : buf[d] = buf[e] /\ buf[d] # NoBuf => d = e
  /\ Attached \cap (pool \cup chain \cup pkt \cup held) = {}
  /\ pool \cap (chain \cup pkt \cup held) = {}
  /\ chain \cap (pkt \cup held) \subseteq {NoBuf}
  /\ pkt \cap held = {}
  /\ Buf \subseteq pool \cup Attached \cup chain \cup pkt \cup held

\* A descriptor the DMA owns has a buffer attached (BackupAddr0 # 0), even
\* when ETH_UpdateDescriptor ran out of buffers half way.
DmaOwnsBuffer == \A d \in Desc : own[d] => buf[d] \in Buf

\* As long as every link loss found the ring drained: the DMA writes only to
\* the buffer attached to the descriptor, and HAL_ETH_RxLinkCallback is never
\* given a null buffer.
DmaAddressValid ==
  ~dirty => /\ \A d \in Desc : own[d] => addr[d] = buf[d]
            /\ NoBuf \notin chain \cup pkt

\* Position of descriptor d behind RxBuildDescIdx.
Ahead(d) == IF d >= RxBuildDescIdx THEN d - RxBuildDescIdx
                                   ELSE d + RxDescCnt - RxBuildDescIdx

\* The three cursors divide the ring, as long as every link loss found it
\* drained: first the descriptors read and not given back, then those the
\* driver has not read, then the DMA's, which begin at the DMA's position.
RingAligned ==
  LET taken == IF pc = "read" THEN RxBuildDescCnt + desccnt ELSE RxBuildDescCnt
      next == IF pc = "read" THEN descidx ELSE RxDescIdx
  IN ~dirty /\ gState = "STARTED" =>
       /\ next = IncrRxDescIndex(RxBuildDescIdx, taken)
       /\ \A d \in Desc : buf[d] = NoBuf <=> Ahead(d) < taken
       /\ \E k \in taken .. RxDescCnt :
            /\ dmaIdx = IncrRxDescIndex(RxBuildDescIdx, k)
            /\ \A d \in Desc : own[d] <=> Ahead(d) >= k

\* What ethernetif_input() hands to netif->input() is one whole frame, its
\* parts and no other's, as long as every link loss found the ring drained.
PacketIsOneFrame ==
  pc = "deliver" /\ ~dirty =>
    /\ \A a, b \in pkt : data[a].frame = data[b].frame /\ data[a].frame # 0
    /\ \E b \in pkt : data[b].fd
    /\ \E b \in pkt : data[b].ld

\* No wake-up is lost: when the main loop is outside ethernetif_input() and an
\* unread descriptor is waiting, the event or the interrupt is pending. The
\* exception is a call of ethernetif_input() that found the pool exhausted.
NoLostWakeup ==
  /\ gState = "STARTED" /\ ~dirty /\ ~starved
  /\ pc \notin {"input", "read", "build", "deliver"}
  /\ ~own[RxDescIdx] /\ RxBuildDescCnt < RxDescCnt
  => EthRxEvent \/ RI

\* RX_ALLOC_ERROR blocks reception, so something must be left that ends it:
\* a buffer that lwIP will free, as long as every link loss found the ring
\* drained. It takes more buffers than descriptors: with as many, the first
\* part of a frame waiting in the chain is enough to block reception for ever.
ExhaustionEnds ==
  RxAllocStatus = "ERROR" /\ ~dirty => pool = {} /\ (pkt \cup held) # {}

\* "BackupAddr0: used to store rx buffer 1 address": the address the DMA writes
\* to is the one in BackupAddr0, also after a restart that found frames in the
\* ring, whose DESC0 was written back.
BackupAddrIsDesc0 == \A d \in Desc : own[d] => addr[d] = buf[d]

-----------------------------------------------------------------------------
(* Action properties                                                       *)

\* ETH_UpdateDescriptor "gives back Rx Desc of the last received Packet": never
\* one that holds a part the driver has not read, as long as every link loss
\* found the ring drained.
GivesBackReadOnlyDrained ==
  [][~dirty => \A d \in Desc : ~own[d] /\ own'[d] => buf[d] = NoBuf]_vars

\* Frames reach lwIP in the order of the wire and none is skipped, as long as
\* every link loss found the ring drained.
DeliverInOrder ==
  [][~dirty /\ pc = "deliver" /\ pc' = "input"
       => lastFrame' = lastFrame + 1]_vars

-----------------------------------------------------------------------------
(* Liveness                                                                *)

\* A whole frame in the ring reaches lwIP, unless the link is lost, the bus
\* fails, or ethernetif_input() finds the pool exhausted.
FrameDelivered ==
  \A f \in 1 .. MaxFrames :
    frames > f \/ (frames = f /\ ~dmaOpen)
      ~> lastFrame >= f \/ dirty \/ starved \/ gState # "STARTED"

\* Reception is stalled: the driver is started and buffers are free, but no
\* descriptor is the DMA's.
Stalled ==
  /\ dma = "on" /\ gState = "STARTED"
  /\ RxAllocStatus = "OK" /\ pool # {}
  /\ \A d \in Desc : ~own[d]

\* "If the Rx Buffer Pool was exhausted, signal the ethernetif_input task to
\* ... rebuild the Rx descriptors": reception resumes once a buffer is free.
StallEnds == Stalled ~> ~Stalled
=============================================================================
