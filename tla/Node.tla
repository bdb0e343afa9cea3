-------------------------------- MODULE Node --------------------------------
(***************************************************************************)
(* The main loop and what it runs between two calls of the sketch's        *)
(* loop(): the UDP server, whose "reboot" datagram sets the boot flag and  *)
(* resets the node, and the link monitor, which polls the PHY and starts   *)
(* and stops the MAC and the network interface. The USB interrupt sets the *)
(* same boot flag when the host opens the port at 1200 baud.               *)
(*                                                                         *)
(* Actors: the main thread (pc), the PHY and its link partner, the tick,   *)
(* the network, the USB interrupt, the Ethernet interrupt, and the boot    *)
(* loader, which runs between a reset and the next start. The model begins *)
(* in the first ethernet_link_check_state, with the PHY found by           *)
(* LAN8742_Init; how frames are received is EthRx's matter.                *)
(***************************************************************************)
EXTENDS Integers

CONSTANTS
  TickMod,     \* the tick is counted modulo this (2^32 in the code)
  Period,      \* ticks between two polls (100)
  Modes,       \* bound: modes the link comes up in
  MaxRises,    \* bound: times the link comes up
  MaxFailures, \* bound: failed reads of PHY registers and fatal bus errors
  MaxBoots,    \* bound: times the boot loader starts the program again
  MaxMsgs      \* bound: datagrams

AllModes == [speed : {10, 100}, duplex : {"half", "full"}]
DefaultMode == [speed |-> 100, duplex |-> "full"]

ASSUME TickAssumption == TickMod \in Nat /\ Period \in 1 .. TickMod - 2
ASSUME ModesAssumption == Modes \subseteq AllModes
ASSUME BoundsAssumption ==
  /\ MaxRises \in Nat /\ MaxFailures \in Nat
  /\ MaxBoots \in Nat /\ MaxMsgs \in Nat

VARIABLES
  tick,              \* HAL_GetTick()
  ethernetLinkTimer,
  link, latch,       \* the PHY: the link, and the bit of BSR that stays 0 after a
                     \* loss until it is read
  autoneg, done,     \* BCR: negotiation enabled; PHYSCSR: negotiation done
  mode,              \* speed and duplex: PHYSCSR, or BCR without negotiation
  status,            \* local: what LAN8742_GetLinkState returns
  gState, mac,       \* the Ethernet handle: "READY", "STARTED", "ERROR"; MACCR
  netInited,         \* openplc_net_init is done
  ifUp, linkUp,      \* flags of the netif
  pcb, callback,     \* udp_server_pcb # NULL, udp_reboot_callback # NULL
  msg,               \* the datagram that waits for ethernetif_input, or "none"
  regV,              \* local of openplc_set_eth_flag_and_reset
  flag,              \* the backup register
  pc,                \* position of the main thread; "boot": in the boot loader
  flapped,           \* history: the link was lost and came back, and the monitor
                     \* did not see it
  asked,             \* history: the last request to reboot, dropped or not
  overtaken,         \* history: the last request was a touch, dropped while a
                     \* datagram's request was on its way to the register
  rises, failures, boots, msgs   \* history, for the bounds

time == <<tick, ethernetLinkTimer>>
phy == <<link, latch, autoneg, done, mode, rises>>
poll == <<status, failures>>
eth == <<gState, mac, netInited, ifUp, linkUp>>
udp == <<pcb, callback, msg, msgs>>
boot == <<regV, flag, asked, overtaken, boots>>
vars == <<time, phy, poll, eth, udp, boot, pc, flapped>>

\* LAN8742_STATUS_...
READ_ERROR == -5
LINK_DOWN == 1
AUTONEGO_NOTDONE == 6

Flags == {"APP", "ETH", "CDC"}
InCheck == {"bsr", "bsr2", "bcr", "physcsr", "update"}
PC == {"init", "sketch", "input", "timer", "bkup", "flag", "delay", "boot"} \cup InCheck

TypeBool ==
  /\ link \in BOOLEAN /\ latch \in BOOLEAN /\ autoneg \in BOOLEAN /\ done \in BOOLEAN
  /\ netInited \in BOOLEAN /\ ifUp \in BOOLEAN /\ linkUp \in BOOLEAN
  /\ pcb \in BOOLEAN /\ callback \in BOOLEAN
  /\ flapped \in BOOLEAN /\ overtaken \in BOOLEAN
TypeTime ==
  /\ tick \in 0 .. TickMod - 1
  /\ ethernetLinkTimer \in 0 .. TickMod - 1
TypeRest ==
  /\ mode \in AllModes /\ mac \in AllModes
  /\ status \in {READ_ERROR} \cup LINK_DOWN .. AUTONEGO_NOTDONE
  /\ gState \in {"READY", "STARTED", "ERROR"}
  /\ msg \in {"none", "discover", "reboot"}
  /\ regV \in Flags /\ flag \in Flags /\ asked \in Flags
  /\ pc \in PC
  /\ rises \in Nat /\ failures \in Nat /\ boots \in Nat /\ msgs \in Nat

\* Types; GetLinkState returns what its comment lists.
TypeOK == TypeBool /\ TypeTime /\ TypeRest

\* The program starts; the server may find no memory or no port.
Init ==
  /\ tick = 0 /\ ethernetLinkTimer = 0
  /\ link = FALSE /\ latch = FALSE /\ autoneg \in BOOLEAN /\ done = FALSE
  /\ mode \in Modes
  /\ status = LINK_DOWN
  /\ gState = "READY" /\ mac = DefaultMode
  /\ netInited = FALSE /\ ifUp = FALSE /\ linkUp = FALSE
  /\ pcb \in BOOLEAN /\ callback = FALSE /\ msg = "none"
  /\ regV = "APP"
  /\ pc = "bsr"
  /\ flag \in Flags /\ asked = flag /\ overtaken = FALSE
  /\ flapped = FALSE
  /\ rises = 0 /\ failures = 0 /\ boots = 0 /\ msgs = 0

-----------------------------------------------------------------------------
(* The surroundings.                                                       *)

\* Ticks since ethernetLinkTimer was set, as unsigned arithmetic has it.
Elapsed == (tick - ethernetLinkTimer) % TickMod

\* The tick goes on. (The loop comes round at least once in 2^32 ms.)
Tick ==
  /\ pc # "boot"
  /\ Elapsed < TickMod - 1
  /\ tick' = (tick + 1) % TickMod
  /\ UNCHANGED <<ethernetLinkTimer, phy, poll, eth, udp, boot, pc, flapped>>

\* The link is lost.
LinkLost ==
  /\ link
  /\ link' = FALSE /\ latch' = FALSE /\ done' = FALSE
  /\ UNCHANGED <<time, autoneg, mode, rises, poll, eth, udp, boot, pc, flapped>>

\* It comes up in mode m: while the monitor still takes it for up, or after the
\* monitor has read the link bit, the loss goes unseen.
LinkRises(m) ==
  /\ ~link /\ rises < MaxRises
  /\ autoneg \/ m = mode
  /\ link' = TRUE /\ mode' = m /\ rises' = rises + 1
  /\ flapped' = (flapped \/ linkUp \/ pc \in {"bcr", "physcsr", "update"})
  /\ UNCHANGED <<time, latch, autoneg, done, poll, eth, udp, boot, pc>>

Negotiated ==
  /\ link /\ autoneg /\ ~done
  /\ done' = TRUE
  /\ UNCHANGED <<time, link, latch, autoneg, mode, rises, poll, eth, udp, boot, pc,
                 flapped>>

\* A datagram for the server's port arrives.
Datagram(d) ==
  /\ pc # "boot" /\ linkUp /\ gState = "STARTED" /\ msg = "none"
  /\ msgs < MaxMsgs
  /\ msg' = d /\ msgs' = msgs + 1
  /\ UNCHANGED <<time, phy, poll, eth, pcb, callback, boot, pc, flapped>>

\* HAL_ETH_IRQHandler: a fatal bus error.
BusError ==
  /\ pc # "boot" /\ gState = "STARTED" /\ failures < MaxFailures
  /\ gState' = "ERROR" /\ failures' = failures + 1
  /\ UNCHANGED <<time, phy, status, mac, netInited, ifUp, linkUp, udp, boot, pc,
                 flapped>>

\* HAL_NVIC_SystemReset: what is in RAM and in the MAC is lost, the PHY and the
\* backup register are not.
SystemReset ==
  /\ tick' = 0 /\ ethernetLinkTimer' = 0
  /\ status' = LINK_DOWN
  /\ gState' = "READY" /\ mac' = DefaultMode
  /\ netInited' = FALSE /\ ifUp' = FALSE /\ linkUp' = FALSE
  /\ pcb' = FALSE /\ callback' = FALSE /\ msg' = "none"
  /\ regV' = "APP"
  /\ flapped' = FALSE
  /\ pc' = "boot"
  /\ UNCHANGED <<phy, failures, msgs, boots>>

\* CDC_SET_LINE_CODING in the USB interrupt, with the rate of 1200: the reset
\* comes at once, ...
Touch ==
  /\ pc # "boot" /\ flag # "CDC"
  /\ flag' = "CDC" /\ asked' = "CDC" /\ overtaken' = FALSE
  /\ SystemReset

\* ... unless the flag is set already: the request is dropped, and nothing but the
\* history changes.
TouchIgnored ==
  /\ pc # "boot" /\ flag = "CDC"
  /\ asked' = "CDC"
  /\ overtaken' = (pc \in {"bkup", "flag"})
  /\ UNCHANGED <<time, phy, poll, eth, udp, regV, flag, boots, pc, flapped>>

\* The boot loader starts the program again, and may have set the flag back.
Start ==
  /\ pc = "boot" /\ boots < MaxBoots
  /\ flag' \in {flag, "APP"} /\ asked' = flag' /\ overtaken' = FALSE
  /\ pcb' \in BOOLEAN
  /\ boots' = boots + 1
  /\ pc' = "bsr"
  /\ UNCHANGED <<time, phy, poll, eth, callback, msg, msgs, regV, flapped>>

-----------------------------------------------------------------------------
(* LAN8742_GetLinkState, one register after the other.                     *)

\* A read fails: the link counts as down.
ReadFails ==
  /\ pc \in InCheck \ {"update"} /\ failures < MaxFailures
  /\ status' = READ_ERROR /\ failures' = failures + 1
  /\ pc' = "update"
  /\ UNCHANGED <<time, phy, eth, udp, boot, flapped>>

\* BSR is read, and again: the second value, without the loss the latch kept,
\* is the one that counts.
ReadBsr ==
  /\ pc = "bsr"
  /\ latch' = link
  /\ pc' = "bsr2"
  /\ UNCHANGED <<time, link, autoneg, done, mode, rises, status, failures, eth, udp,
                 boot, flapped>>

ReadBsrAgain ==
  /\ pc = "bsr2"
  /\ latch' = link
  /\ status' = IF latch THEN status ELSE LINK_DOWN
  /\ pc' = IF latch THEN "bcr" ELSE "update"
  /\ UNCHANGED <<time, link, autoneg, done, mode, rises, failures, eth, udp, boot,
                 flapped>>

\* Mutant: the last alternative is left out.
ModeStatusNoElse(m) ==
  CASE m = [speed |-> 100, duplex |-> "full"] -> 2
    [] m = [speed |-> 100, duplex |-> "half"] -> 3
    [] m = [speed |-> 10, duplex |-> "full"] -> 4
    [] OTHER -> 0

\* The status that stands for a mode, from BCR or PHYSCSR.
ModeStatus(m) ==
  CASE m = [speed |-> 100, duplex |-> "full"] -> 2
    [] m = [speed |-> 100, duplex |-> "half"] -> 3
    [] m = [speed |-> 10, duplex |-> "full"] -> 4
    [] OTHER -> 5

ReadBcr ==
  /\ pc = "bcr"
  /\ status' = IF autoneg THEN status ELSE ModeStatus(mode)
  /\ pc' = IF autoneg THEN "physcsr" ELSE "update"
  /\ UNCHANGED <<time, phy, failures, eth, udp, boot, flapped>>

ReadPhyscsr ==
  /\ pc = "physcsr"
  /\ status' = IF done THEN ModeStatus(mode) ELSE AUTONEGO_NOTDONE
  /\ pc' = "update"
  /\ UNCHANGED <<time, phy, failures, eth, udp, boot, flapped>>

-----------------------------------------------------------------------------
(* ethernet_link_check_state, once the status is known.                    *)

\* The mode the switch gives the MAC.
StatusMode == [s \in 2 .. 5 |-> [speed |-> IF s < 4 THEN 100 ELSE 10,
                                 duplex |-> IF s % 2 = 0 THEN "full" ELSE "half"]]

\* Mutant: the MAC is left running.
StopLeft == UNCHANGED gState

\* HAL_ETH_Stop, which refuses a handle that is not started.
Stop == gState' = IF gState = "STARTED" THEN "READY" ELSE gState

\* The check ends, and its local with it. The first one returns, through netif_add,
\* to openplc_net_init.
Return ==
  /\ pc' = IF netInited THEN "sketch" ELSE "init"
  /\ status' = LINK_DOWN

\* The conditions of its two branches.
GoDown == linkUp /\ status <= LINK_DOWN
GoUp == ~linkUp /\ status \in DOMAIN StatusMode

LinkDown ==
  /\ pc = "update" /\ GoDown
  /\ Stop
  /\ ifUp' = FALSE /\ linkUp' = FALSE
  /\ flapped' = FALSE
  /\ Return
  /\ UNCHANGED <<time, phy, failures, mac, netInited, udp, boot>>

\* HAL_ETH_SetMACConfig and HAL_ETH_Start_IT refuse a handle that is not ready;
\* the interface goes up all the same.
LinkUp ==
  /\ pc = "update" /\ GoUp
  /\ IF gState = "READY"
     THEN mac' = StatusMode[status] /\ gState' = "STARTED"
     ELSE UNCHANGED <<mac, gState>>
  /\ ifUp' = TRUE /\ linkUp' = TRUE
  /\ Return
  /\ UNCHANGED <<time, phy, failures, netInited, udp, boot, flapped>>

NoChange ==
  /\ pc = "update" /\ ~GoDown /\ ~GoUp
  /\ flapped' = (flapped /\ linkUp)
  /\ Return
  /\ UNCHANGED <<time, phy, failures, eth, udp, boot>>

Check == ReadFails \/ ReadBsr \/ ReadBsrAgain \/ ReadBcr \/ ReadPhyscsr
           \/ LinkDown \/ LinkUp \/ NoChange

-----------------------------------------------------------------------------
(* The main loop.                                                          *)

\* The rest of openplc_net_init: the interface is set up whatever the link is.
NetInit ==
  /\ pc = "init"
  /\ ifUp' = TRUE /\ netInited' = TRUE
  /\ pc' = "sketch"
  /\ UNCHANGED <<time, phy, poll, gState, mac, linkUp, udp, boot, flapped>>

\* setup() or loop(): the sketch may give the server a callback or take the
\* callback back (openplc_udp_server_start, whose bind may fail), ...
ServerStart(cb) ==
  /\ pc = "sketch"
  /\ callback' = cb
  /\ pcb' \in {pcb, TRUE}
  /\ UNCHANGED <<time, phy, poll, eth, msg, msgs, boot, pc, flapped>>

\* ... or stop it; the callback stays.
ServerStop ==
  /\ pc = "sketch" /\ pcb
  /\ pcb' = FALSE
  /\ UNCHANGED <<time, phy, poll, eth, callback, msg, msgs, boot, pc, flapped>>

\* openplc_net_process is called.
Process ==
  /\ pc = "sketch"
  /\ pc' = "input"
  /\ UNCHANGED <<time, phy, poll, eth, udp, boot, flapped>>

\* ethernetif_input: udp_server_recv answers a discovery; a request to reboot
\* goes to the callback if there is one, ...
Input ==
  /\ pc = "input"
  /\ ~(pcb /\ msg = "reboot" /\ ~callback)
  /\ msg' = "none"
  /\ pc' = "timer"
  /\ UNCHANGED <<time, phy, poll, eth, pcb, callback, msgs, boot, flapped>>

\* ... or to openplc_set_eth_flag_and_reset: the flag is read, ...
InputReboot ==
  /\ pc = "input"
  /\ pcb /\ msg = "reboot" /\ ~callback
  /\ msg' = "none"
  /\ asked' = "ETH" /\ overtaken' = FALSE
  /\ pc' = "bkup"
  /\ UNCHANGED <<time, phy, poll, eth, pcb, callback, msgs, regV, flag, boots, flapped>>

BkupRead ==
  /\ pc = "bkup"
  /\ regV' = flag
  /\ pc' = "flag"
  /\ UNCHANGED <<time, phy, poll, eth, udp, flag, asked, overtaken, boots, flapped>>

\* Mutant: a flag the other port left is kept.
EthFlagIfApp == IF regV = "APP" THEN "ETH" ELSE flag

\* ... written if it is another, ...
EthFlag == IF regV # "ETH" THEN "ETH" ELSE flag

BkupWrite ==
  /\ pc = "flag"
  /\ flag' = EthFlag
  /\ regV' = "APP"
  /\ pc' = "delay"
  /\ UNCHANGED <<time, phy, poll, eth, udp, asked, overtaken, boots, flapped>>

\* ... and after HAL_Delay(20) the node is reset.
Reset ==
  /\ pc = "delay"
  /\ SystemReset
  /\ UNCHANGED <<flag, asked, overtaken>>

\* Mutant: the comparison does not survive the wrap of the tick.
DueNoWrap == tick >= ethernetLinkTimer + Period

Due == Elapsed >= Period

\* The link is polled once in a period.
Poll ==
  /\ pc = "timer" /\ Due
  /\ ethernetLinkTimer' = tick
  /\ pc' = "bsr"
  /\ UNCHANGED <<tick, phy, poll, eth, udp, boot, flapped>>

NoPoll ==
  /\ pc = "timer" /\ ~Due
  /\ pc' = "sketch"
  /\ UNCHANGED <<time, phy, poll, eth, udp, boot, flapped>>

Loop == NetInit \/ Process \/ Input \/ InputReboot \/ BkupRead \/ BkupWrite \/ Reset
          \/ Poll \/ NoPoll

-----------------------------------------------------------------------------
Main == Check \/ Loop

Next ==
  \/ Main
  \/ \E cb \in BOOLEAN : ServerStart(cb)
  \/ ServerStop
  \/ Tick
  \/ LinkLost
  \/ \E m \in Modes : LinkRises(m)
  \/ Negotiated
  \/ \E d \in {"discover", "reboot"} : Datagram(d)
  \/ BusError
  \/ Touch \/ TouchIgnored
  \/ Start

Spec == Init /\ [][Next]_vars

\* The loop goes round (every loop() of the sketch returns), time passes and a
\* negotiation ends. Nothing is said of the boot loader.
Fairness == WF_vars(Main) /\ WF_vars(Tick) /\ WF_vars(Negotiated)

LiveSpec == Spec /\ Fairness

-----------------------------------------------------------------------------
(* Properties                                                              *)

\* "update ETH driver and netif link accordingly": the interface's link flag is set
\* exactly while the MAC is started, and the interface is up then. (It is up
\* without a link from openplc_net_init until the link is lost for the first time.)
\* Excepted is the state of the handle after a fatal bus error, which neither start
\* nor stop leave.
StartedIffUp ==
  gState # "ERROR" => (linkUp <=> gState = "STARTED") /\ (linkUp => ifUp)

\* What the monitor is for: MAC and interface are as the PHY is.
Follows == /\ linkUp <=> link
           /\ linkUp => mac = mode

\* Once the link has come to rest they do follow it, for ever: through failed
\* reads, slow negotiations and the wrap of the tick. They may not when the link
\* was lost and came back in another mode unseen by the monitor (the first read
\* of BSR, which tells, is dropped), or after a fatal bus error.
FollowsPhy == <>[](pc = "boot" \/ Follows \/ flapped \/ gState = "ERROR")

\* The boot loader finds the flag of the request that came last, however the
\* datagram, the delay and the USB interrupt meet, with one exception: a touch that
\* is dropped because the register says CDC already (usbd_cdc_if.c:179), in the few
\* instructions between the datagram and its write (udp_server.c:41-43), loses to
\* that write although it came later.
BootsAsAsked ==
  pc = "boot" => flag = asked \/ (overtaken /\ asked = "CDC" /\ flag = "ETH")
=============================================================================
